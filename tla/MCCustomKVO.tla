---------------------------- MODULE MCCustomKVO ----------------------------
(* Instances of CustomKVO for TLC. *)
EXTENDS CustomKVO, TLC

CONSTANTS cat, panda1, panda2, Cat, Panda, A, B

\* Demo4 and Demo5 observe objects of one class.
Made == (cat :> Cat) @@ (panda1 :> Panda) @@ (panda2 :> Panda)

\* Each demo's controller observes the object it keeps.
OneObserver == {<<cat, A>>, <<panda1, A>>, <<panda2, B>>}

\* Each demo alone, and all of them in one program.
Demos == {{"gv"}, {"zb"}, {"pd"}, {"gv", "zb", "pd"}}
=============================================================================
