------------------------------ MODULE Counter -------------------------------
(***************************************************************************)
(* What retain and release promise for one object, wherever its count is   *)
(* kept: a counter that starts at one and makes the object die, once, when *)
(* it gets to zero.  A dying object can be retained and released in its    *)
(* own -dealloc, and stays dying.                                          *)
(***************************************************************************)
EXTENDS Naturals

VARIABLES
    count,  \* the references to the object
    dying   \* is, or was, the object deallocated?

Init == count = 1 /\ dying = FALSE

Retain == count' = count + 1 /\ UNCHANGED dying

Release ==
    /\ count > (IF dying THEN 0 ELSE 1)
    /\ count' = count - 1
    /\ UNCHANGED dying

LastRelease ==
    /\ ~dying /\ count = 1
    /\ count' = 0
    /\ dying' = TRUE

Next == Retain \/ Release \/ LastRelease

Spec == Init /\ [][Next]_<<count, dying>>
=============================================================================
