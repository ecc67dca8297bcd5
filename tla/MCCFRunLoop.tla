---------------------------- MODULE MCCFRunLoop ----------------------------
(* Instances of CFRunLoop for TLC. *)
EXTENDS CFRunLoop, TLC

CONSTANTS m1, m2, b1

\* All blocks may run in m1; the other mode has to put them back.
BlockInM1 == [b \in Blocks |-> {m1}]

\* One for m1 only, the others for both modes.
BlocksMixed == [b \in Blocks |-> IF b = b1 THEN {m1} ELSE {m1, m2}]

\* The places after which a run may go to sleep without a new look.
EarlyCallouts == {"BeforeTimers", "BeforeSources", "pass1", "BeforeWaiting"}

\* Nothing tells the version 0 sources of one mode apart.
Symmetry == Permutations(Sources0)
=============================================================================
