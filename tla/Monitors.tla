------------------------------ MODULE Monitors ------------------------------
(***************************************************************************)
(* What @synchronized promises its callers: every object is a recursive    *)
(* monitor.  A thread enters an object nobody else is in, as often as it   *)
(* likes, and leaves what it entered.  The blocks, caches and lists of     *)
(* objc-sync.mm do not appear here; ObjcSync implements this module.       *)
(***************************************************************************)
EXTENDS Naturals

CONSTANTS Threads, Objects

VARIABLE depth   \* depth[t][o]: how often thread t is inside object o

Init == depth = [t \in Threads |-> [o \in Objects |-> 0]]

Enter(t, o) ==
    /\ \A u \in Threads \ {t} : depth[u][o] = 0
    /\ depth' = [depth EXCEPT ![t][o] = @ + 1]

Exit(t, o) ==
    /\ depth[t][o] > 0
    /\ depth' = [depth EXCEPT ![t][o] = @ - 1]

Next == \E t \in Threads, o \in Objects : Enter(t, o) \/ Exit(t, o)

Spec == Init /\ [][Next]_depth
=============================================================================
