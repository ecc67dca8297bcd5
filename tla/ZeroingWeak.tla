----------------------------- MODULE ZeroingWeak ----------------------------
(***************************************************************************)
(* What weak variables promise: a variable holds the object last stored    *)
(* into it until the last reference to that object is gone; at that moment *)
(* every variable that holds it becomes nil.                               *)
(***************************************************************************)
EXTENDS Naturals

CONSTANTS Threads, Objects, Nil, Locations

VARIABLES
    value,  \* value[l]: what variable l holds
    owned   \* owned[t][o]: t's references to o

Held(o) == \E t \in Threads : owned[t][o] > 0

Init ==
    /\ value = [l \in Locations |-> Nil]
    /\ owned \in [Threads -> [Objects -> Nat]]

Store(l, o) ==
    /\ o = Nil \/ Held(o)
    /\ value' = [value EXCEPT ![l] = o]
    /\ UNCHANGED owned

\* A load retains what it finds.
Load(t, l) ==
    /\ value[l] # Nil
    /\ owned' = [owned EXCEPT ![t][value[l]] = @ + 1]
    /\ UNCHANGED value

Release(t, o) ==
    /\ owned[t][o] > 0
    /\ owned' = [owned EXCEPT ![t][o] = @ - 1]
    /\ value' = [l \in Locations |->
                    IF value[l] = o /\ ~Held(o)' THEN Nil ELSE value[l]]

Next ==
    \/ \E l \in Locations, o \in Objects \cup {Nil} : Store(l, o)
    \/ \E t \in Threads, l \in Locations : Load(t, l)
    \/ \E t \in Threads, o \in Objects : Release(t, o)

Spec == Init /\ [][Next]_<<value, owned>>
=============================================================================
