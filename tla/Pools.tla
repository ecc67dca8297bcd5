-------------------------------- MODULE Pools -------------------------------
(***************************************************************************)
(* What a thread's autorelease pools promise: one list of what was         *)
(* autoreleased, cut by boundaries; to pop a pool is to release what was   *)
(* added since its boundary, last first, each once, and what these         *)
(* releases add as well.                                                   *)
(***************************************************************************)
EXTENDS Naturals, Sequences, SequencesExt

CONSTANTS Objects, Boundary

VARIABLES
    contents, \* what is to be released, and the boundaries
    stops     \* how far the pops in progress release, the innermost last

Init == contents = <<>> /\ stops = <<>>

Add(x) == contents' = Append(contents, x) /\ UNCHANGED stops

BeginPop(n) ==
    /\ n = 0 \/ contents[n + 1] = Boundary
    /\ stops' = Append(stops, n)
    /\ UNCHANGED contents

RemoveLast ==
    /\ stops # <<>> /\ Len(contents) > Last(stops)
    /\ contents' = Front(contents)
    /\ UNCHANGED stops

EndPop ==
    /\ stops # <<>> /\ Len(contents) = Last(stops)
    /\ stops' = Front(stops)
    /\ UNCHANGED contents

PopEmpty ==
    /\ contents = <<Boundary>>
    /\ contents' = <<>>
    /\ UNCHANGED stops

Next ==
    \/ \E x \in Objects \cup {Boundary} : Add(x)
    \/ \E n \in 0..Len(contents) - 1 : BeginPop(n)
    \/ RemoveLast \/ EndPop \/ PopEmpty

Spec == Init /\ [][Next]_<<contents, stops>>
=============================================================================
