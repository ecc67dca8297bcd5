------------------------ MODULE ClassInitializeProofs ------------------------
(***************************************************************************)
(* Proofs about module ClassInitialize, for any set of threads, any        *)
(* hierarchy of classes and whatever their +initialize methods message:    *)
(* +initialize is sent by one thread, superclasses first, nobody is let in *)
(* early, and the runtime never finds itself inconsistent, not in the      *)
(* child of a fork either.                                                 *)
(*                                                                         *)
(* The invariant says how the frames of a stack are linked (ChainInv),     *)
(* what they have to do with the lists (FrameInv, ListInv) and with the    *)
(* state of their class (StateInv); that a class is begun when its         *)
(* superclass is done or begun by the same thread (ReadyInv); who waits on *)
(* a superclass's behalf (PendInv); what is left to mark (MarkInv); and    *)
(* that the child of a fork has one thread (AliveInv).                     *)
(*                                                                         *)
(* The proof goes in two parts.  The first turns the operations on stacks  *)
(* into what they do to heights, and to the class and the place of each    *)
(* frame (Goes, Pushes, Pops, Waking).  The second has a lemma for each    *)
(* action and does not speak of sequences any more; the actions that begin *)
(* and finish no class have most of their proof in common (Idle).          *)
(***************************************************************************)
EXTENDS ClassInitialize, SequenceTheorems, TLAPS

N(t)     == Len(stack[t])
Ix(t)    == 1..N(t)
Pc(t, i) == stack[t][i].pc
C(t, i)  == stack[t][i].cls

TopPc(t) == Pc(t, N(t))
TopC(t)  == C(t, N(t))

\* The activation has begun its class and has still to finish it.
Begins       == {"initialize", "finish", "halt"}
Active(t, i) == Pc(t, i) \in Begins
\* The thread may begin class c.
Ready(t, c)  == SuperDone(c) \/ Super[c] \in list[t]
OnTop(t, p)  == N(t) > 0 /\ TopPc(t) = p

Frames    == [cls : Classes, pc : Pcs]
StackType == stack \in [Threads -> Seq(Frames)]

BaseType ==
    /\ state \in [Classes -> {"none", "initializing", "initialized"}]
    /\ list \in [Threads -> SUBSET Classes]
    /\ pending \in [Classes -> SUBSET Classes]
    /\ lock \in Threads \cup {"free"}
    /\ work \subseteq Classes
    /\ throwing \in [Threads -> BOOLEAN]
    /\ alive \subseteq Threads

\* The frames: their number, classes and places have their types.
FrameType ==
    \A t \in Threads : N(t) \in Nat /\ \A i \in Ix(t) : C(t, i) \in Classes /\ Pc(t, i) \in Pcs

\* An activation below the top waits for its superclass to be done, or for the
\* +initialize method it runs.
ChainInv ==
    \A t \in Threads : \A i \in Ix(t) : i < N(t) =>
        \/ Pc(t, i) = "set" /\ C(t, i + 1) = Super[C(t, i)]
        \/ Pc(t, i) = "initialize" /\ C(t, i) \notin Trivial

FrameInv ==
    \A t \in Threads : \A i \in Ix(t) :
        /\ t \in alive
        /\ Pc(t, i) # "fatal"
        /\ Active(t, i) => C(t, i) \in list[t]
        /\ \A j \in Ix(t) : Active(t, i) /\ Active(t, j) /\ C(t, j) = C(t, i) => j = i

StateInv ==
    /\ \A c \in Classes : state[c] # "none" => Super[c] # c
    /\ \A t \in Threads : \A i \in Ix(t) :
        /\ Pc(t, i) \in {"check", "wait", "blocked"} => state[C(t, i)] # "none"
        /\ Pc(t, i) = "check2" => state[C(t, i)] = "initialized"

\* A class on the list of a thread is begun, or pending, or being marked.
Kept(t, c) ==
    \/ \E i \in Ix(t) : Active(t, i) /\ C(t, i) = c
    \/ Super[c] # NoClass /\ c \in pending[Super[c]]
    \/ lock = t /\ c \in work

ListInv ==
    \A t \in Threads : \A c \in list[t] :
        /\ state[c] # "none"
        /\ t \in alive => state[c] = "initializing" /\ Kept(t, c)

ReadyInv ==
    \A t \in Threads :
        OnTop(t, "check") \/ (OnTop(t, "set") /\ ~throwing[t]) => Ready(t, TopC(t))

PendInv ==
    \A s \in Classes : \A c \in pending[s] :
        /\ s = Super[c] /\ state[c] = "initializing" /\ state[s] = "initializing"
        /\ \A t \in alive : OnTop(t, "halt") \/ (c \in list[t] <=> s \in list[t])
        /\ \A t \in Threads : \A i \in Ix(t) : Active(t, i) => C(t, i) # c
        /\ \/ s \notin Trivial \/ s \in work
           \/ Super[s] # NoClass /\ s \in pending[Super[s]]

MarkInv ==
    /\ lock = "free" => work = {}
    /\ \A t \in Threads : lock = t =>
         /\ OnTop(t, "marking")
         /\ \A c \in work :
              /\ c \in list[t] /\ SuperDone(c)
              /\ \A i \in Ix(t) : Active(t, i) => C(t, i) # c
    /\ \A t \in Threads : \A i \in Ix(t) : Pc(t, i) = "marking" =>
         lock = t /\ (C(t, i) \in work \/ state[C(t, i)] = "initialized")

AliveInv == Forked => \A t, u \in alive : t = u

IInv == /\ BaseType /\ StackType
        /\ ChainInv /\ FrameInv /\ StateInv /\ ListInv /\ ReadyInv /\ PendInv /\ MarkInv /\ AliveInv
        /\ ContiguousFromRoot /\ OneInitializer

---------------------------------------------------------------------------
\* What the operations on stacks do to heights, classes and places.

Same(u)   == N(u)' = N(u) /\ \A i \in Ix(u) : C(u, i)' = C(u, i) /\ Pc(u, i)' = Pc(u, i)
Others(t) == \A u \in Threads : u # t => Same(u)

Going(t, p) ==
    /\ N(t)' = N(t)
    /\ \A i \in Ix(t) : C(t, i)' = C(t, i) /\ Pc(t, i)' = IF i = N(t) THEN p ELSE Pc(t, i)

Pushing(t, p, c) ==
    /\ N(t)' = N(t) + 1
    /\ \A i \in 1..N(t) + 1 :
         /\ C(t, i)' = IF i = N(t) + 1 THEN c ELSE C(t, i)
         /\ Pc(t, i)' = IF i = N(t) + 1 THEN "super" ELSE IF i = N(t) THEN p ELSE Pc(t, i)

Popping(t) ==
    /\ N(t)' = N(t) - 1
    /\ \A i \in 1..N(t) - 1 : C(t, i)' = C(t, i) /\ Pc(t, i)' = Pc(t, i)

Waking ==
    \A u \in Threads :
        /\ N(u)' = N(u)
        /\ \A i \in Ix(u) :
             /\ C(u, i)' = C(u, i)
             /\ Pc(u, i)' = IF i = N(u) /\ Pc(u, i) = "blocked" THEN "wait" ELSE Pc(u, i)

\* A thread's frames have their types.
LEMMA SeqOfFrames ==
    ASSUME NEW s \in Seq(Frames)
    PROVE  /\ Len(s) \in Nat /\ (Len(s) > 0 <=> s # <<>>)
           /\ \A i \in 1..Len(s) : s[i] \in Frames
<1>1. Len(s) \in Nat /\ \A i \in 1..Len(s) : s[i] \in Frames
  BY LenProperties, ElementOfSeq
<1>2. s # <<>> => Len(s) \in Nat \ {0}
  BY EmptySeq
<1>3. s = <<>> => Len(s) = 0
  BY EmptySeq
<1> QED
  BY <1>1, <1>2, <1>3

\* So do the frames of all threads.
LEMMA FramesTyped ==
    ASSUME StackType
    PROVE  FrameType /\ \A t \in Threads : N(t) > 0 <=> stack[t] # <<>>
<1> SUFFICES ASSUME NEW t \in Threads
             PROVE  /\ N(t) \in Nat /\ (N(t) > 0 <=> stack[t] # <<>>)
                    /\ \A i \in Ix(t) : C(t, i) \in Classes /\ Pc(t, i) \in Pcs
  BY DEF FrameType
<1>1. stack[t] \in Seq(Frames)
  BY DEF StackType
<1>2. \A i \in Ix(t) : stack[t][i] \in Frames
  BY <1>1, SeqOfFrames DEF Ix, N
<1>3. N(t) \in Nat /\ (N(t) > 0 <=> stack[t] # <<>>)
  BY <1>1, SeqOfFrames DEF N
<1>4. \A i \in Ix(t) : C(t, i) \in Classes /\ Pc(t, i) \in Pcs
  BY <1>2 DEF Frames, C, Pc
<1> QED
  BY <1>3, <1>4

\* So they have after a step.
LEMMA FramesTypedNext ==
    ASSUME StackType'
    PROVE  FrameType'
<1> SUFFICES ASSUME NEW t \in Threads
             PROVE  /\ N(t)' \in Nat
                    /\ \A i \in Ix(t)' : C(t, i)' \in Classes /\ Pc(t, i)' \in Pcs
  BY DEF FrameType
<1>1. stack'[t] \in Seq(Frames)
  BY DEF StackType
<1>2. \A i \in Ix(t)' : stack'[t][i] \in Frames
  BY <1>1, SeqOfFrames DEF Ix, N
<1>3. N(t)' \in Nat
  BY <1>1, SeqOfFrames DEF N
<1>4. \A i \in Ix(t)' : C(t, i)' \in Classes /\ Pc(t, i)' \in Pcs
  BY <1>2 DEF Frames, C, Pc
<1> QED
  BY <1>3, <1>4

\* A thread gets the stack s; the others keep theirs.
LEMMA OneStack ==
    ASSUME StackType, NEW t \in Threads, NEW s \in Seq(Frames),
           stack' = [stack EXCEPT ![t] = s]
    PROVE  StackType' /\ stack'[t] = s /\ Others(t)
<1>1. stack' \in [Threads -> Seq(Frames)] /\ stack'[t] = s
  BY DEF StackType
<1>2. \A u \in Threads : u # t => stack'[u] = stack[u]
  BY DEF StackType
<1> QED
  BY <1>1, <1>2 DEF StackType, Others, Same, N, Ix, C, Pc

\* The top frame goes on.
LEMMA GotoEffect ==
    ASSUME StackType, NEW t \in Threads, N(t) > 0, NEW p \in Pcs, Goto(t, p)
    PROVE  StackType' /\ Going(t, p) /\ Others(t)
<1>1. stack[t] \in Seq(Frames) /\ Len(stack[t]) \in Nat /\ Len(stack[t]) > 0
  BY SeqOfFrames DEF StackType, N
<1> DEFINE n == Len(stack[t])
           r == [stack[t][n] EXCEPT !.pc = p]
           s == [stack[t] EXCEPT ![n] = r]
<1>2. n \in 1..n
  BY <1>1
<1>3. stack[t][n] \in Frames
  BY <1>1, <1>2, SeqOfFrames
<1>4. r \in Frames /\ r.cls = stack[t][n].cls /\ r.pc = p
  BY <1>3 DEF Frames
<1>5. stack' = [stack EXCEPT ![t] = s]
  BY DEF Goto, Height
<1> HIDE DEF r
<1>6. /\ s \in Seq(Frames) /\ Len(s) = n
      /\ \A i \in 1..n : s[i] = IF i = n THEN r ELSE stack[t][i]
  BY <1>1, <1>2, <1>4, ExceptSeq
<1> HIDE DEF s
<1>7. StackType' /\ stack'[t] = s /\ Others(t)
  BY <1>5, <1>6, OneStack
<1>8. Going(t, p)
  BY <1>2, <1>4, <1>6, <1>7 DEF Going, N, Ix, C, Pc
<1> QED
  BY <1>7, <1>8

\* The top frame is left.
LEMMA PopEffect ==
    ASSUME StackType, NEW t \in Threads, N(t) > 0, Pop(t)
    PROVE  StackType' /\ Popping(t) /\ Others(t)
<1> DEFINE n == Len(stack[t])
           s == SubSeq(stack[t], 1, n - 1)
<1>1. stack[t] \in Seq(Frames) /\ n \in Nat /\ n > 0 /\ \A i \in 1..n : stack[t][i] \in Frames
  BY SeqOfFrames DEF StackType, N
<1>2. stack' = [stack EXCEPT ![t] = s]
  BY DEF Pop, Height
<1> HIDE DEF n
<1>3. 1 \in Int /\ n - 1 \in Int /\ \A i \in 1..n - 1 : i \in 1..n
  BY <1>1
<1>4. \A i \in 1..n - 1 : stack[t][i] \in Frames
  BY <1>1, <1>3
<1>5. /\ s \in Seq(Frames) /\ Len(s) = IF 1 <= n - 1 THEN n - 1 - 1 + 1 ELSE 0
      /\ \A i \in 1..n - 1 - 1 + 1 : s[i] = stack[t][1 + i - 1]
  BY <1>3, <1>4, SubSeqProperties
<1> HIDE DEF s
<1>6. Len(s) = n - 1 /\ \A i \in 1..n - 1 : s[i] = stack[t][i]
  BY <1>1, <1>5
<1>7. StackType' /\ stack'[t] = s /\ Others(t)
  BY <1>2, <1>5, OneStack
<1>8. Popping(t)
  BY <1>6, <1>7 DEF Popping, N, C, Pc, n
<1> QED
  BY <1>7, <1>8

\* A frame for class c comes on top of a stack.
LEMMA AppendFrame ==
    ASSUME NEW s \in Seq(Frames), NEW f \in Frames
    PROVE  /\ Append(s, f) \in Seq(Frames) /\ Len(Append(s, f)) = Len(s) + 1
           /\ \A i \in 1..Len(s) : Append(s, f)[i] = s[i]
           /\ Append(s, f)[Len(s) + 1] = f
OBVIOUS

\* A frame comes on top.
LEMMA PushEffect ==
    ASSUME StackType, NEW t \in Threads, NEW c \in Classes, Push(t, c)
    PROVE  StackType' /\ Pushing(t, TopPc(t), c) /\ Others(t)
<1> DEFINE f == Frame(c, "super")
           s == Append(stack[t], f)
<1>1. stack[t] \in Seq(Frames) /\ Len(stack[t]) \in Nat
  BY SeqOfFrames DEF StackType, N
<1>2. f \in Frames /\ f.cls = c /\ f.pc = "super"
  BY DEF Frame, Frames, Pcs
<1>3. stack' = [stack EXCEPT ![t] = s]
  BY DEF Push
<1> HIDE DEF f
<1>4. /\ s \in Seq(Frames) /\ Len(s) = Len(stack[t]) + 1
      /\ \A i \in 1..Len(stack[t]) : s[i] = stack[t][i]
      /\ s[Len(stack[t]) + 1] = f
  BY <1>1, <1>2, AppendFrame
<1> HIDE DEF s
<1>5. StackType' /\ stack'[t] = s /\ Others(t)
  BY <1>3, <1>4, OneStack
<1>6. N(t)' = N(t) + 1
  BY <1>4, <1>5 DEF N
<1>7. ASSUME NEW i \in 1..N(t) + 1
      PROVE  /\ C(t, i)' = IF i = N(t) + 1 THEN c ELSE C(t, i)
             /\ Pc(t, i)' = IF i = N(t) + 1 THEN "super" ELSE Pc(t, i)
  <2>1. CASE i = N(t) + 1
    <3>1. stack'[t][i] = f
      BY <1>4, <1>5, <2>1 DEF N
    <3> QED
      BY <1>2, <2>1, <3>1 DEF C, Pc
  <2>2. CASE i # N(t) + 1
    <3>1. i \in 1..Len(stack[t])
      BY <1>1, <2>2 DEF N
    <3>2. stack'[t][i] = stack[t][i]
      BY <1>4, <1>5, <3>1
    <3> QED
      BY <2>2, <3>2 DEF C, Pc
  <2> QED
    BY <2>1, <2>2
<1>8. \A i : i = N(t) => Pc(t, i) = TopPc(t)
  BY DEF TopPc
<1>9. Pushing(t, TopPc(t), c)
  BY <1>6, <1>7, <1>8 DEF Pushing
<1> QED
  BY <1>5, <1>9

\* The top frame is to be set, after the superclass above it.
LEMMA SuperEffect ==
    ASSUME StackType, NEW t \in Threads, N(t) > 0, Super[Cls(t)] \in Classes,
           stack' = [stack EXCEPT ![t] =
                        SubSeq(@, 1, Height(t) - 1)
                            \o <<Frame(Cls(t), "set"), Frame(Super[Cls(t)], "super")>>]
    PROVE  StackType' /\ Pushing(t, "set", Super[TopC(t)]) /\ Others(t)
<1> DEFINE n == Len(stack[t])
           f == Frame(Cls(t), "set")
           g == Frame(Super[Cls(t)], "super")
           q == SubSeq(stack[t], 1, n - 1)
           s == q \o <<f, g>>
<1>1. stack[t] \in Seq(Frames) /\ n \in Nat /\ n > 0 /\ \A i \in 1..n : stack[t][i] \in Frames
  BY SeqOfFrames DEF StackType, N
<1>2. stack' = [stack EXCEPT ![t] = s]
  BY DEF Height
<1>3. /\ f \in Frames /\ f.cls = stack[t][n].cls /\ f.pc = "set"
      /\ g \in Frames /\ g.cls = Super[stack[t][n].cls] /\ g.pc = "super"
  <2>1. stack[t][n] \in Frames /\ Cls(t) = stack[t][n].cls
    BY <1>1 DEF Cls, Top, Height
  <2> QED
    BY <2>1 DEF Frame, Frames, Pcs
<1> HIDE DEF n, f, g
<1>4. 1 \in Int /\ n - 1 \in Int /\ \A i \in 1..n - 1 : i \in 1..n
  BY <1>1
<1>5. \A i \in 1..n - 1 : stack[t][i] \in Frames
  BY <1>1, <1>4
<1>6. /\ q \in Seq(Frames) /\ Len(q) = IF 1 <= n - 1 THEN n - 1 - 1 + 1 ELSE 0
      /\ \A i \in 1..n - 1 - 1 + 1 : q[i] = stack[t][1 + i - 1]
  BY <1>4, <1>5, SubSeqProperties
<1> HIDE DEF q
<1>7. Len(q) = n - 1 /\ \A i \in 1..n - 1 : q[i] = stack[t][i]
  BY <1>1, <1>6
<1>8. <<f, g>> \in Seq(Frames) /\ Len(<<f, g>>) = 2 /\ <<f, g>>[1] = f /\ <<f, g>>[2] = g
  BY <1>3
<1>9. /\ s \in Seq(Frames) /\ Len(s) = Len(q) + Len(<<f, g>>)
      /\ \A i \in 1..Len(q) + Len(<<f, g>>) :
           s[i] = IF i <= Len(q) THEN q[i] ELSE <<f, g>>[i - Len(q)]
  BY <1>6, <1>8, ConcatProperties
<1> HIDE DEF s
<1>10. /\ Len(s) = n + 1 /\ \A i \in 1..n - 1 : s[i] = stack[t][i]
       /\ s[n] = f /\ s[n + 1] = g
  <2>1. Len(s) = n + 1 /\ \A i \in 1..n + 1 : s[i] = IF i <= n - 1 THEN q[i] ELSE <<f, g>>[i - (n - 1)]
    BY <1>1, <1>7, <1>8, <1>9
  <2>2. n - (n - 1) = 1 /\ n + 1 - (n - 1) = 2 /\ ~(n <= n - 1) /\ ~(n + 1 <= n - 1)
    BY <1>1
  <2>3. n \in 1..n + 1 /\ n + 1 \in 1..n + 1 /\ \A i \in 1..n - 1 : i \in 1..n + 1 /\ i <= n - 1
    BY <1>1
  <2>4. \A i \in 1..n - 1 : s[i] = stack[t][i]
    BY <1>7, <2>1, <2>3
  <2>5. s[n] = f
    BY <1>8, <2>1, <2>2, <2>3
  <2>6. s[n + 1] = g
    BY <1>8, <2>1, <2>2, <2>3
  <2> QED
    BY <2>1, <2>4, <2>5, <2>6
<1>11. StackType' /\ stack'[t] = s /\ Others(t)
  BY <1>2, <1>9, OneStack
<1>12. N(t) = n /\ N(t)' = N(t) + 1 /\ TopC(t) = stack[t][n].cls
  BY <1>10, <1>11 DEF N, TopC, C, n
<1>13. ASSUME NEW i \in 1..N(t) + 1
       PROVE  /\ C(t, i)' = IF i = N(t) + 1 THEN Super[TopC(t)] ELSE C(t, i)
              /\ Pc(t, i)' = IF i = N(t) + 1 THEN "super" ELSE IF i = N(t) THEN "set" ELSE Pc(t, i)
  <2>1. CASE i = N(t) + 1
    <3>1. stack'[t][i] = g
      BY <1>10, <1>11, <1>12, <2>1
    <3> QED
      BY <1>3, <1>12, <2>1, <3>1 DEF C, Pc
  <2>2. CASE i = N(t)
    <3>1. stack'[t][i] = f /\ stack[t][i] = stack[t][n]
      BY <1>10, <1>11, <1>12, <2>2
    <3>2. i # N(t) + 1
      BY <1>1, <1>12, <2>2
    <3>3. C(t, i)' = C(t, i) /\ Pc(t, i)' = "set"
      BY <1>3, <3>1 DEF C, Pc
    <3> QED
      BY <2>2, <3>2, <3>3
  <2>3. CASE i # N(t) /\ i # N(t) + 1
    <3>1. i \in 1..n - 1
      BY <1>1, <1>12, <2>3
    <3>2. stack'[t][i] = stack[t][i]
      BY <1>10, <1>11, <3>1
    <3>3. C(t, i)' = C(t, i) /\ Pc(t, i)' = Pc(t, i)
      BY <3>2 DEF C, Pc
    <3> QED
      BY <2>3, <3>3
  <2> QED
    BY <2>1, <2>2, <2>3
<1>14. Pushing(t, "set", Super[TopC(t)])
  BY <1>12, <1>13 DEF Pushing
<1> QED
  BY <1>11, <1>14

\* Blocked threads look again.
LEMMA NotifyEffect ==
    ASSUME StackType, stack' = Notified(stack)
    PROVE  StackType' /\ Waking
<1> DEFINE new(u) == IF stack[u] # <<>> /\ stack[u][Len(stack[u])].pc = "blocked"
                     THEN [stack[u] EXCEPT ![Len(stack[u])].pc = "wait"] ELSE stack[u]
<1>1. stack' = [u \in Threads |-> new(u)]
  BY DEF Notified
<1>2. ASSUME NEW u \in Threads
      PROVE  /\ new(u) \in Seq(Frames) /\ Len(new(u)) = N(u)
             /\ \A i \in Ix(u) :
                  /\ new(u)[i].cls = C(u, i)
                  /\ new(u)[i].pc = IF i = N(u) /\ Pc(u, i) = "blocked" THEN "wait" ELSE Pc(u, i)
  <2> DEFINE n == Len(stack[u])
             r == [stack[u][n] EXCEPT !.pc = "wait"]
             s == [stack[u] EXCEPT ![n] = r]
  <2>1. /\ stack[u] \in Seq(Frames) /\ n \in Nat /\ (n > 0 <=> stack[u] # <<>>)
        /\ \A i \in 1..n : stack[u][i] \in Frames
    BY SeqOfFrames DEF StackType
  <2>2. CASE stack[u] # <<>> /\ stack[u][n].pc = "blocked"
    <3>1. n \in 1..n /\ stack[u][n] \in Frames
      BY <2>1, <2>2
    <3>2. r \in Frames /\ r.cls = stack[u][n].cls /\ r.pc = "wait"
      BY <3>1 DEF Frames, Pcs
    <3>3. new(u) = s
      BY <2>2
    <3> HIDE DEF r, new
    <3>4. /\ s \in Seq(Frames) /\ Len(s) = n
          /\ \A i \in 1..n : s[i] = IF i = n THEN r ELSE stack[u][i]
      BY <2>1, <3>1, <3>2, ExceptSeq
    <3> HIDE DEF s
    <3> QED
      BY <2>1, <2>2, <3>2, <3>3, <3>4 DEF N, Ix, C, Pc
  <2>3. CASE ~(stack[u] # <<>> /\ stack[u][n].pc = "blocked")
    <3>1. new(u) = stack[u]
      BY <2>3
    <3> HIDE DEF new
    <3>2. \A i \in 1..n : ~(i = n /\ stack[u][i].pc = "blocked")
      BY <2>1, <2>3
    <3> QED
      BY <2>1, <3>1, <3>2 DEF N, Ix, C, Pc
  <2> QED
    BY <2>2, <2>3
<1>3. \A u \in Threads : stack'[u] = new(u)
  BY <1>1
<1> HIDE DEF new
<1>4. StackType'
  BY <1>1, <1>2 DEF StackType
<1>5. Waking
  BY <1>2, <1>3 DEF Waking, N, Ix, C, Pc
<1> QED
  BY <1>4, <1>5

---------------------------------------------------------------------------
\* What these effects mean for the frames of all threads.

Goes(t, p) ==
    \A u \in Threads :
        /\ N(u)' = N(u) /\ Ix(u)' = Ix(u)
        /\ \A i \in Ix(u) :
             C(u, i)' = C(u, i) /\ Pc(u, i)' = IF u = t /\ i = N(t) THEN p ELSE Pc(u, i)
        /\ N(u) > 0 => TopC(u)' = TopC(u)
        /\ \A q : OnTop(u, q)' <=> IF u = t THEN q = p ELSE OnTop(u, q)

Unmoved(u) ==
    /\ N(u)' = N(u) /\ Ix(u)' = Ix(u)
    /\ \A i \in Ix(u) : C(u, i)' = C(u, i) /\ Pc(u, i)' = Pc(u, i)
    /\ N(u) > 0 => TopC(u)' = TopC(u)
    /\ \A q : OnTop(u, q)' <=> OnTop(u, q)

Pushes(t, p, c) ==
    /\ \A u \in Threads : u # t => Unmoved(u)
    /\ N(t)' > 0 /\ Ix(t)' = Ix(t) \cup {N(t) + 1} /\ N(t) + 1 \notin Ix(t)
    /\ \A i \in Ix(t) :
         C(t, i)' = C(t, i) /\ Pc(t, i)' = IF i = N(t) THEN p ELSE Pc(t, i)
    /\ \A i : i = N(t) + 1 => C(t, i)' = c /\ Pc(t, i)' = "super"
    /\ \A q : OnTop(t, q)' <=> q = "super"

Pops(t) ==
    /\ \A u \in Threads : u # t => Unmoved(u)
    /\ Ix(t)' = Ix(t) \ {N(t)}
    /\ \A i \in Ix(t) : i # N(t) => C(t, i)' = C(t, i) /\ Pc(t, i)' = Pc(t, i)
    /\ \A q : OnTop(t, q)' => q = "initialize" \/ (q = "set" /\ Super[TopC(t)'] = TopC(t))

\* The top frame is one of the frames.
LEMMA TopFrame ==
    ASSUME FrameType, NEW t \in Threads, N(t) > 0
    PROVE  /\ N(t) \in Ix(t) /\ TopC(t) \in Classes
           /\ C(t, N(t)) = TopC(t) /\ Pc(t, N(t)) = TopPc(t)
<1>1. N(t) \in Ix(t)
  BY DEF FrameType, Ix
<1> QED
  BY <1>1 DEF FrameType, TopC, TopPc

\* A frame that is not the top one is below it.
LEMMA BelowTop ==
    ASSUME FrameType, ChainInv, NEW t \in Threads, NEW i \in Ix(t), i # N(t)
    PROVE  Pc(t, i) \in {"set", "initialize"} /\ (Pc(t, i) = "initialize" => C(t, i) \notin Trivial)
<1>1. i < N(t)
  BY DEF FrameType, Ix
<1> QED
  BY <1>1 DEF ChainInv

\* A stack that keeps its frames keeps its top.
LEMMA SameUnmoved ==
    ASSUME FrameType, NEW u \in Threads, Same(u)
    PROVE  Unmoved(u)
<1>1. N(u)' = N(u) /\ Ix(u)' = Ix(u) /\ \A i \in Ix(u) : C(u, i)' = C(u, i) /\ Pc(u, i)' = Pc(u, i)
  BY DEF Same, Ix
<1>2. N(u) > 0 => N(u) \in Ix(u)
  BY TopFrame
<1>3. N(u) > 0 => TopC(u)' = TopC(u) /\ TopPc(u)' = TopPc(u)
  BY <1>1, <1>2 DEF TopC, TopPc, C, Pc
<1> QED
  BY <1>1, <1>3 DEF Unmoved, OnTop

\* Goto, seen from all threads' frames.
LEMMA GoesEffect ==
    ASSUME FrameType, NEW t \in Threads, N(t) > 0, NEW p, Going(t, p), Others(t)
    PROVE  Goes(t, p)
<1> SUFFICES ASSUME NEW u \in Threads
             PROVE  /\ N(u)' = N(u) /\ Ix(u)' = Ix(u)
                    /\ \A i \in Ix(u) : C(u, i)' = C(u, i)
                         /\ Pc(u, i)' = IF u = t /\ i = N(t) THEN p ELSE Pc(u, i)
                    /\ N(u) > 0 => TopC(u)' = TopC(u)
                    /\ \A q : OnTop(u, q)' <=> IF u = t THEN q = p ELSE OnTop(u, q)
  BY DEF Goes
<1>1. CASE u # t
  BY <1>1, SameUnmoved DEF Others, Unmoved
<1>2. CASE u = t
  <2>1. /\ N(t)' = N(t) /\ Ix(t)' = Ix(t)
        /\ \A i \in Ix(t) : C(t, i)' = C(t, i) /\ Pc(t, i)' = IF i = N(t) THEN p ELSE Pc(t, i)
    BY DEF Going, Ix
  <2>2. N(t) \in Ix(t)
    BY TopFrame
  <2>3. TopC(t)' = TopC(t) /\ TopPc(t)' = p
    BY <2>1, <2>2 DEF TopC, TopPc, C, Pc
  <2>4. \A q : OnTop(t, q)' <=> q = p
    BY <2>1, <2>3 DEF OnTop
  <2> QED
    BY <1>2, <2>1, <2>3, <2>4
<1> QED
  BY <1>1, <1>2

\* Frames below the top stay linked when the top goes on.
LEMMA GoesChain ==
    ASSUME FrameType, ChainInv, NEW t \in Threads, NEW p, Goes(t, p)
    PROVE  ChainInv'
<1> SUFFICES ASSUME NEW u \in Threads, NEW i \in Ix(u)', i < N(u)'
             PROVE  \/ Pc(u, i)' = "set" /\ C(u, i + 1)' = Super[C(u, i)']
                    \/ Pc(u, i)' = "initialize" /\ C(u, i)' \notin Trivial
  BY DEF ChainInv
<1>1. i \in Ix(u) /\ i < N(u) /\ i # N(u)
  BY DEF Goes, FrameType, Ix
<1>2. i + 1 \in Ix(u)
  BY <1>1 DEF FrameType, Ix
<1>3. C(u, i)' = C(u, i) /\ Pc(u, i)' = Pc(u, i) /\ C(u, i + 1)' = C(u, i + 1)
  BY <1>1, <1>2 DEF Goes
<1> QED
  BY <1>1, <1>3 DEF ChainInv

\* Push, seen from all threads' frames.
LEMMA PushesEffect ==
    ASSUME FrameType, NEW t \in Threads, NEW p, NEW c \in Classes, Pushing(t, p, c), Others(t)
    PROVE  Pushes(t, p, c)
<1>1. \A u \in Threads : u # t => Unmoved(u)
  BY SameUnmoved DEF Others
<1>2. N(t) \in Nat
  BY DEF FrameType
<1>3. N(t)' = N(t) + 1 /\ N(t)' > 0 /\ Ix(t)' = Ix(t) \cup {N(t) + 1} /\ N(t) + 1 \notin Ix(t)
  BY <1>2 DEF Pushing, Ix
<1>4. N(t) + 1 \in 1..N(t) + 1 /\ \A i \in Ix(t) : i \in 1..N(t) + 1 /\ i # N(t) + 1
  BY <1>2 DEF Ix
<1>5. \A i \in Ix(t) : C(t, i)' = C(t, i) /\ Pc(t, i)' = IF i = N(t) THEN p ELSE Pc(t, i)
  BY <1>4 DEF Pushing
<1>6. \A i : i = N(t) + 1 => C(t, i)' = c /\ Pc(t, i)' = "super"
  BY <1>4 DEF Pushing
<1>7. TopPc(t)' = "super"
  BY <1>3, <1>6 DEF TopPc, Pc
<1>8. \A q : OnTop(t, q)' <=> q = "super"
  BY <1>3, <1>7 DEF OnTop
<1> QED
  BY <1>1, <1>3, <1>5, <1>6, <1>8 DEF Pushes

\* A pushed frame is linked to the one below it: that one waits for its
\* superclass, or runs a +initialize method that sent a message.
LEMMA PushingChain ==
    ASSUME FrameType, ChainInv, NEW t \in Threads, NEW p, NEW c \in Classes,
           Pushing(t, p, c), Others(t),
           N(t) > 0 => \/ p = "set" /\ c = Super[TopC(t)]
                       \/ p = "initialize" /\ TopC(t) \notin Trivial
    PROVE  ChainInv'
<1> SUFFICES ASSUME NEW u \in Threads, NEW i \in Ix(u)', i < N(u)'
             PROVE  \/ Pc(u, i)' = "set" /\ C(u, i + 1)' = Super[C(u, i)']
                    \/ Pc(u, i)' = "initialize" /\ C(u, i)' \notin Trivial
  BY DEF ChainInv
<1>1. CASE u # t
  <2>1. N(u)' = N(u) /\ \A j \in Ix(u) : C(u, j)' = C(u, j) /\ Pc(u, j)' = Pc(u, j)
    BY <1>1 DEF Others, Same
  <2>2. i \in Ix(u) /\ i < N(u) /\ i + 1 \in Ix(u)
    BY <2>1 DEF FrameType, Ix
  <2> QED
    BY <2>1, <2>2 DEF ChainInv
<1>2. CASE u = t
  <2>1. N(t) \in Nat /\ N(t)' = N(t) + 1
    BY DEF FrameType, Pushing
  <2>2. i \in 1..N(t) + 1 /\ i < N(t) + 1 /\ i + 1 \in 1..N(t) + 1 /\ i \in Ix(t)
    BY <1>2, <2>1 DEF Ix
  <2>3. CASE i = N(t)
    <3>1. N(t) > 0
      BY <2>1, <2>2, <2>3
    <3>2. C(t, i)' = C(t, i) /\ Pc(t, i)' = p /\ C(t, i + 1)' = c
      BY <2>1, <2>2, <2>3 DEF Pushing
    <3>3. C(t, i) = TopC(t)
      BY <2>3 DEF TopC
    <3> QED
      BY <1>2, <3>1, <3>2, <3>3
  <2>4. CASE i # N(t)
    <3>1. i < N(t) /\ i + 1 # N(t) + 1
      BY <2>1, <2>2, <2>4
    <3>2. C(t, i)' = C(t, i) /\ Pc(t, i)' = Pc(t, i) /\ C(t, i + 1)' = C(t, i + 1)
      BY <2>1, <2>2, <2>4, <3>1 DEF Pushing
    <3> QED
      BY <1>2, <2>2, <3>1, <3>2 DEF ChainInv
  <2> QED
    BY <2>3, <2>4
<1> QED
  BY <1>1, <1>2

\* Pop, seen from all threads' frames, and what it returns to.
LEMMA PopsEffect ==
    ASSUME FrameType, ChainInv, NEW t \in Threads, N(t) > 0, Popping(t), Others(t)
    PROVE  Pops(t) /\ ChainInv'
<1>1. \A u \in Threads : u # t => Unmoved(u)
  BY SameUnmoved DEF Others
<1>2. N(t) \in Nat /\ N(t)' = N(t) - 1
  BY DEF FrameType, Popping
<1>3. Ix(t)' = 1..N(t) - 1 /\ Ix(t)' = Ix(t) \ {N(t)}
  BY <1>2 DEF Ix
<1>4. \A i \in 1..N(t) - 1 : C(t, i)' = C(t, i) /\ Pc(t, i)' = Pc(t, i)
  BY DEF Popping
<1>5. \A i \in 1..N(t) - 1 : i \in Ix(t) /\ i < N(t)
  BY <1>2 DEF Ix
<1>6. \A i \in Ix(t) : i # N(t) => C(t, i)' = C(t, i) /\ Pc(t, i)' = Pc(t, i)
  BY <1>3, <1>4
<1>7. ASSUME NEW q, OnTop(t, q)'
      PROVE  q = "initialize" \/ (q = "set" /\ Super[TopC(t)'] = TopC(t))
  <2>1. N(t) - 1 > 0 /\ TopPc(t)' = q
    BY <1>2, <1>7 DEF OnTop
  <2>2. N(t) - 1 \in 1..N(t) - 1 /\ N(t) - 1 + 1 = N(t)
    BY <1>2, <2>1
  <2>3. TopPc(t)' = Pc(t, N(t) - 1) /\ TopC(t)' = C(t, N(t) - 1)
    BY <1>2, <1>4, <2>2 DEF TopPc, TopC, Pc, C
  <2>4. \/ Pc(t, N(t) - 1) = "set" /\ C(t, N(t)) = Super[C(t, N(t) - 1)]
        \/ Pc(t, N(t) - 1) = "initialize"
    BY <1>5, <2>2 DEF ChainInv
  <2>5. C(t, N(t)) = TopC(t)
    BY DEF TopC
  <2> QED
    BY <2>1, <2>3, <2>4, <2>5
<1>8. Pops(t)
  BY <1>1, <1>3, <1>6, <1>7 DEF Pops
<1>9. ChainInv'
  <2> SUFFICES ASSUME NEW u \in Threads, NEW i \in Ix(u)', i < N(u)'
               PROVE  \/ Pc(u, i)' = "set" /\ C(u, i + 1)' = Super[C(u, i)']
                      \/ Pc(u, i)' = "initialize" /\ C(u, i)' \notin Trivial
    BY DEF ChainInv
  <2>1. CASE u # t
    <3>1. N(u)' = N(u) /\ \A j \in Ix(u) : C(u, j)' = C(u, j) /\ Pc(u, j)' = Pc(u, j)
      BY <2>1 DEF Others, Same
    <3>2. i \in Ix(u) /\ i < N(u) /\ i + 1 \in Ix(u)
      BY <3>1 DEF FrameType, Ix
    <3> QED
      BY <3>1, <3>2 DEF ChainInv
  <2>2. CASE u = t
    <3>1. i \in 1..N(t) - 1 /\ i + 1 \in 1..N(t) - 1
      BY <1>2, <1>3, <2>2
    <3>2. C(t, i)' = C(t, i) /\ Pc(t, i)' = Pc(t, i) /\ C(t, i + 1)' = C(t, i + 1)
      BY <1>4, <3>1
    <3> QED
      BY <1>5, <2>2, <3>1, <3>2 DEF ChainInv
  <2> QED
    BY <2>1, <2>2
<1> QED
  BY <1>8, <1>9

\* At the place p.
LEMMA AtTop ==
    ASSUME StackType, NEW t \in Threads, NEW p, At(t, p)
    PROVE  /\ t \in alive /\ N(t) > 0 /\ TopPc(t) = p /\ OnTop(t, p)
           /\ Cls(t) = TopC(t)
<1>1. N(t) > 0
  BY FramesTyped DEF At
<1>2. TopPc(t) = p /\ Cls(t) = TopC(t)
  BY DEF At, Top, Height, Cls, TopPc, TopC, N, Pc, C
<1> QED
  BY <1>1, <1>2 DEF At, OnTop

---------------------------------------------------------------------------
\* Steps that begin and finish no class: nothing changes but the places of
\* threads that do not have a class to finish, before and after.

Idle ==
    \A u \in Threads :
        /\ \A i \in Ix(u)' : u \in alive /\ Pc(u, i)' # "fatal"
        /\ \A i \in Ix(u)' : Active(u, i)' => i \in Ix(u) /\ Active(u, i)
        /\ \A i \in Ix(u)' : Pc(u, i)' = "marking" => i \in Ix(u) /\ Pc(u, i) = "marking"
        /\ \A i \in Ix(u) : Active(u, i) => i \in Ix(u)' /\ Active(u, i)'
        /\ \A i \in Ix(u) \cap Ix(u)' : C(u, i)' = C(u, i)
        /\ \A p \in {"halt", "marking"} : OnTop(u, p) => OnTop(u, p)'

Still == UNCHANGED <<state, list, pending, lock, work, alive>>

\* Everything but the invariants about the places that do change.
KeptByIdle ==
    FrameInv /\ ListInv /\ PendInv /\ MarkInv /\ AliveInv /\ ContiguousFromRoot /\ OneInitializer

\* Such a step keeps all invariants but those about places.
LEMMA IdleKeeps ==
    ASSUME IInv, Idle, Still
    PROVE  KeptByIdle'
<1>1. FrameInv'
  <2> SUFFICES ASSUME NEW u \in Threads, NEW i \in Ix(u)'
               PROVE  /\ u \in alive' /\ Pc(u, i)' # "fatal"
                      /\ Active(u, i)' => C(u, i)' \in list'[u]
                      /\ \A j \in Ix(u)' :
                           Active(u, i)' /\ Active(u, j)' /\ C(u, j)' = C(u, i)' => j = i
    BY DEF FrameInv
  <2>1. u \in alive' /\ Pc(u, i)' # "fatal"
    BY DEF Idle, Still
  <2>2. Active(u, i)' => i \in Ix(u) /\ Active(u, i) /\ C(u, i)' = C(u, i)
    BY DEF Idle
  <2>3. \A j \in Ix(u)' : Active(u, j)' => j \in Ix(u) /\ Active(u, j) /\ C(u, j)' = C(u, j)
    BY DEF Idle
  <2>4. FrameInv
    BY DEF IInv
  <2> QED
    BY <2>1, <2>2, <2>3, <2>4 DEF FrameInv, Still
<1>2. ListInv'
  <2> SUFFICES ASSUME NEW t \in Threads, NEW c \in list'[t]
               PROVE  state'[c] # "none" /\ (t \in alive' => state'[c] = "initializing" /\ Kept(t, c)')
    BY DEF ListInv
  <2>1. state[c] # "none" /\ (t \in alive => state[c] = "initializing" /\ Kept(t, c))
    BY DEF IInv, ListInv, Still
  <2>2. \A i \in Ix(t) : Active(t, i) => i \in Ix(t)' /\ Active(t, i)' /\ C(t, i)' = C(t, i)
    BY DEF Idle
  <2>3. Kept(t, c) => Kept(t, c)'
    BY <2>2 DEF Kept, Still
  <2> QED
    BY <2>1, <2>3 DEF Still
<1>3. PendInv'
  <2> SUFFICES ASSUME NEW s \in Classes, NEW c \in pending'[s]
               PROVE  /\ s = Super[c] /\ state'[c] = "initializing" /\ state'[s] = "initializing"
                      /\ \A t \in alive' : OnTop(t, "halt")' \/ (c \in list'[t] <=> s \in list'[t])
                      /\ \A t \in Threads : \A i \in Ix(t)' : Active(t, i)' => C(t, i)' # c
                      /\ \/ s \notin Trivial \/ s \in work'
                         \/ Super[s] # NoClass /\ s \in pending'[Super[s]]
    BY DEF PendInv
  <2>1. /\ s = Super[c] /\ state[c] = "initializing" /\ state[s] = "initializing"
        /\ \A t \in alive : OnTop(t, "halt") \/ (c \in list[t] <=> s \in list[t])
        /\ \A t \in Threads : \A i \in Ix(t) : Active(t, i) => C(t, i) # c
        /\ \/ s \notin Trivial \/ s \in work
           \/ Super[s] # NoClass /\ s \in pending[Super[s]]
    BY DEF IInv, PendInv, Still
  <2>2. \A t \in alive : t \in Threads /\ (OnTop(t, "halt") => OnTop(t, "halt")')
    BY DEF Idle, IInv, BaseType
  <2>3. \A t \in Threads : \A i \in Ix(t)' :
            Active(t, i)' => i \in Ix(t) /\ Active(t, i) /\ C(t, i)' = C(t, i)
    BY DEF Idle
  <2> QED
    BY <2>1, <2>2, <2>3 DEF Still
<1>4. MarkInv'
  <2>1. lock' = "free" => work' = {}
    BY DEF IInv, MarkInv, Still
  <2>2. ASSUME NEW t \in Threads, NEW i \in Ix(t)', Pc(t, i)' = "marking"
        PROVE  lock' = t /\ (C(t, i)' \in work' \/ state'[C(t, i)'] = "initialized")
    <3>1. i \in Ix(t) /\ Pc(t, i) = "marking" /\ C(t, i)' = C(t, i)
      BY <2>2 DEF Idle
    <3> QED
      BY <3>1 DEF IInv, MarkInv, Still
  <2>3. ASSUME NEW t \in Threads, lock' = t
        PROVE  /\ OnTop(t, "marking")'
               /\ \A c \in work' :
                    /\ c \in list'[t] /\ SuperDone(c)'
                    /\ \A i \in Ix(t)' : Active(t, i)' => C(t, i)' # c
    <3>1. lock = t
      BY <2>3 DEF Still
    <3>2. OnTop(t, "marking")'
      BY <3>1 DEF IInv, MarkInv, Idle
    <3>3. ASSUME NEW c \in work'
          PROVE  /\ c \in list'[t] /\ SuperDone(c)'
                 /\ \A i \in Ix(t)' : Active(t, i)' => C(t, i)' # c
      <4>1. c \in work
        BY <3>3 DEF Still
      <4>2. /\ c \in list[t] /\ SuperDone(c)
            /\ \A i \in Ix(t) : Active(t, i) => C(t, i) # c
        BY <3>1, <4>1 DEF IInv, MarkInv
      <4>3. \A i \in Ix(t)' : Active(t, i)' => i \in Ix(t) /\ Active(t, i) /\ C(t, i)' = C(t, i)
        BY DEF Idle
      <4> QED
        BY <4>2, <4>3 DEF Still, SuperDone
    <3> QED
      BY <3>2, <3>3
  <2> QED
    BY <2>1, <2>2, <2>3 DEF MarkInv
<1>5. AliveInv' /\ ContiguousFromRoot' /\ OneInitializer'
  BY DEF IInv, AliveInv, ContiguousFromRoot, OneInitializer, Forked, SuperDone, Still
<1> QED
  BY <1>1, <1>2, <1>3, <1>4, <1>5 DEF KeptByIdle

\* A goto is such a step if the frame had nothing to finish, or still has.
LEMMA GoesIdle ==
    ASSUME IInv, FrameType, NEW t \in Threads, t \in alive, N(t) > 0, NEW p, Goes(t, p),
           p \notin {"fatal", "marking"}, p \in Begins <=> TopPc(t) \in Begins,
           TopPc(t) \notin {"halt", "marking"}
    PROVE  Idle
<1>1. Pc(t, N(t)) = TopPc(t) /\ N(t) \in Ix(t)
  BY TopFrame
<1>2. \A q : OnTop(t, q) => q = TopPc(t)
  BY DEF OnTop
<1>3. \A u \in Threads : \A i \in Ix(u) : u \in alive /\ Pc(u, i) # "fatal"
  BY DEF IInv, FrameInv
<1> SUFFICES ASSUME NEW u \in Threads
             PROVE  /\ \A i \in Ix(u)' : u \in alive /\ Pc(u, i)' # "fatal"
                    /\ \A i \in Ix(u)' : Active(u, i)' => i \in Ix(u) /\ Active(u, i)
                    /\ \A i \in Ix(u)' : Pc(u, i)' = "marking" => i \in Ix(u) /\ Pc(u, i) = "marking"
                    /\ \A i \in Ix(u) : Active(u, i) => i \in Ix(u)' /\ Active(u, i)'
                    /\ \A i \in Ix(u) \cap Ix(u)' : C(u, i)' = C(u, i)
                    /\ \A q \in {"halt", "marking"} : OnTop(u, q) => OnTop(u, q)'
  BY DEF Idle
<1>4. /\ Ix(u)' = Ix(u)
      /\ \A i \in Ix(u) :
           C(u, i)' = C(u, i) /\ Pc(u, i)' = IF u = t /\ i = N(t) THEN p ELSE Pc(u, i)
      /\ \A q : OnTop(u, q)' <=> IF u = t THEN q = p ELSE OnTop(u, q)
  BY DEF Goes
<1>5. \A i \in Ix(u) : Active(u, i)' <=> Active(u, i)
  BY <1>1, <1>4 DEF Active
<1>6. \A q \in {"halt", "marking"} : OnTop(u, q) => OnTop(u, q)'
  BY <1>2, <1>4
<1>7. \A i \in Ix(u) : Pc(u, i)' # "fatal" /\ (Pc(u, i)' = "marking" => Pc(u, i) = "marking")
  BY <1>3, <1>4
<1> QED
  BY <1>3, <1>4, <1>5, <1>6, <1>7

\* So is a push,
LEMMA PushesIdle ==
    ASSUME IInv, FrameType, NEW t \in Threads, t \in alive, NEW p, NEW c, Pushes(t, p, c),
           N(t) > 0 => \/ TopPc(t) = "super" /\ p = "set"
                       \/ TopPc(t) = "initialize" /\ p = "initialize"
    PROVE  Idle
<1>1. \A i \in Ix(t) : i = N(t) => N(t) > 0 /\ Pc(t, i) = TopPc(t)
  BY DEF FrameType, Ix, TopPc
<1>2. \A q \in {"halt", "marking"} : ~OnTop(t, q)
  BY DEF OnTop
<1>3. \A u \in Threads : \A i \in Ix(u) : u \in alive /\ Pc(u, i) # "fatal"
  BY DEF IInv, FrameInv
<1> SUFFICES ASSUME NEW u \in Threads
             PROVE  /\ \A i \in Ix(u)' : u \in alive /\ Pc(u, i)' # "fatal"
                    /\ \A i \in Ix(u)' : Active(u, i)' => i \in Ix(u) /\ Active(u, i)
                    /\ \A i \in Ix(u)' : Pc(u, i)' = "marking" => i \in Ix(u) /\ Pc(u, i) = "marking"
                    /\ \A i \in Ix(u) : Active(u, i) => i \in Ix(u)' /\ Active(u, i)'
                    /\ \A i \in Ix(u) \cap Ix(u)' : C(u, i)' = C(u, i)
                    /\ \A q \in {"halt", "marking"} : OnTop(u, q) => OnTop(u, q)'
  BY DEF Idle
<1>4. CASE u # t
  BY <1>3, <1>4 DEF Pushes, Unmoved, Active
<1>5. CASE u = t
  <2>1. /\ Ix(t)' = Ix(t) \cup {N(t) + 1} /\ N(t) + 1 \notin Ix(t)
        /\ \A i : i = N(t) + 1 => Pc(t, i)' = "super"
        /\ \A i \in Ix(t) :
             C(t, i)' = C(t, i) /\ Pc(t, i)' = IF i = N(t) THEN p ELSE Pc(t, i)
    BY DEF Pushes
  <2>2. \A i \in Ix(t) : Active(t, i)' <=> Active(t, i)
    BY <1>1, <2>1 DEF Active, Begins
  <2>3. \A i : i = N(t) + 1 => ~Active(t, i)'
    BY <2>1 DEF Active, Begins
  <2>4. \A i \in Ix(t) : Pc(t, i)' # "fatal" /\ (Pc(t, i)' = "marking" => Pc(t, i) = "marking")
    BY <1>1, <1>3, <2>1
  <2> QED
    BY <1>2, <1>5, <2>1, <2>2, <2>3, <2>4
<1> QED
  BY <1>4, <1>5

\* and a pop of a frame that has nothing to finish.
LEMMA PopsIdle ==
    ASSUME IInv, FrameType, NEW t \in Threads, N(t) > 0, Pops(t),
           TopPc(t) \notin Begins, TopPc(t) # "marking"
    PROVE  Idle
<1>1. Pc(t, N(t)) = TopPc(t)
  BY DEF TopPc
<1>2. \A q \in {"halt", "marking"} : ~OnTop(t, q)
  BY DEF OnTop, Begins
<1>3. \A u \in Threads : \A i \in Ix(u) : u \in alive /\ Pc(u, i) # "fatal"
  BY DEF IInv, FrameInv
<1> SUFFICES ASSUME NEW u \in Threads
             PROVE  /\ \A i \in Ix(u)' : u \in alive /\ Pc(u, i)' # "fatal"
                    /\ \A i \in Ix(u)' : Active(u, i)' => i \in Ix(u) /\ Active(u, i)
                    /\ \A i \in Ix(u)' : Pc(u, i)' = "marking" => i \in Ix(u) /\ Pc(u, i) = "marking"
                    /\ \A i \in Ix(u) : Active(u, i) => i \in Ix(u)' /\ Active(u, i)'
                    /\ \A i \in Ix(u) \cap Ix(u)' : C(u, i)' = C(u, i)
                    /\ \A q \in {"halt", "marking"} : OnTop(u, q) => OnTop(u, q)'
  BY DEF Idle
<1>4. CASE u # t
  BY <1>3, <1>4 DEF Pops, Unmoved, Active
<1>5. CASE u = t
  <2>1. Ix(t)' = Ix(t) \ {N(t)}
    BY DEF Pops
  <2>2. \A i \in Ix(t) : i # N(t) => C(t, i)' = C(t, i) /\ Pc(t, i)' = Pc(t, i)
    BY DEF Pops
  <2>3. \A i \in Ix(t)' : Active(t, i)' <=> Active(t, i)
    BY <2>1, <2>2 DEF Active
  <2>4. \A i \in Ix(t) : Active(t, i) => i # N(t)
    BY <1>1 DEF Active
  <2> QED
    BY <1>2, <1>3, <1>5, <2>1, <2>2, <2>3, <2>4
<1> QED
  BY <1>4, <1>5

\* A thread goes on in the runtime, or its +initialize method is done.
LEMMA AdvanceKeeps ==
    ASSUME IInv, FrameType, NEW t \in Threads, t \in alive, N(t) > 0, NEW p,
           StackType', Goes(t, p), Still, throwing' \in [Threads -> BOOLEAN],
           \A u \in Threads : u # t => throwing'[u] = throwing[u],
           p \notin {"fatal", "marking"}, p \in Begins <=> TopPc(t) \in Begins,
           TopPc(t) \notin {"halt", "marking"},
           p \in {"check", "wait", "blocked"} => state[TopC(t)] # "none",
           p = "check2" => state[TopC(t)] = "initialized",
           p = "check" \/ (p = "set" /\ ~throwing'[t]) => Ready(t, TopC(t))
    PROVE  IInv'
<1>1. KeptByIdle'
  BY GoesIdle, IdleKeeps
<1>2. ChainInv'
  BY GoesChain DEF IInv
<1>3. BaseType'
  BY DEF IInv, BaseType, Still
<1>4. \A i : i = N(t) => C(t, i) = TopC(t)
  BY DEF TopC
<1>5. StateInv'
  <2>1. ASSUME NEW u \in Threads, NEW i \in Ix(u)'
        PROVE  /\ Pc(u, i)' \in {"check", "wait", "blocked"} => state'[C(u, i)'] # "none"
               /\ Pc(u, i)' = "check2" => state'[C(u, i)'] = "initialized"
    <3>1. /\ i \in Ix(u) /\ C(u, i)' = C(u, i)
          /\ Pc(u, i)' = IF u = t /\ i = N(t) THEN p ELSE Pc(u, i)
      BY DEF Goes
    <3>2. /\ Pc(u, i) \in {"check", "wait", "blocked"} => state[C(u, i)] # "none"
          /\ Pc(u, i) = "check2" => state[C(u, i)] = "initialized"
      BY <3>1 DEF IInv, StateInv
    <3>3. state' = state
      BY DEF Still
    <3> QED
      BY <1>4, <3>1, <3>2, <3>3
  <2>2. \A c \in Classes : state'[c] # "none" => Super[c] # c
    BY DEF IInv, StateInv, Still
  <2> QED
    BY <2>1, <2>2 DEF StateInv
<1>6. ReadyInv'
  <2> SUFFICES ASSUME NEW u \in Threads, OnTop(u, "check")' \/ (OnTop(u, "set")' /\ ~throwing'[u])
               PROVE  Ready(u, TopC(u))'
    BY DEF ReadyInv
  <2>1. N(u) > 0 /\ TopC(u)' = TopC(u)
    BY DEF Goes, OnTop
  <2>2. Ready(u, TopC(u))
    <3>1. CASE u = t
      BY <3>1 DEF Goes
    <3>2. CASE u # t
      BY <3>2 DEF Goes, IInv, ReadyInv
    <3> QED
      BY <3>1, <3>2
  <2> QED
    BY <2>1, <2>2 DEF Ready, SuperDone, Still
<1> QED
  BY <1>1, <1>2, <1>3, <1>5, <1>6 DEF IInv, KeptByIdle

\* A message is sent, or the superclass comes first.
LEMMA PushKeeps ==
    ASSUME IInv, FrameType, NEW t \in Threads, t \in alive, NEW p, NEW c \in Classes,
           StackType', Pushing(t, p, c), Others(t), Still, UNCHANGED throwing,
           N(t) > 0 => \/ TopPc(t) = "super" /\ p = "set" /\ c = Super[TopC(t)]
                       \/ TopPc(t) = "initialize" /\ p = "initialize" /\ TopC(t) \notin Trivial
    PROVE  IInv'
<1>1. Pushes(t, p, c)
  BY PushesEffect
<1>2. KeptByIdle'
  BY <1>1, PushesIdle, IdleKeeps
<1>3. ChainInv'
  BY PushingChain DEF IInv
<1>4. BaseType'
  BY DEF IInv, BaseType, Still
<1>5. StateInv'
  <2>1. ASSUME NEW u \in Threads, NEW i \in Ix(u)'
        PROVE  /\ Pc(u, i)' \in {"check", "wait", "blocked"} => state'[C(u, i)'] # "none"
               /\ Pc(u, i)' = "check2" => state'[C(u, i)'] = "initialized"
    <3>1. Pc(u, i)' \in {"super", "set", "initialize"}
             \/ (i \in Ix(u) /\ C(u, i)' = C(u, i) /\ Pc(u, i)' = Pc(u, i))
      <4>1. CASE u # t
        BY <1>1, <4>1 DEF Pushes, Unmoved
      <4>2. CASE u = t
        <5>1. i \in Ix(t) => i # N(t) \/ N(t) > 0
          BY DEF FrameType, Ix
        <5> QED
          BY <1>1, <4>2, <5>1 DEF Pushes
      <4> QED
        BY <4>1, <4>2
    <3>2. i \in Ix(u) =>
          /\ Pc(u, i) \in {"check", "wait", "blocked"} => state[C(u, i)] # "none"
          /\ Pc(u, i) = "check2" => state[C(u, i)] = "initialized"
      BY DEF IInv, StateInv
    <3>3. state' = state
      BY DEF Still
    <3> QED
      BY <3>1, <3>2, <3>3
  <2>2. \A d \in Classes : state'[d] # "none" => Super[d] # d
    BY DEF IInv, StateInv, Still
  <2> QED
    BY <2>1, <2>2 DEF StateInv
<1>6. ReadyInv'
  <2> SUFFICES ASSUME NEW u \in Threads, OnTop(u, "check")' \/ (OnTop(u, "set")' /\ ~throwing'[u])
               PROVE  Ready(u, TopC(u))'
    BY DEF ReadyInv
  <2>1. u # t
    BY <1>1 DEF Pushes
  <2>2. OnTop(u, "check") \/ (OnTop(u, "set") /\ ~throwing[u])
    BY <1>1, <2>1 DEF Pushes, Unmoved
  <2>3. TopC(u)' = TopC(u)
    BY <1>1, <2>1, <2>2 DEF Pushes, Unmoved, OnTop
  <2>4. Ready(u, TopC(u))
    BY <2>2 DEF IInv, ReadyInv
  <2> QED
    BY <2>3, <2>4 DEF Ready, SuperDone, Still
<1> QED
  BY <1>2, <1>3, <1>4, <1>5, <1>6 DEF IInv, KeptByIdle

\* A pop leaves nothing that was not there.
LEMMA PopState ==
    ASSUME StateInv, NEW t \in Threads, Pops(t), UNCHANGED state
    PROVE  StateInv'
<1>1. ASSUME NEW u \in Threads, NEW i \in Ix(u)'
      PROVE  i \in Ix(u) /\ C(u, i)' = C(u, i) /\ Pc(u, i)' = Pc(u, i)
  <2>1. CASE u = t
    BY <2>1 DEF Pops
  <2>2. CASE u # t
    BY <2>2 DEF Pops, Unmoved
  <2> QED
    BY <2>1, <2>2
<1> QED
  BY <1>1 DEF StateInv

\* Whoever is returned to may go on: the class that it waited for is done, or
\* begun by the same thread.
LEMMA PopReady ==
    ASSUME ReadyInv, BaseType, FrameType, NEW t \in Threads, N(t) > 0, Pops(t), UNCHANGED <<state, list, throwing>>,
           throwing[t] \/ state[TopC(t)] = "initialized" \/ TopC(t) \in list[t]
    PROVE  ReadyInv'
<1> SUFFICES ASSUME NEW u \in Threads, OnTop(u, "check")' \/ (OnTop(u, "set")' /\ ~throwing'[u])
             PROVE  Ready(u, TopC(u))'
  BY DEF ReadyInv
<1>1. CASE u # t
  <2>1. (OnTop(u, "check") \/ (OnTop(u, "set") /\ ~throwing[u])) /\ TopC(u)' = TopC(u)
    BY <1>1 DEF Pops, Unmoved, OnTop
  <2>2. Ready(u, TopC(u))
    BY <2>1 DEF ReadyInv
  <2> QED
    BY <2>1, <2>2 DEF Ready, SuperDone
<1>2. CASE u = t
  <2>1. OnTop(t, "set")' /\ ~throwing[t] /\ Super[TopC(t)'] = TopC(t)
    BY <1>2 DEF Pops
  <2>2. state[TopC(t)] = "initialized" \/ TopC(t) \in list[t]
    BY <2>1
  <2> QED
    BY <1>2, <2>1, <2>2 DEF Ready, SuperDone
<1> QED
  BY <1>1, <1>2

\* _class_initialize returns, or is left by an exception.
LEMMA ReturnKeeps ==
    ASSUME IInv, FrameType, NEW t \in Threads, N(t) > 0, StackType', Pops(t), ChainInv',
           Still, UNCHANGED throwing, TopPc(t) \notin Begins, TopPc(t) # "marking",
           throwing[t] \/ state[TopC(t)] = "initialized" \/ TopC(t) \in list[t]
    PROVE  IInv'
<1>1. KeptByIdle'
  BY PopsIdle, IdleKeeps
<1>2. BaseType'
  BY DEF IInv, BaseType, Still
<1>3. StateInv'
  BY PopState DEF IInv, Still
<1>4. ReadyInv'
  BY PopReady DEF IInv, Still
<1> QED
  BY <1>1, <1>2, <1>3, <1>4 DEF IInv, KeptByIdle

---------------------------------------------------------------------------
\* The actions that begin and finish no class.

\* Throwing, and what is not touched.
LEMMA Settled ==
    ASSUME IInv, UNCHANGED throwing
    PROVE  /\ throwing' \in [Threads -> BOOLEAN]
           /\ \A u : throwing'[u] = throwing[u]
BY DEF IInv, BaseType

\* The recursion on the superclass.
LEMMA SuperFirstKeeps ==
    ASSUME IInv, NEW t \in Threads, SuperFirst(t)
    PROVE  IInv'
<1>1. StackType /\ FrameType
  BY FramesTyped DEF IInv
<1>2. t \in alive /\ N(t) > 0 /\ TopPc(t) = "super" /\ Cls(t) = TopC(t)
  BY <1>1, AtTop DEF SuperFirst
<1>3. Still /\ UNCHANGED throwing
  BY DEF SuperFirst, Still
<1>4. TopC(t) \in Classes
  BY <1>1, <1>2, TopFrame
<1>5. CASE SuperDone(TopC(t))
  <2>1. Goto(t, "set")
    BY <1>2, <1>5 DEF SuperFirst, Goto
  <2>2. StackType' /\ Going(t, "set") /\ Others(t)
    BY <1>1, <1>2, <2>1, GotoEffect DEF Pcs
  <2>3. Goes(t, "set")
    BY <1>1, <1>2, <2>2, GoesEffect
  <2> QED
    BY <1>1, <1>2, <1>3, <1>5, <2>2, <2>3, Settled, AdvanceKeeps DEF Ready, Begins
<1>6. CASE ~SuperDone(TopC(t))
  <2>1. Super[TopC(t)] \in Classes
    BY <1>4, <1>6, ClassesAssumption DEF SuperDone
  <2>2. stack' = [stack EXCEPT ![t] =
                     SubSeq(@, 1, Height(t) - 1)
                         \o <<Frame(Cls(t), "set"), Frame(Super[Cls(t)], "super")>>]
    BY <1>2, <1>6 DEF SuperFirst
  <2>3. StackType' /\ Pushing(t, "set", Super[TopC(t)]) /\ Others(t)
    BY <1>1, <1>2, <2>1, <2>2, SuperEffect
  <2> QED
    BY <1>1, <1>2, <1>3, <2>1, <2>3, PushKeeps
<1> QED
  BY <1>5, <1>6

\* A message from user code.
LEMMA MessageKeeps ==
    ASSUME IInv, NEW t \in Threads, NEW c \in Classes, Message(t, c)
    PROVE  IInv'
<1>1. StackType /\ FrameType
  BY FramesTyped DEF IInv
<1>2. t \in alive /\ Push(t, c) /\ Still /\ UNCHANGED throwing
  BY DEF Message, InUserCode, Still
<1>3. StackType' /\ Pushing(t, TopPc(t), c) /\ Others(t)
  BY <1>1, <1>2, PushEffect
<1>4. N(t) > 0 => TopPc(t) = "initialize" /\ TopC(t) \notin Trivial
  <2>1. N(t) > 0 => At(t, "initialize") /\ c \in Touches[Cls(t)]
    BY <1>1, FramesTyped DEF Message, InUserCode, At
  <2>2. N(t) > 0 => TopPc(t) = "initialize" /\ c \in Touches[TopC(t)]
    BY <1>1, <2>1, AtTop
  <2> QED
    BY <2>2, ClassesAssumption
<1>5. CASE N(t) > 0
  BY <1>1, <1>2, <1>3, <1>4, <1>5, PushKeeps
<1>6. CASE ~(N(t) > 0)
  BY <1>1, <1>2, <1>3, <1>6, PushKeeps
<1> QED
  BY <1>5, <1>6

\* The four ways in which the runtime's own steps go on, or come back.
LEMMA GotoKeeps ==
    ASSUME IInv, NEW t \in Threads, NEW q, At(t, q), NEW p, Goto(t, p), Still, UNCHANGED throwing,
           q \in {"set", "check", "wait"}, p \in {"check", "check2", "wait", "blocked"},
           p # "check2" => state[Cls(t)] # "none",
           p = "check2" => state[Cls(t)] = "initialized",
           p = "check" => Ready(t, Cls(t))
    PROVE  IInv'
<1>1. StackType /\ FrameType
  BY FramesTyped DEF IInv
<1>2. t \in alive /\ N(t) > 0 /\ TopPc(t) = q /\ Cls(t) = TopC(t)
  BY <1>1, AtTop
<1>3. p \in Pcs
  BY DEF Pcs
<1>4. StackType' /\ Going(t, p) /\ Others(t)
  BY <1>1, <1>2, <1>3, GotoEffect
<1>5. Goes(t, p)
  BY <1>1, <1>2, <1>4, GoesEffect
<1>6. p \notin Begins /\ q \notin Begins /\ q \notin {"halt", "marking"} /\ p \notin {"fatal", "marking"}
  BY DEF Begins
<1> QED
  BY <1>1, <1>2, <1>4, <1>5, <1>6, Settled, AdvanceKeeps

\* Likewise for steps that come back.
LEMMA PopKeeps ==
    ASSUME IInv, NEW t \in Threads, NEW q, At(t, q), Pop(t), Still, UNCHANGED throwing,
           q \in {"set", "check", "check2", "wait"},
           throwing[t] \/ state[Cls(t)] = "initialized" \/ Cls(t) \in list[t]
    PROVE  IInv'
<1>1. StackType /\ FrameType
  BY FramesTyped DEF IInv
<1>2. t \in alive /\ N(t) > 0 /\ TopPc(t) = q /\ Cls(t) = TopC(t)
  BY <1>1, AtTop
<1>3. StackType' /\ Popping(t) /\ Others(t)
  BY <1>1, <1>2, PopEffect
<1>4. Pops(t) /\ ChainInv'
  BY <1>1, <1>2, <1>3, PopsEffect DEF IInv
<1> QED
  BY <1>1, <1>2, <1>3, <1>4, ReturnKeeps DEF Begins

\* What is known of the class at the places of the checks.
LEMMA TopState ==
    ASSUME IInv, NEW t \in Threads, NEW p, At(t, p)
    PROVE  /\ Cls(t) \in Classes /\ state[Cls(t)] \in {"none", "initializing", "initialized"}
           /\ p \in {"check", "wait"} => state[Cls(t)] # "none"
           /\ p = "check2" => state[Cls(t)] = "initialized"
           /\ p = "check" \/ (p = "set" /\ ~throwing[t]) => Ready(t, Cls(t))
<1>1. StackType /\ FrameType
  BY FramesTyped DEF IInv
<1>2. N(t) > 0 /\ OnTop(t, p) /\ TopPc(t) = p /\ Cls(t) = TopC(t)
  BY <1>1, AtTop
<1>3. N(t) \in Ix(t) /\ TopC(t) \in Classes /\ C(t, N(t)) = TopC(t) /\ Pc(t, N(t)) = p
  BY <1>1, <1>2, TopFrame
<1>4. p \in {"check", "wait"} => state[Cls(t)] # "none"
  BY <1>2, <1>3 DEF IInv, StateInv
<1>5. p = "check2" => state[Cls(t)] = "initialized"
  BY <1>2, <1>3 DEF IInv, StateInv
<1>6. p = "check" \/ (p = "set" /\ ~throwing[t]) => Ready(t, Cls(t))
  BY <1>2 DEF IInv, ReadyInv
<1> QED
  BY <1>2, <1>3, <1>4, <1>5, <1>6 DEF IInv, BaseType

\* The second unlocked read: the class cannot be found untouched.
LEMMA CheckInitializedKeeps ==
    ASSUME IInv, NEW t \in Threads, CheckInitialized(t)
    PROVE  IInv'
<1>1. At(t, "check2") /\ state[Cls(t)] = "initialized"
  BY TopState DEF CheckInitialized
<1>2. Pop(t) /\ Still /\ UNCHANGED throwing
  BY <1>1 DEF CheckInitialized, Still
<1> QED
  BY <1>1, <1>2, PopKeeps

\* waitForInitializeToComplete.
LEMMA WaitKeeps ==
    ASSUME IInv, NEW t \in Threads, Wait(t)
    PROVE  IInv'
<1>1. At(t, "wait") /\ state[Cls(t)] # "none" /\ Still /\ UNCHANGED throwing
  BY TopState DEF Wait, Still
<1>2. CASE state[Cls(t)] = "initialized"
  <2>1. Pop(t)
    BY <1>2 DEF Wait
  <2> QED
    BY <1>1, <1>2, <2>1, PopKeeps
<1>3. CASE state[Cls(t)] # "initialized"
  <2>1. Goto(t, "blocked")
    BY <1>3 DEF Wait
  <2> QED
    BY <1>1, <2>1, GotoKeeps
<1> QED
  BY <1>2, <1>3

\* +initialize returns or throws.
LEMMA InitializeEndsKeeps ==
    ASSUME IInv, NEW t \in Threads, InitializeEnds(t)
    PROVE  IInv'
<1>1. StackType /\ FrameType
  BY FramesTyped DEF IInv
<1>2. t \in alive /\ N(t) > 0 /\ TopPc(t) = "initialize"
  BY <1>1, AtTop DEF InitializeEnds
<1>3. Goto(t, "finish") /\ Still
  BY DEF InitializeEnds, Still
<1>4. StackType' /\ Going(t, "finish") /\ Others(t)
  BY <1>1, <1>2, <1>3, GotoEffect DEF Pcs
<1>5. Goes(t, "finish")
  BY <1>1, <1>2, <1>4, GoesEffect
<1>6. throwing' \in [Threads -> BOOLEAN] /\ \A u \in Threads : u # t => throwing'[u] = throwing[u]
  <2>1. PICK b \in {FALSE, MayThrow} : throwing' = [throwing EXCEPT ![t] = @ \/ b]
    BY DEF InitializeEnds
  <2>2. throwing \in [Threads -> BOOLEAN]
    BY DEF IInv, BaseType
  <2>3. (throwing[t] \/ b) \in BOOLEAN
    OBVIOUS
  <2> QED
    BY <2>1, <2>2, <2>3
<1> QED
  BY <1>1, <1>2, <1>3, <1>4, <1>5, <1>6, AdvanceKeeps DEF Begins

\* Nothing moves but the exception.
LEMMA CaughtKeeps ==
    ASSUME IInv, NEW t \in Threads, UNCHANGED stack, Still,
           throwing' = [throwing EXCEPT ![t] = FALSE],
           \A p \in {"check", "set"} : ~OnTop(t, p)
    PROVE  IInv'
<1>1. StackType' /\ \A u : N(u)' = N(u) /\ Ix(u)' = Ix(u)
  BY DEF IInv, StackType, N, Ix
<1>2. \A u, i : C(u, i)' = C(u, i) /\ Pc(u, i)' = Pc(u, i) /\ (Active(u, i)' <=> Active(u, i))
  BY DEF C, Pc, Active
<1>3. \A u : TopC(u)' = TopC(u) /\ \A q : OnTop(u, q)' <=> OnTop(u, q)
  BY DEF TopC, TopPc, C, Pc, N, OnTop
<1>4. KeptByIdle'
  <2>1. \A u \in Threads : \A i \in Ix(u) : u \in alive /\ Pc(u, i) # "fatal"
    BY DEF IInv, FrameInv
  <2>2. Idle
    BY <1>1, <1>2, <1>3, <2>1 DEF Idle
  <2> QED
    BY <2>2, IdleKeeps
<1>5. ChainInv'
  BY <1>1, <1>2 DEF IInv, ChainInv
<1>6. StateInv'
  BY <1>1, <1>2 DEF IInv, StateInv, Still
<1>7. BaseType' /\ \A u \in Threads : u # t => throwing'[u] = throwing[u]
  BY DEF IInv, BaseType, Still
<1>8. ReadyInv'
  <2> SUFFICES ASSUME NEW u \in Threads, OnTop(u, "check")' \/ (OnTop(u, "set")' /\ ~throwing'[u])
               PROVE  Ready(u, TopC(u))'
    BY DEF ReadyInv
  <2>1. u # t /\ (OnTop(u, "check") \/ (OnTop(u, "set") /\ ~throwing[u]))
    BY <1>3, <1>7
  <2>2. Ready(u, TopC(u))
    BY <2>1 DEF IInv, ReadyInv
  <2> QED
    BY <1>3, <2>2 DEF Ready, SuperDone, Still
<1> QED
  BY <1>1, <1>4, <1>5, <1>6, <1>7, <1>8 DEF IInv, KeptByIdle

\* An exception passes.
LEMMA UnwindKeeps ==
    ASSUME IInv, NEW t \in Threads, Unwind(t)
    PROVE  IInv'
<1>1. StackType /\ FrameType
  BY FramesTyped DEF IInv
<1>2. Still
  BY DEF Unwind, Still
<1>3. CASE stack[t] = <<>> /\ throwing' = [throwing EXCEPT ![t] = FALSE] /\ UNCHANGED stack
  <2>1. ~(N(t) > 0)
    BY <1>1, <1>3, FramesTyped
  <2> QED
    BY <1>2, <1>3, <2>1, CaughtKeeps DEF OnTop
<1>4. CASE At(t, "set") /\ Pop(t) /\ UNCHANGED throwing
  <2>1. throwing[t]
    BY DEF Unwind
  <2> QED
    BY <1>2, <1>4, <2>1, PopKeeps
<1>5. CASE At(t, "initialize") /\ throwing' = [throwing EXCEPT ![t] = FALSE] /\ UNCHANGED stack
  <2>1. TopPc(t) = "initialize"
    BY <1>1, <1>5, AtTop
  <2> QED
    BY <1>2, <1>5, <2>1, CaughtKeeps DEF OnTop
<1> QED
  BY <1>3, <1>4, <1>5 DEF Unwind

---------------------------------------------------------------------------
\* A class is begun.

\* What changes for the frames when the top frame of t gets its class to finish.
LEMMA EnlistFrames ==
    ASSUME IInv, FrameType, NEW t \in Threads, t \in alive, N(t) > 0, NEW p \in Begins, Goes(t, p),
           TopPc(t) \in {"set", "check"}, TopC(t) \notin list[t],
           UNCHANGED alive, list' = [list EXCEPT ![t] = @ \cup {TopC(t)}]
    PROVE  /\ FrameInv'
           /\ \A u \in Threads : \A i \in Ix(u) :
                /\ C(u, i)' = C(u, i)
                /\ Active(u, i) => Active(u, i)'
                /\ Active(u, i)' => Active(u, i) \/ (u = t /\ C(u, i) = TopC(t))
                /\ Pc(u, i)' \notin Begins => Pc(u, i)' = Pc(u, i)
           /\ \E i \in Ix(t) : Active(t, i)' /\ C(t, i) = TopC(t)
<1>1. N(t) \in Ix(t) /\ TopC(t) \in Classes /\ C(t, N(t)) = TopC(t) /\ Pc(t, N(t)) = TopPc(t)
  BY TopFrame
<1>2. \A u \in Threads : \A i \in Ix(u) :
         C(u, i)' = C(u, i) /\ Pc(u, i)' = IF u = t /\ i = N(t) THEN p ELSE Pc(u, i)
  BY DEF Goes
<1>3. ASSUME NEW u \in Threads, NEW i \in Ix(u)
      PROVE  /\ Active(u, i) => Active(u, i)'
             /\ Active(u, i)' => Active(u, i) \/ (u = t /\ i = N(t))
             /\ Pc(u, i)' \notin Begins => Pc(u, i)' = Pc(u, i)
             /\ u = t /\ i = N(t) => Active(u, i)'
  BY <1>2 DEF Active
<1>4. ~Active(t, N(t))
  BY <1>1 DEF Active, Begins
<1>5. list \in [Threads -> SUBSET Classes]
  BY DEF IInv, BaseType
<1>6. list'[t] = list[t] \cup {TopC(t)} /\ \A u \in Threads : u # t => list'[u] = list[u]
  BY <1>5
<1>7. FrameInv'
  <2> SUFFICES ASSUME NEW u \in Threads, NEW i \in Ix(u)
               PROVE  /\ u \in alive /\ Pc(u, i)' # "fatal"
                      /\ Active(u, i)' => C(u, i) \in list'[u]
                      /\ \A j \in Ix(u) :
                           Active(u, i)' /\ Active(u, j)' /\ C(u, j) = C(u, i) => j = i
    BY <1>2 DEF FrameInv, Goes
  <2>1. u \in alive /\ Pc(u, i)' # "fatal"
    BY <1>2 DEF IInv, FrameInv, Begins
  <2>2. Active(u, i)' => C(u, i) \in list'[u]
    BY <1>1, <1>3, <1>6 DEF IInv, FrameInv
  <2>3. ASSUME NEW j \in Ix(u), Active(u, i)', Active(u, j)', C(u, j) = C(u, i)
        PROVE  j = i
    <3>1. CASE Active(u, i) /\ Active(u, j)
      BY <2>3, <3>1 DEF IInv, FrameInv
    <3>2. CASE u = t /\ i = N(t) /\ Active(u, j)
      BY <1>1, <2>3, <3>2 DEF IInv, FrameInv
    <3>3. CASE u = t /\ j = N(t) /\ Active(u, i)
      BY <1>1, <2>3, <3>3 DEF IInv, FrameInv
    <3> QED
      BY <1>3, <2>3, <3>1, <3>2, <3>3
  <2> QED
    BY <2>1, <2>2, <2>3
<1> QED
  BY <1>1, <1>2, <1>3, <1>7

\* The list of t after the class is put on it.
LEMMA EnlistType ==
    ASSUME IInv, NEW t \in Threads, NEW c \in Classes,
           list' = [list EXCEPT ![t] = @ \cup {c}]
    PROVE  /\ list' \in [Threads -> SUBSET Classes]
           /\ list'[t] = list[t] \cup {c} /\ \A u \in Threads : u # t => list'[u] = list[u]
<1>1. list \in [Threads -> SUBSET Classes]
  BY DEF IInv, BaseType
<1>2. list[t] \cup {c} \in SUBSET Classes
  BY <1>1
<1> QED
  BY <1>1, <1>2

\* The thread that finds the class untouched.
LEMMA BeginKeeps ==
    ASSUME IInv, FrameType, NEW t \in Threads, t \in alive, N(t) > 0, NEW p \in Begins, Goes(t, p),
           StackType', ChainInv', TopPc(t) = "set", lock = "free", ~throwing[t],
           state[TopC(t)] = "none", TopC(t) \notin list[t],
           state' = [state EXCEPT ![TopC(t)] = "initializing"],
           list' = [list EXCEPT ![t] = @ \cup {TopC(t)}],
           UNCHANGED <<pending, lock, work, throwing, alive>>
    PROVE  IInv'
<1> DEFINE c == TopC(t)
<1>1. OnTop(t, "set") /\ c \in Classes
  BY TopFrame DEF OnTop
<1>2. Ready(t, c)
  BY <1>1 DEF IInv, ReadyInv
<1>3. /\ \A u \in Threads : \A i \in Ix(u) :
           /\ C(u, i)' = C(u, i)
           /\ Active(u, i) => Active(u, i)'
           /\ Active(u, i)' => Active(u, i) \/ (u = t /\ C(u, i) = c)
           /\ Pc(u, i)' \notin Begins => Pc(u, i)' = Pc(u, i)
      /\ \E i \in Ix(t) : Active(t, i)' /\ C(t, i) = c
      /\ FrameInv'
  BY EnlistFrames
<1>4. /\ list' \in [Threads -> SUBSET Classes]
      /\ list'[t] = list[t] \cup {c} /\ \A u \in Threads : u # t => list'[u] = list[u]
  BY <1>1, EnlistType
<1>5. /\ \A u \in Threads : Ix(u)' = Ix(u) /\ (N(u) > 0 => TopC(u)' = TopC(u))
      /\ \A u \in Threads : \A q : OnTop(u, q)' <=> IF u = t THEN q = p ELSE OnTop(u, q)
  BY DEF Goes
<1>6. state \in [Classes -> {"none", "initializing", "initialized"}]
  BY DEF IInv, BaseType
<1> HIDE DEF c
<1>7. /\ state' \in [Classes -> {"none", "initializing", "initialized"}]
      /\ state'[c] = "initializing" /\ \A d \in Classes : d # c => state'[d] = state[d]
  BY <1>1, <1>6 DEF c
<1>8. state[c] = "none"
  BY DEF c
<1>9. BaseType'
  BY <1>4, <1>7 DEF IInv, BaseType
<1>10. \A u \in Threads : c \notin list[u]
  BY <1>8 DEF IInv, ListInv
<1>11. /\ Super[c] # c
       /\ SuperDone(c) \/ (state[Super[c]] = "initializing" /\ Super[c] \in list[t])
       /\ SuperDone(c) => Super[c] = NoClass \/ (Super[c] \in Classes /\ state[Super[c]] = "initialized")
  <2>1. Super[c] = NoClass \/ Super[c] \in Classes
    BY <1>1, ClassesAssumption
  <2>2. CASE SuperDone(c)
    BY <1>1, <1>8, <2>1, <2>2, ClassesAssumption DEF SuperDone
  <2>3. CASE Super[c] \in list[t]
    <3>1. state[Super[c]] = "initializing"
      BY <2>3 DEF IInv, ListInv
    <3> QED
      BY <1>8, <2>1, <2>3, <3>1, <1>10 DEF SuperDone
  <2> QED
    BY <1>2, <2>2, <2>3 DEF Ready
<1>12. \A d \in Classes : SuperDone(d) => SuperDone(d)'
  <2>1. TAKE d \in Classes
  <2>2. Super[d] = NoClass \/ Super[d] \in Classes
    BY <2>1, ClassesAssumption
  <2> QED
    BY <1>7, <1>8, <2>2 DEF SuperDone
<1>13. StateInv'
  <2>1. \A d \in Classes : state'[d] # "none" => Super[d] # d
    BY <1>7, <1>11 DEF IInv, StateInv
  <2>2. ASSUME NEW u \in Threads, NEW i \in Ix(u)
        PROVE  /\ Pc(u, i)' \in {"check", "wait", "blocked"} => state'[C(u, i)'] # "none"
               /\ Pc(u, i)' = "check2" => state'[C(u, i)'] = "initialized"
    <3>1. C(u, i)' = C(u, i) /\ C(u, i) \in Classes
      BY <1>3 DEF FrameType
    <3>2. Pc(u, i)' \in {"check", "wait", "blocked", "check2"} => Pc(u, i)' = Pc(u, i)
      BY <1>3 DEF Begins
    <3>3. /\ Pc(u, i) \in {"check", "wait", "blocked"} => state[C(u, i)] # "none"
          /\ Pc(u, i) = "check2" => state[C(u, i)] = "initialized"
      BY DEF IInv, StateInv
    <3> QED
      BY <1>7, <1>8, <3>1, <3>2, <3>3
  <2> QED
    BY <1>5, <2>1, <2>2 DEF StateInv
<1>14. ListInv'
  <2> SUFFICES ASSUME NEW u \in Threads, NEW d \in list'[u]
               PROVE  state'[d] # "none" /\ (u \in alive => state'[d] = "initializing" /\ Kept(u, d)')
    BY DEF ListInv
  <2>1. CASE d = c
    <3>1. u = t /\ Kept(u, d)'
      BY <1>3, <1>4, <1>5, <1>10, <2>1 DEF Kept
    <3> QED
      BY <1>7, <2>1, <3>1
  <2>2. CASE d # c
    <3>1. d \in list[u] /\ d \in Classes
      BY <1>4, <2>2
    <3>2. state[d] # "none" /\ (u \in alive => state[d] = "initializing" /\ Kept(u, d))
      BY <3>1 DEF IInv, ListInv
    <3>3. Kept(u, d) => Kept(u, d)'
      BY <1>3, <1>5 DEF Kept
    <3> QED
      BY <1>7, <2>2, <3>1, <3>2, <3>3
  <2> QED
    BY <2>1, <2>2
<1>15. ReadyInv'
  <2> SUFFICES ASSUME NEW u \in Threads, OnTop(u, "check")' \/ (OnTop(u, "set")' /\ ~throwing'[u])
               PROVE  Ready(u, TopC(u))'
    BY DEF ReadyInv
  <2>1. u # t
    BY <1>5 DEF Begins
  <2>2. OnTop(u, "check") \/ (OnTop(u, "set") /\ ~throwing[u])
    BY <1>5, <2>1
  <2>3. N(u) > 0 /\ TopC(u)' = TopC(u)
    BY <1>5, <2>2 DEF OnTop
  <2>4. TopC(u) \in Classes /\ Ready(u, TopC(u))
    BY <2>2, <2>3, TopFrame DEF IInv, ReadyInv
  <2>5. Ready(u, TopC(u)) => SuperDone(TopC(u)) \/ Super[TopC(u)] \in list'[u]
    BY <1>4, <2>1 DEF Ready
  <2>6. ASSUME NEW d \in Classes, d = TopC(u), d = TopC(u)'
        PROVE  Ready(u, TopC(u))'
    <3>1. SuperDone(d)' \/ Super[d] \in list'[u]
      BY <1>12, <2>4, <2>5, <2>6
    <3> QED
      BY <2>6, <3>1 DEF Ready, SuperDone
  <2> QED
    BY <2>3, <2>4, <2>6
<1>16. PendInv'
  <2> SUFFICES ASSUME NEW s \in Classes, NEW d \in pending[s]
               PROVE  /\ s = Super[d] /\ state'[d] = "initializing" /\ state'[s] = "initializing"
                      /\ \A u \in alive : OnTop(u, "halt")' \/ (d \in list'[u] <=> s \in list'[u])
                      /\ \A u \in Threads : \A i \in Ix(u) : Active(u, i)' => C(u, i)' # d
                      /\ \/ s \notin Trivial \/ s \in work
                         \/ Super[s] # NoClass /\ s \in pending[Super[s]]
    BY <1>5 DEF PendInv
  <2>1. /\ s = Super[d] /\ state[d] = "initializing" /\ state[s] = "initializing"
        /\ \A u \in alive : OnTop(u, "halt") \/ (d \in list[u] <=> s \in list[u])
        /\ \A u \in Threads : \A i \in Ix(u) : Active(u, i) => C(u, i) # d
        /\ \/ s \notin Trivial \/ s \in work
           \/ Super[s] # NoClass /\ s \in pending[Super[s]]
    BY DEF IInv, PendInv
  <2>2. d \in Classes /\ d # c /\ s # c
    BY <1>8, <2>1 DEF IInv, BaseType
  <2>3. ~OnTop(t, "halt")
    BY DEF OnTop
  <2>4. \A u \in alive : OnTop(u, "halt")' \/ (d \in list'[u] <=> s \in list'[u])
    <3>1. TAKE u \in alive
    <3>2. u \in Threads
      BY <3>1 DEF IInv, BaseType
    <3>3. OnTop(u, "halt") \/ (d \in list[u] <=> s \in list[u])
      BY <2>1, <3>1
    <3>4. d \in list'[u] <=> d \in list[u]
      BY <1>4, <2>2, <3>2
    <3>5. s \in list'[u] <=> s \in list[u]
      BY <1>4, <2>2, <3>2
    <3>6. OnTop(u, "halt") => OnTop(u, "halt")'
      BY <1>5, <2>3, <3>2
    <3> QED
      BY <3>3, <3>4, <3>5, <3>6
  <2>5. \A u \in Threads : \A i \in Ix(u) : Active(u, i)' => C(u, i)' # d
    BY <1>3, <2>1, <2>2
  <2>6. state'[d] = "initializing" /\ state'[s] = "initializing"
    BY <1>7, <2>1, <2>2
  <2> QED
    BY <2>1, <2>4, <2>5, <2>6
<1>17. MarkInv'
  <2>1. \A u \in Threads : lock # u
    BY ClassesAssumption
  <2>2. \A u \in Threads : \A i \in Ix(u)' : Pc(u, i)' # "marking"
    BY <1>3, <1>5, <2>1 DEF IInv, MarkInv, Begins
  <2>3. work = {}
    BY DEF IInv, MarkInv
  <2> QED
    BY <2>1, <2>2, <2>3 DEF MarkInv
<1>18. AliveInv'
  BY DEF IInv, AliveInv, Forked
<1>19. ContiguousFromRoot'
  <2> SUFFICES ASSUME NEW d \in Classes, state'[d] # "none", ~SuperDone(d)'
               PROVE  /\ state'[d] = "initializing" /\ state'[Super[d]] = "initializing"
                      /\ \A u \in alive' : d \in list'[u] => Super[d] \in list'[u]
    BY DEF ContiguousFromRoot
  <2>1. Super[d] \in Classes /\ ~SuperDone(d)
    BY <1>12, ClassesAssumption DEF SuperDone
  <2>2. \A u \in alive' : u \in Threads
    BY <1>9 DEF BaseType
  <2>3. CASE d = c
    BY <1>4, <1>7, <1>10, <1>11, <2>1, <2>2, <2>3
  <2>4. CASE d # c
    <3>1. /\ state[d] = "initializing" /\ state[Super[d]] = "initializing"
          /\ \A u \in alive : d \in list[u] => Super[d] \in list[u]
      BY <1>7, <2>1, <2>4 DEF IInv, ContiguousFromRoot
    <3>2. Super[d] # c
      BY <1>8, <3>1
    <3>3. \A u \in alive' : d \in list'[u] => Super[d] \in list'[u]
      BY <1>4, <2>2, <2>4, <3>1
    <3> QED
      BY <1>7, <2>1, <2>4, <3>1, <3>2, <3>3
  <2> QED
    BY <2>3, <2>4
<1>20. OneInitializer'
  <2> SUFFICES ASSUME ~Forked, NEW d \in Classes
               PROVE  /\ \A u, v \in Threads : d \in list'[u] /\ d \in list'[v] => u = v
                      /\ state'[d] = "initializing" <=> \E u \in Threads : d \in list'[u]
    BY DEF OneInitializer, Forked
  <2>1. CASE d = c
    BY <1>4, <1>7, <1>10, <2>1
  <2>2. CASE d # c
    <3>1. /\ \A u, v \in Threads : d \in list[u] /\ d \in list[v] => u = v
          /\ state[d] = "initializing" <=> \E u \in Threads : d \in list[u]
      BY DEF IInv, OneInitializer
    <3>2. \A u \in Threads : d \in list'[u] <=> d \in list[u]
      BY <1>4, <2>2
    <3> QED
      BY <1>7, <2>2, <3>1, <3>2
  <2> QED
    BY <2>1, <2>2
<1> QED
  BY <1>3, <1>9, <1>13, <1>14, <1>15, <1>16, <1>17, <1>18, <1>19, <1>20 DEF IInv

\* In the child of a fork the thread takes over what another one had begun:
\* a class with a trivial +initialize; at any other it stops.
LEMMA TakeOverKeeps ==
    ASSUME IInv, FrameType, NEW t \in Threads, t \in alive, N(t) > 0, NEW p \in Begins, Goes(t, p),
           StackType', ChainInv', TopPc(t) = "check", Forked,
           p = "halt" \/ TopC(t) \in Trivial,
           state[TopC(t)] = "initializing", TopC(t) \notin list[t],
           list' = [list EXCEPT ![t] = @ \cup {TopC(t)}],
           UNCHANGED <<state, pending, lock, work, throwing, alive>>
    PROVE  IInv'
<1> DEFINE c == TopC(t)
<1>1. OnTop(t, "check") /\ c \in Classes
  BY TopFrame DEF OnTop
<1>2. SuperDone(c) \/ Super[c] \in list[t]
  BY <1>1 DEF IInv, ReadyInv, Ready
<1>3. /\ \A u \in Threads : \A i \in Ix(u) :
           /\ C(u, i)' = C(u, i)
           /\ Active(u, i) => Active(u, i)'
           /\ Active(u, i)' => Active(u, i) \/ (u = t /\ C(u, i) = c)
           /\ Pc(u, i)' \notin Begins => Pc(u, i)' = Pc(u, i)
      /\ \E i \in Ix(t) : Active(t, i)' /\ C(t, i) = c
      /\ FrameInv'
  BY EnlistFrames
<1>4. /\ list' \in [Threads -> SUBSET Classes]
      /\ list'[t] = list[t] \cup {c} /\ \A u \in Threads : u # t => list'[u] = list[u]
  BY <1>1, EnlistType
<1>5. /\ \A u \in Threads : Ix(u)' = Ix(u) /\ (N(u) > 0 => TopC(u)' = TopC(u))
      /\ \A u \in Threads : \A q : OnTop(u, q)' <=> IF u = t THEN q = p ELSE OnTop(u, q)
  BY DEF Goes
<1> HIDE DEF c
<1>6. state[c] = "initializing" /\ c \notin list[t] /\ (p = "halt" \/ c \in Trivial)
  BY DEF c
<1>7. \A u \in alive : u = t
  BY DEF IInv, AliveInv
<1>8. lock = "free" /\ work = {}
  <2>1. ASSUME NEW u \in Threads, lock = u
        PROVE  FALSE
    <3>1. OnTop(u, "marking")
      BY <2>1 DEF IInv, MarkInv
    <3>2. N(u) \in Ix(u)
      BY <3>1, TopFrame DEF OnTop
    <3>3. u = t
      BY <1>7, <3>2 DEF IInv, FrameInv
    <3> QED
      BY <1>1, <3>1, <3>3 DEF OnTop
  <2> QED
    BY <2>1 DEF IInv, BaseType, MarkInv
<1>9. ASSUME NEW s \in Classes, c \in pending[s]
      PROVE  FALSE
  <2>1. s = Super[c] /\ state[s] = "initializing" /\ (OnTop(t, "halt") \/ (c \in list[t] <=> s \in list[t]))
    BY <1>9 DEF IInv, PendInv
  <2>2. s \in list[t]
    BY <1>2, <2>1, ClassesAssumption DEF SuperDone
  <2> QED
    BY <1>1, <1>6, <2>1, <2>2 DEF OnTop
<1>10. BaseType'
  BY <1>4 DEF IInv, BaseType
<1>11. StateInv'
  <2>1. ASSUME NEW u \in Threads, NEW i \in Ix(u)
        PROVE  /\ Pc(u, i)' \in {"check", "wait", "blocked"} => state[C(u, i)'] # "none"
               /\ Pc(u, i)' = "check2" => state[C(u, i)'] = "initialized"
    <3>1. Pc(u, i)' \in {"check", "wait", "blocked", "check2"} => Pc(u, i)' = Pc(u, i)
      BY <1>3 DEF Begins
    <3> QED
      BY <1>3, <3>1 DEF IInv, StateInv
  <2> QED
    BY <1>5, <2>1 DEF IInv, StateInv
<1>12. ListInv'
  <2> SUFFICES ASSUME NEW u \in Threads, NEW d \in list'[u]
               PROVE  state[d] # "none" /\ (u \in alive => state[d] = "initializing" /\ Kept(u, d)')
    BY DEF ListInv
  <2>1. CASE u = t /\ d = c
    BY <1>3, <1>5, <1>6, <2>1 DEF Kept
  <2>2. CASE ~(u = t /\ d = c)
    <3>1. d \in list[u]
      BY <1>4, <2>2
    <3>2. Kept(u, d) => Kept(u, d)'
      BY <1>3, <1>5 DEF Kept
    <3> QED
      BY <3>1, <3>2 DEF IInv, ListInv
  <2> QED
    BY <2>1, <2>2
<1>13. ReadyInv'
  <2> SUFFICES ASSUME NEW u \in Threads, OnTop(u, "check")' \/ (OnTop(u, "set")' /\ ~throwing'[u])
               PROVE  Ready(u, TopC(u))'
    BY DEF ReadyInv
  <2>1. u # t
    BY <1>5 DEF Begins
  <2>2. OnTop(u, "check") \/ OnTop(u, "set")
    BY <1>5, <2>1
  <2>3. N(u) \in Ix(u)
    BY <2>2, TopFrame DEF OnTop
  <2> QED
    BY <1>7, <2>1, <2>3 DEF IInv, FrameInv
<1>14. PendInv'
  <2> SUFFICES ASSUME NEW s \in Classes, NEW d \in pending[s]
               PROVE  /\ s = Super[d] /\ state[d] = "initializing" /\ state[s] = "initializing"
                      /\ \A u \in alive : OnTop(u, "halt")' \/ (d \in list'[u] <=> s \in list'[u])
                      /\ \A u \in Threads : \A i \in Ix(u) : Active(u, i)' => C(u, i) # d
                      /\ \/ s \notin Trivial \/ s \in work
                         \/ Super[s] # NoClass /\ s \in pending[Super[s]]
    BY <1>3, <1>5 DEF PendInv
  <2>1. /\ s = Super[d] /\ state[d] = "initializing" /\ state[s] = "initializing"
        /\ \A u \in alive : OnTop(u, "halt") \/ (d \in list[u] <=> s \in list[u])
        /\ \A u \in Threads : \A i \in Ix(u) : Active(u, i) => C(u, i) # d
        /\ \/ s \notin Trivial \/ s \in work
           \/ Super[s] # NoClass /\ s \in pending[Super[s]]
    BY DEF IInv, PendInv
  <2>2. d # c
    BY <1>9
  <2>3. p = "halt" \/ s # c
    <3>1. s \notin Trivial \/ (Super[s] \in Classes /\ s \in pending[Super[s]])
      BY <1>8, <2>1, ClassesAssumption
    <3> QED
      BY <1>6, <1>9, <3>1
  <2>4. \A u \in alive : OnTop(u, "halt")' \/ (d \in list'[u] <=> s \in list'[u])
    <3>1. ~OnTop(t, "halt")
      BY DEF OnTop
    <3>2. d \in list[t] <=> s \in list[t]
      BY <2>1, <3>1
    <3>3. CASE p = "halt"
      BY <1>5, <1>7, <3>3
    <3>4. CASE s # c
      BY <1>4, <1>7, <2>2, <3>2, <3>4
    <3> QED
      BY <2>3, <3>3, <3>4
  <2>5. \A u \in Threads : \A i \in Ix(u) : Active(u, i)' => C(u, i) # d
    BY <1>3, <2>1, <2>2
  <2> QED
    BY <2>1, <2>4, <2>5
<1>15. MarkInv'
  <2>1. \A u \in Threads : lock # u
    BY <1>8, ClassesAssumption
  <2>2. \A u \in Threads : \A i \in Ix(u)' : Pc(u, i)' # "marking"
    BY <1>3, <1>5, <2>1 DEF IInv, MarkInv, Begins
  <2> QED
    BY <1>8, <2>1, <2>2 DEF MarkInv
<1>16. AliveInv' /\ OneInitializer'
  BY DEF IInv, AliveInv, OneInitializer, Forked
<1>17. ContiguousFromRoot'
  <2> SUFFICES ASSUME NEW d \in Classes, state[d] # "none", ~SuperDone(d)
               PROVE  /\ state[d] = "initializing" /\ state[Super[d]] = "initializing"
                      /\ \A u \in alive : d \in list'[u] => Super[d] \in list'[u]
    BY DEF ContiguousFromRoot, SuperDone
  <2>1. /\ state[d] = "initializing" /\ state[Super[d]] = "initializing"
        /\ \A u \in alive : d \in list[u] => Super[d] \in list[u]
    BY DEF IInv, ContiguousFromRoot
  <2>2. ASSUME NEW u \in alive, d \in list'[u]
        PROVE  Super[d] \in list'[u]
    <3>1. u = t /\ t \in alive
      BY <1>7
    <3> QED
      BY <1>2, <1>4, <2>1, <2>2, <3>1
  <2> QED
    BY <2>1, <2>2
<1> QED
  BY <1>3, <1>10, <1>11, <1>12, <1>13, <1>14, <1>15, <1>16, <1>17 DEF IInv

\* The section under classInitLock.
LEMMA TestAndSetKeeps ==
    ASSUME IInv, NEW t \in Threads, TestAndSet(t)
    PROVE  IInv'
<1>1. StackType /\ FrameType /\ ChainInv
  BY FramesTyped DEF IInv
<1>2. At(t, "set") /\ lock = "free" /\ ~throwing[t]
      /\ UNCHANGED <<pending, lock, work, throwing, alive>>
  BY DEF TestAndSet
<1>3. t \in alive /\ N(t) > 0 /\ TopPc(t) = "set" /\ Cls(t) = TopC(t)
  BY <1>1, <1>2, AtTop
<1>4. CASE state[Cls(t)] = "none"
  <2>1. Cls(t) \notin list[t]
    BY <1>4 DEF IInv, ListInv
  <2> DEFINE p == Begun(Cls(t))
  <2>2. p \in Begins
    BY DEF Begun, Begins
  <2>3. Goto(t, p)
    BY <1>4, <2>1 DEF TestAndSet, Enlisted
  <2>4. /\ state' = [state EXCEPT ![TopC(t)] = "initializing"]
        /\ list' = [list EXCEPT ![t] = @ \cup {TopC(t)}]
    BY <1>3, <1>4 DEF TestAndSet, Enlist
  <2> HIDE DEF p
  <2>5. p \in Pcs
    BY <2>2 DEF Begins, Pcs
  <2>6. StackType' /\ Going(t, p) /\ Others(t)
    BY <1>1, <1>3, <2>3, <2>5, GotoEffect
  <2>7. Goes(t, p) /\ ChainInv'
    BY <1>1, <1>3, <2>6, GoesEffect, GoesChain
  <2> QED
    BY <1>1, <1>2, <1>3, <1>4, <2>1, <2>2, <2>4, <2>6, <2>7, BeginKeeps
<1>5. CASE state[Cls(t)] # "none"
  <2>1. Goto(t, "check") /\ Still
    BY <1>5 DEF TestAndSet, Still
  <2>2. Ready(t, Cls(t))
    BY <1>2, TopState
  <2> QED
    BY <1>2, <1>5, <2>1, <2>2, GotoKeeps
<1> QED
  BY <1>4, <1>5

\* The first unlocked read.
LEMMA CheckInitializingKeeps ==
    ASSUME IInv, NEW t \in Threads, CheckInitializing(t)
    PROVE  IInv'
<1>1. At(t, "check") /\ UNCHANGED <<state, pending, lock, work, throwing, alive>>
  BY DEF CheckInitializing
<1>2. state[Cls(t)] # "none" /\ state[Cls(t)] \in {"none", "initializing", "initialized"}
  BY <1>1, TopState
<1>3. CASE state[Cls(t)] # "initializing"
  <2>1. Goto(t, "check2") /\ Still
    BY <1>3 DEF CheckInitializing, Still
  <2> QED
    BY <1>1, <1>2, <1>3, <2>1, GotoKeeps
<1>4. CASE state[Cls(t)] = "initializing" /\ Cls(t) \in list[t]
  <2>1. Pop(t) /\ Still
    BY <1>4 DEF CheckInitializing, Still
  <2> QED
    BY <1>1, <1>4, <2>1, PopKeeps
<1>5. CASE state[Cls(t)] = "initializing" /\ Cls(t) \notin list[t] /\ ~Forked
  <2>1. Goto(t, "wait") /\ Still
    BY <1>5 DEF CheckInitializing, Still
  <2> QED
    BY <1>1, <1>2, <2>1, GotoKeeps
<1>6. CASE state[Cls(t)] = "initializing" /\ Cls(t) \notin list[t] /\ Forked
  <2>1. StackType /\ FrameType /\ ChainInv
    BY FramesTyped DEF IInv
  <2>2. t \in alive /\ N(t) > 0 /\ TopPc(t) = "check" /\ Cls(t) = TopC(t)
    BY <1>1, <2>1, AtTop
  <2> DEFINE p == Begun(Cls(t))
  <2>3. p \in Begins /\ (p = "halt" \/ TopC(t) \in Trivial)
    BY <1>6, <2>2 DEF Begun, Begins
  <2>4. Goto(t, p)
    BY <1>6 DEF CheckInitializing
  <2>5. list' = [list EXCEPT ![t] = @ \cup {TopC(t)}]
    BY <1>6, <2>2 DEF CheckInitializing, Enlist
  <2> HIDE DEF p
  <2>6. p \in Pcs
    BY <2>3 DEF Begins, Pcs
  <2>7. StackType' /\ Going(t, p) /\ Others(t)
    BY <2>1, <2>2, <2>4, <2>6, GotoEffect
  <2>8. Goes(t, p) /\ ChainInv'
    BY <2>1, <2>2, <2>7, GoesEffect, GoesChain
  <2> QED
    BY <1>1, <1>6, <2>1, <2>2, <2>3, <2>5, <2>7, <2>8, TakeOverKeeps
<1> QED
  BY <1>3, <1>4, <1>5, <1>6

---------------------------------------------------------------------------
\* A class is finished.

\* The superclass is done: the lock is kept, and the marking begins.
LEMMA StartMarkingKeeps ==
    ASSUME IInv, FrameType, NEW t \in Threads, t \in alive, N(t) > 0, Goes(t, "marking"),
           StackType', ChainInv', TopPc(t) = "finish", lock = "free", SuperDone(TopC(t)),
           lock' = t, work' = {TopC(t)}, UNCHANGED <<state, list, pending, throwing, alive>>
    PROVE  IInv'
<1> DEFINE c == TopC(t)
<1>1. N(t) \in Ix(t) /\ c \in Classes /\ C(t, N(t)) = c /\ Pc(t, N(t)) = "finish"
  BY TopFrame
<1>2. /\ \A u \in Threads : Ix(u)' = Ix(u) /\ (N(u) > 0 => TopC(u)' = TopC(u))
      /\ \A u \in Threads : \A i \in Ix(u) :
           /\ C(u, i)' = C(u, i)
           /\ Pc(u, i)' = IF u = t /\ i = N(t) THEN "marking" ELSE Pc(u, i)
      /\ \A u \in Threads : \A q : OnTop(u, q)' <=> IF u = t THEN q = "marking" ELSE OnTop(u, q)
  BY DEF Goes
<1> HIDE DEF c
<1>3. SuperDone(c) /\ work' = {c}
  BY DEF c
<1>4. Active(t, N(t)) /\ c \in list[t]
  BY <1>1 DEF Active, Begins, IInv, FrameInv
<1>5. \A u \in Threads : \A i \in Ix(u) : Active(u, i)' <=> Active(u, i) /\ ~(u = t /\ i = N(t))
  BY <1>2 DEF Active, Begins
<1>6. \A u \in Threads : lock # u
  BY ClassesAssumption
<1>7. work = {}
  BY DEF IInv, MarkInv
<1>8. \A i \in Ix(t) : Active(t, i)' => C(t, i)' # c
  <2>1. \A i \in Ix(t) : Active(t, i) /\ C(t, i) = C(t, N(t)) => i = N(t)
    BY <1>1, <1>4 DEF IInv, FrameInv
  <2> QED
    BY <1>1, <1>2, <1>5, <2>1
<1>9. BaseType'
  BY <1>1, <1>3 DEF IInv, BaseType
<1>10. FrameInv'
  <2> SUFFICES ASSUME NEW u \in Threads, NEW i \in Ix(u)
               PROVE  /\ u \in alive /\ Pc(u, i)' # "fatal"
                      /\ Active(u, i)' => C(u, i) \in list[u]
                      /\ \A j \in Ix(u) :
                           Active(u, i)' /\ Active(u, j)' /\ C(u, j) = C(u, i) => j = i
    BY <1>2 DEF FrameInv
  <2> QED
    BY <1>2, <1>5 DEF IInv, FrameInv
<1>11. StateInv'
  BY <1>2 DEF IInv, StateInv
<1>12. ListInv'
  <2> SUFFICES ASSUME NEW u \in Threads, NEW d \in list[u]
               PROVE  state[d] # "none" /\ (u \in alive => state[d] = "initializing" /\ Kept(u, d)')
    BY DEF ListInv
  <2>1. state[d] # "none" /\ (u \in alive => state[d] = "initializing" /\ Kept(u, d))
    BY DEF IInv, ListInv
  <2>2. Kept(u, d) => Kept(u, d)'
    <3>1. CASE \E i \in Ix(u) : Active(u, i) /\ C(u, i) = d
      <4>1. PICK i \in Ix(u) : Active(u, i) /\ C(u, i) = d
        BY <3>1
      <4>2. CASE u = t /\ i = N(t)
        BY <1>1, <1>3, <4>1, <4>2 DEF Kept
      <4>3. CASE ~(u = t /\ i = N(t))
        BY <1>2, <1>5, <4>1, <4>3 DEF Kept
      <4> QED
        BY <4>2, <4>3
    <3>2. CASE Super[d] # NoClass /\ d \in pending[Super[d]]
      BY <3>2 DEF Kept
    <3> QED
      BY <1>6, <3>1, <3>2 DEF Kept
  <2> QED
    BY <2>1, <2>2
<1>13. ReadyInv'
  <2> SUFFICES ASSUME NEW u \in Threads, OnTop(u, "check")' \/ (OnTop(u, "set")' /\ ~throwing'[u])
               PROVE  Ready(u, TopC(u))'
    BY DEF ReadyInv
  <2>1. (OnTop(u, "check") \/ (OnTop(u, "set") /\ ~throwing[u])) /\ TopC(u)' = TopC(u)
    BY <1>2 DEF OnTop
  <2> QED
    BY <2>1 DEF IInv, ReadyInv, Ready, SuperDone
<1>14. PendInv'
  <2> SUFFICES ASSUME NEW s \in Classes, NEW d \in pending[s]
               PROVE  /\ s = Super[d] /\ state[d] = "initializing" /\ state[s] = "initializing"
                      /\ \A u \in alive : OnTop(u, "halt")' \/ (d \in list[u] <=> s \in list[u])
                      /\ \A u \in Threads : \A i \in Ix(u) : Active(u, i)' => C(u, i) # d
                      /\ \/ s \notin Trivial \/ s \in work'
                         \/ Super[s] # NoClass /\ s \in pending[Super[s]]
    BY <1>2 DEF PendInv
  <2>1. /\ s = Super[d] /\ state[d] = "initializing" /\ state[s] = "initializing"
        /\ \A u \in alive : OnTop(u, "halt") \/ (d \in list[u] <=> s \in list[u])
        /\ \A u \in Threads : \A i \in Ix(u) : Active(u, i) => C(u, i) # d
        /\ \/ s \notin Trivial \/ s \in work
           \/ Super[s] # NoClass /\ s \in pending[Super[s]]
    BY DEF IInv, PendInv
  <2>2. \A u \in alive : u \in Threads /\ (OnTop(u, "halt") => OnTop(u, "halt")')
    BY <1>2 DEF OnTop, IInv, BaseType
  <2> QED
    BY <1>5, <1>7, <2>1, <2>2
<1>15. MarkInv'
  <2>1. ASSUME NEW u \in Threads, lock' = u
        PROVE  /\ OnTop(u, "marking")'
               /\ \A d \in work' : /\ d \in list'[u] /\ SuperDone(d)'
                                   /\ \A i \in Ix(u)' : Active(u, i)' => C(u, i)' # d
    <3>1. u = t /\ OnTop(t, "marking")'
      BY <1>2, <2>1
    <3> QED
      BY <1>2, <1>3, <1>4, <1>8, <3>1 DEF SuperDone
  <2>2. ASSUME NEW u \in Threads, NEW i \in Ix(u)', Pc(u, i)' = "marking"
        PROVE  lock' = u /\ (C(u, i)' \in work' \/ state'[C(u, i)'] = "initialized")
    <3>1. i \in Ix(u) /\ Pc(u, i) # "marking"
      BY <1>2, <1>6 DEF IInv, MarkInv
    <3>2. u = t /\ i = N(t) /\ C(u, i)' = c
      BY <1>1, <1>2, <2>2, <3>1
    <3> QED
      BY <1>3, <3>2
  <2>3. lock' # "free"
    BY ClassesAssumption
  <2> QED
    BY <2>1, <2>2, <2>3 DEF MarkInv
<1>16. AliveInv' /\ ContiguousFromRoot' /\ OneInitializer'
  BY DEF IInv, AliveInv, ContiguousFromRoot, OneInitializer, Forked, SuperDone
<1> QED
  BY <1>9, <1>10, <1>11, <1>12, <1>13, <1>14, <1>15, <1>16 DEF IInv

\* A pop takes the top frame away, and no other.
LEMMA PopFrames ==
    ASSUME NEW t \in Threads, Pops(t)
    PROVE  /\ \A u \in Threads : \A i \in Ix(u)' :
                /\ i \in Ix(u) /\ C(u, i)' = C(u, i) /\ Pc(u, i)' = Pc(u, i)
                /\ Active(u, i)' <=> Active(u, i)
                /\ ~(u = t /\ i = N(t))
           /\ \A u \in Threads : \A i \in Ix(u) : ~(u = t /\ i = N(t)) =>
                i \in Ix(u)' /\ C(u, i)' = C(u, i) /\ (Active(u, i)' <=> Active(u, i))
           /\ \A u \in Threads : u # t => \A q : OnTop(u, q)' <=> OnTop(u, q)
<1>1. /\ Ix(t)' = Ix(t) \ {N(t)}
      /\ \A i \in Ix(t) : i # N(t) => C(t, i)' = C(t, i) /\ Pc(t, i)' = Pc(t, i)
  BY DEF Pops
<1>2. \A u \in Threads : u # t =>
        /\ Ix(u)' = Ix(u) /\ \A q : OnTop(u, q)' <=> OnTop(u, q)
        /\ \A i \in Ix(u) : C(u, i)' = C(u, i) /\ Pc(u, i)' = Pc(u, i)
  BY DEF Pops, Unmoved
<1>3. ASSUME NEW u \in Threads, NEW i \in Ix(u)'
      PROVE  /\ i \in Ix(u) /\ C(u, i)' = C(u, i) /\ Pc(u, i)' = Pc(u, i)
             /\ ~(u = t /\ i = N(t))
  BY <1>1, <1>2
<1>4. ASSUME NEW u \in Threads, NEW i \in Ix(u), ~(u = t /\ i = N(t))
      PROVE  i \in Ix(u)' /\ C(u, i)' = C(u, i) /\ Pc(u, i)' = Pc(u, i)
  BY <1>1, <1>2, <1>4
<1> QED
  BY <1>2, <1>3, <1>4 DEF Active

\* The superclass is not done: the class is left to wait for it.
LEMMA LeavePendingKeeps ==
    ASSUME IInv, FrameType, NEW t \in Threads, t \in alive, N(t) > 0, Pops(t),
           StackType', ChainInv', TopPc(t) = "finish", lock = "free", ~SuperDone(TopC(t)),
           pending' = [pending EXCEPT ![Super[TopC(t)]] = @ \cup {TopC(t)}],
           UNCHANGED <<state, list, lock, work, throwing, alive>>
    PROVE  IInv'
<1> DEFINE c == TopC(t)
           s == Super[c]
<1>1. N(t) \in Ix(t) /\ c \in Classes /\ C(t, N(t)) = c /\ Pc(t, N(t)) = "finish"
  BY TopFrame
<1> HIDE DEF c
<1>2. ~SuperDone(c) /\ s \in Classes
  <2>1. ~SuperDone(c)
    BY DEF c
  <2> QED
    BY <1>1, <2>1, ClassesAssumption DEF SuperDone
<1> HIDE DEF s
<1>3. Active(t, N(t)) /\ c \in list[t]
  BY <1>1 DEF Active, Begins, IInv, FrameInv
<1>4. state[c] = "initializing"
  BY <1>3 DEF IInv, ListInv
<1>5. state[s] = "initializing" /\ s \in list[t] /\ s # c
  BY <1>1, <1>2, <1>3, <1>4 DEF IInv, ContiguousFromRoot, StateInv, s
<1>6. \A u \in Threads : lock # u
  BY ClassesAssumption
<1>7. work = {}
  BY DEF IInv, MarkInv
<1>8. /\ pending' \in [Classes -> SUBSET Classes]
      /\ pending'[s] = pending[s] \cup {c} /\ \A r \in Classes : r # s => pending'[r] = pending[r]
  <2>1. pending \in [Classes -> SUBSET Classes]
    BY DEF IInv, BaseType
  <2>2. pending' = [pending EXCEPT ![s] = @ \cup {c}]
    BY DEF s, c
  <2>3. pending[s] \cup {c} \in SUBSET Classes
    BY <1>1, <1>2, <2>1
  <2> QED
    BY <1>2, <2>1, <2>2, <2>3
<1>9. /\ \A u \in Threads : \A i \in Ix(u)' :
           /\ i \in Ix(u) /\ C(u, i)' = C(u, i) /\ Pc(u, i)' = Pc(u, i)
           /\ Active(u, i)' <=> Active(u, i)
           /\ ~(u = t /\ i = N(t))
      /\ \A u \in Threads : \A i \in Ix(u) : ~(u = t /\ i = N(t)) =>
           i \in Ix(u)' /\ C(u, i)' = C(u, i) /\ (Active(u, i)' <=> Active(u, i))
      /\ \A u \in Threads : u # t => \A q : OnTop(u, q)' <=> OnTop(u, q)
  BY PopFrames
<1>10. ASSUME NEW u \in Threads, u # t, u \in alive
       PROVE  c \notin list[u] /\ s \notin list[u]
  <2>1. ~Forked
    BY <1>10 DEF IInv, AliveInv
  <2> QED
    BY <1>1, <1>2, <1>3, <1>5, <1>10, <2>1 DEF IInv, OneInitializer
<1>11. BaseType'
  BY <1>8 DEF IInv, BaseType
<1>12. FrameInv'
  BY <1>9 DEF IInv, FrameInv
<1>13. StateInv' /\ ReadyInv'
  <2>1. TopC(t) \in list[t]
    BY <1>3 DEF c
  <2> QED
    BY <2>1, PopState, PopReady DEF IInv
<1>14. ListInv'
  <2> SUFFICES ASSUME NEW u \in Threads, NEW d \in list[u]
               PROVE  state[d] # "none" /\ (u \in alive => state[d] = "initializing" /\ Kept(u, d)')
    BY DEF ListInv
  <2>1. state[d] # "none" /\ (u \in alive => state[d] = "initializing" /\ Kept(u, d))
    BY DEF IInv, ListInv
  <2>2. Kept(u, d) => Kept(u, d)'
    <3>1. d \in Classes /\ (Super[d] # NoClass => Super[d] \in Classes)
      BY ClassesAssumption DEF IInv, BaseType
    <3>2. CASE d = c
      BY <1>2, <1>8, <3>1, <3>2, ClassesAssumption DEF Kept, s
    <3>3. CASE d # c /\ \E i \in Ix(u) : Active(u, i) /\ C(u, i) = d
      <4>1. PICK i \in Ix(u) : Active(u, i) /\ C(u, i) = d
        BY <3>3
      <4>2. ~(u = t /\ i = N(t))
        BY <1>1, <3>3, <4>1
      <4> QED
        BY <1>9, <4>1, <4>2 DEF Kept
    <3>4. CASE Super[d] # NoClass /\ d \in pending[Super[d]]
      BY <1>8, <3>1, <3>4 DEF Kept
    <3> QED
      BY <1>6, <3>2, <3>3, <3>4 DEF Kept
  <2> QED
    BY <2>1, <2>2
<1>15. PendInv'
  <2> SUFFICES ASSUME NEW r \in Classes, NEW d \in pending'[r]
               PROVE  /\ r = Super[d] /\ state[d] = "initializing" /\ state[r] = "initializing"
                      /\ \A u \in alive : OnTop(u, "halt")' \/ (d \in list[u] <=> r \in list[u])
                      /\ \A u \in Threads : \A i \in Ix(u)' : Active(u, i)' => C(u, i)' # d
                      /\ \/ r \notin Trivial \/ r \in work
                         \/ Super[r] # NoClass /\ r \in pending'[Super[r]]
    BY DEF PendInv
  <2>1. Super[r] # NoClass /\ r \in pending[Super[r]] => r \in pending'[Super[r]]
    BY <1>8, ClassesAssumption
  <2>2. CASE d \in pending[r]
    <3>1. /\ r = Super[d] /\ state[d] = "initializing" /\ state[r] = "initializing"
          /\ \A u \in alive : OnTop(u, "halt") \/ (d \in list[u] <=> r \in list[u])
          /\ \A u \in Threads : \A i \in Ix(u) : Active(u, i) => C(u, i) # d
          /\ \/ r \notin Trivial \/ r \in work
             \/ Super[r] # NoClass /\ r \in pending[Super[r]]
      BY <2>2 DEF IInv, PendInv
    <3>2. \A u \in alive : u \in Threads /\ (OnTop(u, "halt") => OnTop(u, "halt")')
      BY <1>9 DEF OnTop, IInv, BaseType
    <3> QED
      BY <1>9, <2>1, <3>1, <3>2
  <2>3. CASE d \notin pending[r]
    <3>1. r = s /\ d = c
      BY <1>8, <2>3
    <3>2. \A u \in alive : c \in list[u] <=> s \in list[u]
      BY <1>3, <1>5, <1>10 DEF IInv, BaseType
    <3>3. \A u \in Threads : \A i \in Ix(u)' : Active(u, i)' => C(u, i)' # c
      <4>1. ASSUME NEW u \in Threads, NEW i \in Ix(u)', Active(u, i)', C(u, i)' = c
            PROVE  FALSE
        <5>1. i \in Ix(u) /\ Active(u, i) /\ C(u, i) = c /\ ~(u = t /\ i = N(t))
          BY <1>9, <4>1
        <5>2. u \in alive /\ c \in list[u]
          BY <5>1 DEF IInv, FrameInv
        <5>3. u = t
          BY <1>10, <5>2
        <5> QED
          BY <1>1, <1>3, <5>1, <5>3 DEF IInv, FrameInv
      <4> QED
        BY <4>1
    <3>4. s \notin Trivial \/ (Super[s] # NoClass /\ s \in pending[Super[s]])
      <4>1. Kept(t, s)
        BY <1>5 DEF IInv, ListInv
      <4>2. CASE \E i \in Ix(t) : Active(t, i) /\ C(t, i) = s
        <5>1. PICK i \in Ix(t) : Active(t, i) /\ C(t, i) = s
          BY <4>2
        <5>2. i # N(t)
          BY <1>1, <1>5, <5>1
        <5>3. Pc(t, i) \in {"set", "initialize"} /\ (Pc(t, i) = "initialize" => C(t, i) \notin Trivial)
          BY <5>2, BelowTop DEF IInv
        <5> QED
          BY <5>1, <5>3 DEF Active, Begins
      <4> QED
        BY <1>6, <4>1, <4>2 DEF Kept
    <3> QED
      BY <1>4, <1>5, <2>1, <3>1, <3>2, <3>3, <3>4 DEF s
  <2> QED
    BY <2>2, <2>3
<1>16. MarkInv'
  BY <1>6, <1>7, <1>9 DEF IInv, MarkInv
<1>17. AliveInv' /\ ContiguousFromRoot' /\ OneInitializer'
  BY DEF IInv, AliveInv, ContiguousFromRoot, OneInitializer, Forked, SuperDone
<1> QED
  BY <1>11, <1>12, <1>13, <1>14, <1>15, <1>16, <1>17 DEF IInv

\* lockAndFinishInitializing.
LEMMA FinishKeeps ==
    ASSUME IInv, NEW t \in Threads, Finish(t)
    PROVE  IInv'
<1>1. StackType /\ FrameType /\ ChainInv
  BY FramesTyped DEF IInv
<1>2. At(t, "finish") /\ lock = "free" /\ UNCHANGED <<state, list, throwing, alive>>
  BY DEF Finish
<1>3. t \in alive /\ N(t) > 0 /\ TopPc(t) = "finish" /\ Cls(t) = TopC(t)
  BY <1>1, <1>2, AtTop
<1>4. CASE SuperDone(Cls(t))
  <2>1. Goto(t, "marking") /\ lock' = t /\ work' = {TopC(t)} /\ UNCHANGED pending
    BY <1>3, <1>4 DEF Finish
  <2>2. StackType' /\ Going(t, "marking") /\ Others(t)
    BY <1>1, <1>3, <2>1, GotoEffect DEF Pcs
  <2>3. Goes(t, "marking") /\ ChainInv'
    BY <1>1, <1>3, <2>2, GoesEffect, GoesChain
  <2> QED
    BY <1>1, <1>2, <1>3, <1>4, <2>1, <2>2, <2>3, StartMarkingKeeps
<1>5. CASE ~SuperDone(Cls(t))
  <2>1. /\ Pop(t) /\ UNCHANGED <<lock, work>>
        /\ pending' = [pending EXCEPT ![Super[TopC(t)]] = @ \cup {TopC(t)}]
    BY <1>3, <1>5 DEF Finish
  <2>2. StackType' /\ Popping(t) /\ Others(t)
    BY <1>1, <1>3, <2>1, PopEffect
  <2>3. Pops(t) /\ ChainInv'
    BY <1>1, <1>3, <2>2, PopsEffect
  <2> QED
    BY <1>1, <1>2, <1>3, <1>5, <2>1, <2>2, <2>3, LeavePendingKeeps
<1> QED
  BY <1>4, <1>5

\* Nothing is left to mark.
LEMMA MarkedKeeps ==
    ASSUME IInv, NEW t \in Threads, Marked(t)
    PROVE  IInv'
<1>1. StackType /\ FrameType /\ ChainInv
  BY FramesTyped DEF IInv
<1>2. At(t, "marking") /\ Pop(t) /\ lock' = "free" /\ work = {}
      /\ UNCHANGED <<state, list, pending, work, throwing, alive>>
  BY DEF Marked
<1>3. t \in alive /\ N(t) > 0 /\ TopPc(t) = "marking"
  BY <1>1, <1>2, AtTop
<1>4. StackType' /\ Popping(t) /\ Others(t)
  BY <1>1, <1>2, <1>3, PopEffect
<1>5. Pops(t) /\ ChainInv'
  BY <1>1, <1>3, <1>4, PopsEffect
<1>6. N(t) \in Ix(t) /\ C(t, N(t)) = TopC(t) /\ Pc(t, N(t)) = "marking"
  BY <1>1, <1>3, TopFrame
<1>7. /\ \A u \in Threads : \A i \in Ix(u)' :
           /\ i \in Ix(u) /\ C(u, i)' = C(u, i) /\ Pc(u, i)' = Pc(u, i)
           /\ Active(u, i)' <=> Active(u, i)
           /\ ~(u = t /\ i = N(t))
      /\ \A u \in Threads : \A i \in Ix(u) : ~(u = t /\ i = N(t)) =>
           i \in Ix(u)' /\ C(u, i)' = C(u, i) /\ (Active(u, i)' <=> Active(u, i))
      /\ \A u \in Threads : u # t => \A q : OnTop(u, q)' <=> OnTop(u, q)
  BY <1>5, PopFrames
<1>8. lock = t /\ state[TopC(t)] = "initialized"
  BY <1>2, <1>6 DEF IInv, MarkInv
<1>9. ~Active(t, N(t))
  BY <1>6 DEF Active, Begins
<1>10. BaseType'
  BY <1>2 DEF IInv, BaseType
<1>11. FrameInv'
  BY <1>2, <1>7 DEF IInv, FrameInv
<1>12. StateInv' /\ ReadyInv'
  BY <1>1, <1>2, <1>3, <1>5, <1>8, PopState, PopReady DEF IInv
<1>13. ListInv'
  <2> SUFFICES ASSUME NEW u \in Threads, NEW d \in list[u]
               PROVE  state[d] # "none" /\ (u \in alive => state[d] = "initializing" /\ Kept(u, d)')
    BY <1>2 DEF ListInv
  <2>1. state[d] # "none" /\ (u \in alive => state[d] = "initializing" /\ Kept(u, d))
    BY DEF IInv, ListInv
  <2>2. ASSUME NEW i \in Ix(u), Active(u, i), C(u, i) = d
        PROVE  Kept(u, d)'
    <3>1. ~(u = t /\ i = N(t))
      BY <1>9, <2>2
    <3> QED
      BY <1>7, <2>2, <3>1 DEF Kept
  <2>3. Kept(u, d) => Kept(u, d)'
    BY <1>2, <2>2 DEF Kept
  <2> QED
    BY <2>1, <2>3
<1>14. PendInv'
  <2> SUFFICES ASSUME NEW s \in Classes, NEW d \in pending[s]
               PROVE  /\ s = Super[d] /\ state[d] = "initializing" /\ state[s] = "initializing"
                      /\ \A u \in alive : OnTop(u, "halt")' \/ (d \in list[u] <=> s \in list[u])
                      /\ \A u \in Threads : \A i \in Ix(u)' : Active(u, i)' => C(u, i)' # d
                      /\ \/ s \notin Trivial \/ s \in work
                         \/ Super[s] # NoClass /\ s \in pending[Super[s]]
    BY <1>2 DEF PendInv
  <2>1. /\ s = Super[d] /\ state[d] = "initializing" /\ state[s] = "initializing"
        /\ \A u \in alive : OnTop(u, "halt") \/ (d \in list[u] <=> s \in list[u])
        /\ \A u \in Threads : \A i \in Ix(u) : Active(u, i) => C(u, i) # d
        /\ \/ s \notin Trivial \/ s \in work
           \/ Super[s] # NoClass /\ s \in pending[Super[s]]
    BY DEF IInv, PendInv
  <2>2. \A u \in alive : u \in Threads /\ (OnTop(u, "halt") => OnTop(u, "halt")')
    BY <1>3, <1>7 DEF OnTop, IInv, BaseType
  <2> QED
    BY <1>7, <2>1, <2>2
<1>15. MarkInv'
  <2>1. \A u \in Threads : lock' # u
    BY <1>2, ClassesAssumption
  <2>2. ASSUME NEW u \in Threads, NEW i \in Ix(u)', Pc(u, i)' = "marking"
        PROVE  FALSE
    <3>1. i \in Ix(u) /\ Pc(u, i) = "marking" /\ ~(u = t /\ i = N(t))
      BY <1>7, <2>2
    <3>2. u = t
      BY <1>8, <3>1 DEF IInv, MarkInv
    <3> QED
      BY <1>1, <3>1, <3>2, BelowTop
  <2> QED
    BY <1>2, <2>1, <2>2 DEF MarkInv
<1>16. AliveInv' /\ ContiguousFromRoot' /\ OneInitializer'
  BY <1>2 DEF IInv, AliveInv, ContiguousFromRoot, OneInitializer, Forked, SuperDone
<1> QED
  BY <1>4, <1>5, <1>10, <1>11, <1>12, <1>13, <1>14, <1>15, <1>16 DEF IInv

\* One class is marked; the classes pending on it are next.
LEMMA MarkKeeps ==
    ASSUME IInv, NEW t \in Threads, NEW c \in Classes, Mark(t, c)
    PROVE  IInv'
<1>1. StackType /\ FrameType /\ ChainInv
  BY FramesTyped DEF IInv
<1>2. At(t, "marking") /\ c \in work /\ UNCHANGED <<lock, throwing, alive>>
      /\ work' = (work \ {c}) \cup pending[c]
  BY DEF Mark
<1>3. t \in alive /\ N(t) > 0 /\ TopPc(t) = "marking" /\ OnTop(t, "marking")
  BY <1>1, <1>2, AtTop
<1>4. lock = t
  <2>1. N(t) \in Ix(t) /\ Pc(t, N(t)) = "marking"
    BY <1>1, <1>3, TopFrame
  <2> QED
    BY <2>1 DEF IInv, MarkInv
<1>5. /\ c \in list[t] /\ SuperDone(c)
      /\ \A i \in Ix(t) : Active(t, i) => C(t, i) # c
  BY <1>2, <1>4 DEF IInv, MarkInv
<1>6. StackType' /\ Waking
  BY <1>1, <1>5, NotifyEffect DEF Mark
<1>7. /\ \A u \in Threads : Ix(u)' = Ix(u) /\ N(u)' = N(u)
      /\ \A u \in Threads : \A i \in Ix(u) :
           /\ C(u, i)' = C(u, i)
           /\ Pc(u, i)' = IF i = N(u) /\ Pc(u, i) = "blocked" THEN "wait" ELSE Pc(u, i)
  BY <1>6 DEF Waking, Ix
<1>8. \A u \in Threads : \A i \in Ix(u) : Active(u, i)' <=> Active(u, i)
  BY <1>7 DEF Active, Begins
<1>9. /\ \A u \in Threads : N(u) > 0 => TopC(u)' = TopC(u)
      /\ \A u \in Threads : \A q : q \notin {"wait", "blocked"} => (OnTop(u, q)' <=> OnTop(u, q))
  <2>1. ASSUME NEW u \in Threads, N(u) > 0
        PROVE  /\ TopC(u)' = TopC(u)
               /\ TopPc(u)' = IF TopPc(u) = "blocked" THEN "wait" ELSE TopPc(u)
    <3>1. N(u) \in Ix(u) /\ N(u)' = N(u)
      BY <1>1, <1>7, <2>1, TopFrame
    <3> QED
      BY <1>7, <3>1 DEF TopC, TopPc, C, Pc
  <2>2. \A u \in Threads : N(u)' = N(u)
    BY <1>7
  <2> QED
    BY <2>1, <2>2 DEF OnTop
<1>10. /\ state' \in [Classes -> {"none", "initializing", "initialized"}]
       /\ state'[c] = "initialized" /\ \A d \in Classes : d # c => state'[d] = state[d]
  BY DEF IInv, BaseType, Mark
<1>11. /\ list' \in [Threads -> SUBSET Classes]
       /\ list'[t] = list[t] \ {c} /\ \A u \in Threads : u # t => list'[u] = list[u]
  <2>1. list \in [Threads -> SUBSET Classes] /\ list' = [list EXCEPT ![t] = @ \ {c}]
    BY DEF IInv, BaseType, Mark
  <2>2. list[t] \ {c} \in SUBSET Classes
    BY <2>1
  <2> QED
    BY <2>1, <2>2
<1>12. /\ pending \in [Classes -> SUBSET Classes] /\ pending' \in [Classes -> SUBSET Classes]
       /\ pending'[c] = {} /\ \A s \in Classes : s # c => pending'[s] = pending[s]
  BY DEF IInv, BaseType, Mark
<1>13. work \subseteq Classes /\ (Super[c] = NoClass \/ Super[c] \in Classes)
  BY ClassesAssumption DEF IInv, BaseType
<1>14. BaseType'
  <2>1. work' \subseteq Classes
    BY <1>2, <1>12, <1>13
  <2> QED
    BY <1>2, <1>10, <1>11, <1>12, <2>1 DEF IInv, BaseType
\* The class is not pending itself.
<1>15. \A s \in Classes : c \notin pending[s]
  <2>1. ASSUME NEW s \in Classes, c \in pending[s]
        PROVE  FALSE
    <3>1. s = Super[c] /\ state[s] = "initializing"
      BY <2>1 DEF IInv, PendInv
    <3> QED
      BY <1>5, <3>1, ClassesAssumption DEF SuperDone
  <2> QED
    BY <2>1
<1>16. \A d \in Classes : SuperDone(d) => SuperDone(d)'
  <2>1. TAKE d \in Classes
  <2>2. Super[d] = NoClass \/ Super[d] \in Classes
    BY <2>1, ClassesAssumption
  <2> QED
    BY <1>10, <2>2 DEF SuperDone
<1>17. \A d \in Classes : Super[d] = c => SuperDone(d)'
  BY <1>10 DEF SuperDone
\* No other thread has the class, nor what is pending on it.
<1>18. ASSUME NEW u \in Threads, u # t, u \in alive
       PROVE  \A d \in list[u] : d # c /\ d \notin pending[c]
  <2>1. ~Forked
    BY <1>3, <1>18 DEF IInv, AliveInv
  <2>2. \A d \in list[t] : d \in Classes /\ d \notin list[u]
    BY <1>18, <2>1 DEF IInv, OneInitializer, BaseType
  <2>3. \A d \in pending[c] : d \in list[t]
    BY <1>3, <1>5 DEF IInv, PendInv, OnTop
  <2> QED
    BY <1>5, <2>2, <2>3
<1>19. ChainInv'
  <2> SUFFICES ASSUME NEW u \in Threads, NEW i \in Ix(u)', i < N(u)'
               PROVE  \/ Pc(u, i)' = "set" /\ C(u, i + 1)' = Super[C(u, i)']
                      \/ Pc(u, i)' = "initialize" /\ C(u, i)' \notin Trivial
    BY DEF ChainInv
  <2>1. i \in Ix(u) /\ i < N(u) /\ i # N(u) /\ i + 1 \in Ix(u)
    BY <1>1, <1>7 DEF FrameType, Ix
  <2>2. C(u, i)' = C(u, i) /\ Pc(u, i)' = Pc(u, i) /\ C(u, i + 1)' = C(u, i + 1)
    BY <1>7, <2>1
  <2> QED
    BY <1>1, <2>1, <2>2 DEF ChainInv
<1>20. FrameInv'
  <2> SUFFICES ASSUME NEW u \in Threads, NEW i \in Ix(u)
               PROVE  /\ u \in alive /\ Pc(u, i)' # "fatal"
                      /\ Active(u, i) => C(u, i) \in list'[u]
                      /\ \A j \in Ix(u) :
                           Active(u, i) /\ Active(u, j) /\ C(u, j) = C(u, i) => j = i
    BY <1>2, <1>7, <1>8 DEF FrameInv
  <2>1. /\ u \in alive /\ Pc(u, i) # "fatal"
        /\ Active(u, i) => C(u, i) \in list[u]
        /\ \A j \in Ix(u) : Active(u, i) /\ Active(u, j) /\ C(u, j) = C(u, i) => j = i
    BY DEF IInv, FrameInv
  <2>2. Active(u, i) => C(u, i) \in list'[u]
    BY <1>5, <1>11, <2>1
  <2> QED
    BY <1>7, <2>1, <2>2
<1>21. StateInv'
  <2>1. \A d \in Classes : state'[d] # "none" => Super[d] # d
    <3>1. state[c] # "none"
      BY <1>5 DEF IInv, ListInv
    <3> QED
      BY <1>10, <3>1 DEF IInv, StateInv
  <2>2. ASSUME NEW u \in Threads, NEW i \in Ix(u)
        PROVE  /\ Pc(u, i)' \in {"check", "wait", "blocked"} => state'[C(u, i)] # "none"
               /\ Pc(u, i)' = "check2" => state'[C(u, i)] = "initialized"
    <3>1. C(u, i) \in Classes
      BY <1>1 DEF FrameType
    <3>2. /\ Pc(u, i)' \in {"check", "wait", "blocked"} => Pc(u, i) \in {"check", "wait", "blocked"}
          /\ Pc(u, i)' = "check2" => Pc(u, i) = "check2"
      BY <1>7
    <3>3. /\ Pc(u, i) \in {"check", "wait", "blocked"} => state[C(u, i)] # "none"
          /\ Pc(u, i) = "check2" => state[C(u, i)] = "initialized"
      BY DEF IInv, StateInv
    <3> QED
      BY <1>10, <3>1, <3>2, <3>3
  <2> QED
    BY <1>7, <2>1, <2>2 DEF StateInv
<1>22. ListInv'
  <2> SUFFICES ASSUME NEW u \in Threads, NEW d \in list'[u]
               PROVE  state'[d] # "none" /\ (u \in alive => state'[d] = "initializing" /\ Kept(u, d)')
    BY <1>2 DEF ListInv
  <2>1. d \in list[u] /\ d \in Classes
    BY <1>11
  <2>2. state[d] # "none" /\ (u \in alive => state[d] = "initializing" /\ Kept(u, d))
    BY <2>1 DEF IInv, ListInv
  <2>3. ASSUME u \in alive
        PROVE  d # c /\ Kept(u, d)'
    <3>1. d # c
      BY <1>11, <1>18, <2>1, <2>3
    <3>2. CASE \E i \in Ix(u) : Active(u, i) /\ C(u, i) = d
      <4>1. PICK i \in Ix(u) : Active(u, i) /\ C(u, i) = d
        BY <3>2
      <4>2. i \in Ix(u)' /\ Active(u, i)' /\ C(u, i)' = d
        BY <1>7, <1>8, <4>1
      <4> QED
        BY <3>1, <4>2 DEF Kept
    <3>3. CASE Super[d] # NoClass /\ d \in pending[Super[d]]
      <4>1. CASE Super[d] = c
        <5>1. u = t
          BY <1>18, <2>1, <2>3, <3>3, <4>1
        <5>2. lock' = u /\ d \in work'
          BY <1>2, <1>4, <3>3, <4>1, <5>1
        <5> QED
          BY <3>1, <5>2 DEF Kept
      <4>2. CASE Super[d] # c
        <5>1. Super[d] \in Classes
          BY <2>1, <3>3, ClassesAssumption
        <5>2. d \in pending'[Super[d]]
          BY <1>12, <3>3, <4>2, <5>1
        <5> QED
          BY <3>1, <3>3, <5>2 DEF Kept
      <4> QED
        BY <4>1, <4>2
    <3>4. CASE lock = u /\ d \in work
      BY <1>2, <3>1, <3>4 DEF Kept
    <3> QED
      BY <2>2, <2>3, <3>1, <3>2, <3>3, <3>4 DEF Kept
  <2> QED
    BY <1>10, <2>1, <2>2, <2>3
<1>23. ReadyInv'
  <2> SUFFICES ASSUME NEW u \in Threads, OnTop(u, "check")' \/ (OnTop(u, "set")' /\ ~throwing'[u])
               PROVE  Ready(u, TopC(u))'
    BY DEF ReadyInv
  <2>1. (OnTop(u, "check") \/ (OnTop(u, "set") /\ ~throwing[u])) /\ TopC(u)' = TopC(u)
    BY <1>2, <1>9 DEF OnTop
  <2>2. TopC(u) \in Classes /\ Ready(u, TopC(u))
    BY <1>1, <2>1, TopFrame DEF OnTop, IInv, ReadyInv
  <2>3. SuperDone(TopC(u)) \/ Super[TopC(u)] = c \/ Super[TopC(u)] \in list'[u]
    BY <1>11, <2>2 DEF Ready
  <2>4. ASSUME NEW d \in Classes, d = TopC(u), d = TopC(u)'
        PROVE  Ready(u, TopC(u))'
    <3>1. SuperDone(d)' \/ Super[d] \in list'[u]
      BY <1>16, <1>17, <2>3, <2>4
    <3> QED
      BY <2>4, <3>1 DEF Ready, SuperDone
  <2> QED
    BY <2>1, <2>2, <2>4
<1>24. PendInv'
  <2> SUFFICES ASSUME NEW s \in Classes, NEW d \in pending'[s]
               PROVE  /\ s = Super[d] /\ state'[d] = "initializing" /\ state'[s] = "initializing"
                      /\ \A u \in alive : OnTop(u, "halt")' \/ (d \in list'[u] <=> s \in list'[u])
                      /\ \A u \in Threads : \A i \in Ix(u) : Active(u, i) => C(u, i) # d
                      /\ \/ s \notin Trivial \/ s \in work'
                         \/ Super[s] # NoClass /\ s \in pending'[Super[s]]
    BY <1>2, <1>7, <1>8 DEF PendInv
  <2>1. s # c /\ d \in pending[s] /\ d # c /\ d \in Classes
    BY <1>12, <1>15
  <2>2. /\ s = Super[d] /\ state[d] = "initializing" /\ state[s] = "initializing"
        /\ \A u \in alive : OnTop(u, "halt") \/ (d \in list[u] <=> s \in list[u])
        /\ \A u \in Threads : \A i \in Ix(u) : Active(u, i) => C(u, i) # d
        /\ \/ s \notin Trivial \/ s \in work
           \/ Super[s] # NoClass /\ s \in pending[Super[s]]
    BY <2>1 DEF IInv, PendInv
  <2>3. \A u \in alive : u \in Threads /\ (OnTop(u, "halt") => OnTop(u, "halt")')
    BY <1>9 DEF IInv, BaseType
  <2>4. \A u \in alive : (d \in list'[u] <=> d \in list[u]) /\ (s \in list'[u] <=> s \in list[u])
    BY <1>11, <2>1, <2>3
  <2>5. s \notin Trivial \/ s \in work' \/ (Super[s] # NoClass /\ s \in pending'[Super[s]])
    <3>1. CASE s \in work
      BY <1>2, <2>1, <3>1
    <3>2. CASE Super[s] # NoClass /\ s \in pending[Super[s]]
      <4>1. Super[s] \in Classes
        BY <3>2, ClassesAssumption
      <4> QED
        BY <1>2, <1>12, <3>2, <4>1
    <3> QED
      BY <2>2, <3>1, <3>2
  <2> QED
    BY <1>10, <2>1, <2>2, <2>3, <2>4, <2>5
<1>25. MarkInv'
  <2>1. ASSUME NEW u \in Threads, lock' = u
        PROVE  /\ OnTop(u, "marking")'
               /\ \A d \in work' : /\ d \in list'[u] /\ SuperDone(d)'
                                   /\ \A i \in Ix(u)' : Active(u, i)' => C(u, i)' # d
    <3>1. u = t /\ OnTop(t, "marking")'
      BY <1>2, <1>3, <1>4, <1>9, <2>1
    <3>2. ASSUME NEW d \in work'
          PROVE  /\ d \in list'[t] /\ SuperDone(d)'
                 /\ \A i \in Ix(t) : Active(t, i) => C(t, i) # d
      <4>1. CASE d \in work /\ d # c
        <5>1. /\ d \in list[t] /\ SuperDone(d)
              /\ \A i \in Ix(t) : Active(t, i) => C(t, i) # d
          BY <1>4, <4>1 DEF IInv, MarkInv
        <5> QED
          BY <1>11, <1>13, <1>16, <4>1, <5>1
      <4>2. CASE d \in pending[c]
        <5>1. d \in Classes /\ d # c
          BY <1>12, <1>15, <4>2
        <5>2. /\ c = Super[d] /\ d \in list[t]
              /\ \A i \in Ix(t) : Active(t, i) => C(t, i) # d
          BY <1>3, <1>5, <4>2 DEF IInv, PendInv, OnTop
        <5> QED
          BY <1>11, <1>17, <5>1, <5>2
      <4> QED
        BY <1>2, <4>1, <4>2
    <3> QED
      BY <1>7, <1>8, <3>1, <3>2
  <2>2. ASSUME NEW u \in Threads, NEW i \in Ix(u)', Pc(u, i)' = "marking"
        PROVE  lock' = u /\ (C(u, i)' \in work' \/ state'[C(u, i)'] = "initialized")
    <3>1. i \in Ix(u) /\ Pc(u, i) = "marking" /\ C(u, i)' = C(u, i) /\ C(u, i) \in Classes
      BY <1>1, <1>7, <2>2 DEF FrameType
    <3>2. lock = u /\ (C(u, i) \in work \/ state[C(u, i)] = "initialized")
      BY <3>1 DEF IInv, MarkInv
    <3> QED
      BY <1>2, <1>10, <3>1, <3>2
  <2>3. lock' # "free"
    BY <1>2, <1>4, ClassesAssumption
  <2> QED
    BY <2>1, <2>2, <2>3 DEF MarkInv
<1>26. AliveInv'
  BY <1>2 DEF IInv, AliveInv, Forked
<1>27. ContiguousFromRoot'
  <2> SUFFICES ASSUME NEW d \in Classes, state'[d] # "none", ~SuperDone(d)'
               PROVE  /\ state'[d] = "initializing" /\ state'[Super[d]] = "initializing"
                      /\ \A u \in alive' : d \in list'[u] => Super[d] \in list'[u]
    BY DEF ContiguousFromRoot
  <2>1. Super[d] \in Classes /\ ~SuperDone(d) /\ Super[d] # c /\ d # c
    BY <1>5, <1>16, <1>17, ClassesAssumption DEF SuperDone
  <2>2. /\ state[d] = "initializing" /\ state[Super[d]] = "initializing"
        /\ \A u \in alive : d \in list[u] => Super[d] \in list[u]
    BY <1>10, <2>1 DEF IInv, ContiguousFromRoot
  <2>3. \A u \in alive' : u \in Threads /\ u \in alive
    BY <1>2 DEF IInv, BaseType
  <2> QED
    BY <1>10, <1>11, <2>1, <2>2, <2>3
<1>28. OneInitializer'
  <2> SUFFICES ASSUME ~Forked, NEW d \in Classes
               PROVE  /\ \A u, v \in Threads : d \in list'[u] /\ d \in list'[v] => u = v
                      /\ state'[d] = "initializing" <=> \E u \in Threads : d \in list'[u]
    BY <1>2 DEF OneInitializer, Forked
  <2>1. /\ \A u, v \in Threads : d \in list[u] /\ d \in list[v] => u = v
        /\ state[d] = "initializing" <=> \E u \in Threads : d \in list[u]
    BY DEF IInv, OneInitializer
  <2>2. CASE d = c
    BY <1>5, <1>10, <1>11, <2>1, <2>2
  <2>3. CASE d # c
    <3>1. \A u \in Threads : d \in list'[u] <=> d \in list[u]
      BY <1>11, <2>3
    <3> QED
      BY <1>10, <2>1, <2>3, <3>1
  <2> QED
    BY <2>2, <2>3
<1> QED
  BY <1>6, <1>14, <1>19, <1>20, <1>21, <1>22, <1>23, <1>24, <1>25, <1>26, <1>27, <1>28 DEF IInv

---------------------------------------------------------------------------
\* The child of a fork has the one thread that forked.
LEMMA ForkKeeps ==
    ASSUME IInv, NEW t \in Threads, Fork(t)
    PROVE  IInv'
<1>1. StackType /\ FrameType /\ ChainInv
  BY FramesTyped DEF IInv
<1>2. /\ t \in alive /\ lock = "free" /\ alive' = {t}
      /\ UNCHANGED <<state, list, pending, lock, work>>
      /\ throwing' = [u \in Threads |-> FALSE] /\ ~throwing[t]
  BY DEF Fork, InUserCode
<1>3. stack' = [u \in Threads |-> IF u = t THEN stack[u] ELSE <<>>]
  BY DEF Fork
<1>4. StackType'
  BY <1>1, <1>3, EmptySeq DEF StackType
<1>5. /\ N(t)' = N(t) /\ Ix(t)' = Ix(t) /\ TopC(t)' = TopC(t)
      /\ \A i \in Ix(t) : C(t, i)' = C(t, i) /\ Pc(t, i)' = Pc(t, i) /\ (Active(t, i)' <=> Active(t, i))
      /\ \A q : OnTop(t, q)' <=> OnTop(t, q)
  <2>1. stack'[t] = stack[t]
    BY <1>3
  <2> QED
    BY <2>1 DEF N, Ix, TopC, TopPc, C, Pc, Active, OnTop
<1>6. \A u \in Threads : u # t => N(u)' = 0 /\ Ix(u)' = {} /\ \A q : ~OnTop(u, q)'
  <2>1. TAKE u \in Threads
  <2>2. HAVE u # t
  <2>3. stack'[u] = <<>>
    BY <1>3, <2>2
  <2>4. N(u)' = 0
    BY <2>3, EmptySeq DEF N
  <2> QED
    BY <2>4 DEF Ix, OnTop
<1>7. OnTop(t, "set") \/ OnTop(t, "check") => FALSE
  <2>1. N(t) > 0 => At(t, "initialize")
    BY <1>1, FramesTyped DEF Fork, InUserCode, At
  <2> QED
    BY <1>1, <2>1, AtTop DEF OnTop
<1>8. BaseType'
  BY <1>2 DEF IInv, BaseType
<1>9. ChainInv'
  <2> SUFFICES ASSUME NEW i \in Ix(t), i < N(t)
               PROVE  \/ Pc(t, i)' = "set" /\ C(t, i + 1)' = Super[C(t, i)']
                      \/ Pc(t, i)' = "initialize" /\ C(t, i)' \notin Trivial
    BY <1>5, <1>6 DEF ChainInv
  <2>1. i + 1 \in Ix(t)
    BY <1>1 DEF FrameType, Ix
  <2> QED
    BY <1>1, <1>5, <2>1 DEF ChainInv
<1>10. FrameInv'
  BY <1>2, <1>5, <1>6 DEF IInv, FrameInv
<1>11. StateInv'
  BY <1>2, <1>5, <1>6 DEF IInv, StateInv
<1>12. ListInv'
  <2> SUFFICES ASSUME NEW u \in Threads, NEW d \in list[u]
               PROVE  state[d] # "none" /\ (u = t => state[d] = "initializing" /\ Kept(t, d)')
    BY <1>2 DEF ListInv
  <2>1. state[d] # "none" /\ (u = t => state[d] = "initializing" /\ Kept(t, d))
    BY <1>2 DEF IInv, ListInv
  <2>2. Kept(t, d) => Kept(t, d)'
    BY <1>2, <1>5 DEF Kept
  <2> QED
    BY <2>1, <2>2
<1>13. ReadyInv'
  BY <1>5, <1>6, <1>7 DEF ReadyInv
<1>14. PendInv'
  <2> SUFFICES ASSUME NEW s \in Classes, NEW d \in pending[s]
               PROVE  /\ s = Super[d] /\ state[d] = "initializing" /\ state[s] = "initializing"
                      /\ \A u \in {t} : OnTop(u, "halt")' \/ (d \in list[u] <=> s \in list[u])
                      /\ \A u \in Threads : \A i \in Ix(u)' : Active(u, i)' => C(u, i)' # d
                      /\ \/ s \notin Trivial \/ s \in work
                         \/ Super[s] # NoClass /\ s \in pending[Super[s]]
    BY <1>2 DEF PendInv
  <2>1. /\ s = Super[d] /\ state[d] = "initializing" /\ state[s] = "initializing"
        /\ \A u \in alive : OnTop(u, "halt") \/ (d \in list[u] <=> s \in list[u])
        /\ \A u \in Threads : \A i \in Ix(u) : Active(u, i) => C(u, i) # d
        /\ \/ s \notin Trivial \/ s \in work
           \/ Super[s] # NoClass /\ s \in pending[Super[s]]
    BY DEF IInv, PendInv
  <2> QED
    BY <1>2, <1>5, <1>6, <2>1
<1>15. MarkInv'
  <2>1. \A u \in Threads : lock # u
    BY <1>2, ClassesAssumption
  <2> QED
    BY <1>2, <1>5, <1>6, <2>1 DEF IInv, MarkInv
<1>16. AliveInv'
  BY <1>2 DEF AliveInv
<1>17. ContiguousFromRoot'
  BY <1>2 DEF IInv, ContiguousFromRoot, SuperDone
<1>18. OneInitializer'
  <2>1. Forked'
    BY <1>2 DEF Forked, Fork
  <2> QED
    BY <2>1 DEF OneInitializer
<1> QED
  BY <1>4, <1>8, <1>9, <1>10, <1>11, <1>12, <1>13, <1>14, <1>15, <1>16, <1>17, <1>18 DEF IInv

---------------------------------------------------------------------------
\* The invariant.

\* Nothing is begun at first.
LEMMA InitIInv == Init => IInv
<1> SUFFICES ASSUME Init PROVE IInv
  OBVIOUS
<1>1. \A t \in Threads : stack[t] = <<>> /\ list[t] = {} /\ t \in alive
  BY DEF Init
<1>2. BaseType /\ StackType
  BY EmptySeq DEF Init, BaseType, StackType
<1>3. \A t \in Threads : N(t) = 0 /\ Ix(t) = {}
  BY <1>1, EmptySeq DEF N, Ix
<1>4. \A t \in Threads : \A q : ~OnTop(t, q)
  BY <1>3 DEF OnTop
<1>5. ChainInv /\ FrameInv /\ StateInv /\ ReadyInv
  BY <1>3, <1>4 DEF Init, ChainInv, FrameInv, StateInv, ReadyInv
<1>6. ListInv /\ PendInv
  BY <1>1 DEF Init, ListInv, PendInv
<1>7. MarkInv
  <2>1. \A t \in Threads : lock # t
    BY ClassesAssumption DEF Init
  <2> QED
    BY <1>3, <2>1 DEF Init, MarkInv
<1>8. AliveInv /\ ContiguousFromRoot /\ OneInitializer
  BY <1>1 DEF Init, AliveInv, Forked, ContiguousFromRoot, OneInitializer
<1> QED
  BY <1>2, <1>5, <1>6, <1>7, <1>8 DEF IInv

\* Nothing changes.
LEMMA StutterIInv ==
    ASSUME IInv, UNCHANGED vars
    PROVE  IInv'
<1>1. UNCHANGED stack /\ Still /\ UNCHANGED throwing
  BY DEF vars, Still
<1>2. \A u : N(u)' = N(u) /\ Ix(u)' = Ix(u) /\ TopC(u)' = TopC(u) /\ \A q : OnTop(u, q)' <=> OnTop(u, q)
  BY <1>1 DEF N, Ix, TopC, TopPc, C, Pc, OnTop
<1>3. \A u, i : C(u, i)' = C(u, i) /\ Pc(u, i)' = Pc(u, i) /\ (Active(u, i)' <=> Active(u, i))
  BY <1>1 DEF C, Pc, Active
<1>4. \A u \in Threads : \A i \in Ix(u) : u \in alive /\ Pc(u, i) # "fatal"
  BY DEF IInv, FrameInv
<1>5. Idle
  BY <1>2, <1>3, <1>4 DEF Idle
<1>6. KeptByIdle'
  BY <1>1, <1>5, IdleKeeps
<1>7. BaseType' /\ StackType'
  BY <1>1 DEF IInv, BaseType, StackType, Still
<1>8. ChainInv'
  BY <1>2, <1>3 DEF IInv, ChainInv
<1>9. StateInv'
  BY <1>1, <1>2, <1>3 DEF IInv, StateInv, Still
<1>10. ReadyInv'
  <2>1. \A u : Ready(u, TopC(u))' <=> Ready(u, TopC(u))
    BY <1>1, <1>2 DEF Ready, SuperDone, Still
  <2> QED
    BY <1>1, <1>2, <2>1 DEF IInv, ReadyInv
<1> QED
  BY <1>6, <1>7, <1>8, <1>9, <1>10 DEF IInv, KeptByIdle

\* Every step keeps the invariant.
LEMMA NextIInv == IInv /\ [Next]_vars => IInv'
<1> SUFFICES ASSUME IInv, [Next]_vars PROVE IInv'
  OBVIOUS
<1>1. CASE UNCHANGED vars
  BY <1>1, StutterIInv
<1>2. ASSUME NEW t \in Threads, Runtime(t)
      PROVE  IInv'
  BY <1>2, SuperFirstKeeps, TestAndSetKeeps, CheckInitializingKeeps, CheckInitializedKeeps,
     WaitKeeps, FinishKeeps, MarkedKeeps, UnwindKeeps, MarkKeeps DEF Runtime
<1>3. ASSUME NEW t \in Threads, InitializeEnds(t)
      PROVE  IInv'
  BY <1>3, InitializeEndsKeeps
<1>4. ASSUME NEW t \in Threads, Fork(t)
      PROVE  IInv'
  BY <1>4, ForkKeeps
<1>5. ASSUME NEW t \in Threads, NEW c \in Classes, Message(t, c)
      PROVE  IInv'
  BY <1>5, MessageKeeps
<1> QED
  BY <1>1, <1>2, <1>3, <1>4, <1>5 DEF Next

\* The inductive invariant holds in every state.
THEOREM Invariant == Spec => []IInv
BY InitIInv, NextIInv, PTL DEF Spec

---------------------------------------------------------------------------
\* What follows from it.

\* Every variable has its type.
THEOREM TypeCorrect == Spec => []TypeOK
<1>1. IInv => TypeOK
  BY DEF IInv, BaseType, StackType, Frames, TypeOK
<1> QED
  BY <1>1, Invariant, PTL

\* The runtime never finds itself inconsistent (_objc_fatal).
THEOREM RuntimeNeverFatal == Spec => []NeverFatal
<1>1. IInv => NeverFatal
  <2> SUFFICES ASSUME IInv, NEW t \in Threads, NEW i \in DOMAIN stack[t]
               PROVE  stack[t][i].pc # "fatal"
    BY DEF NeverFatal
  <2>1. stack[t] \in Seq(Frames)
    BY DEF IInv, StackType
  <2>2. i \in Ix(t)
    BY <2>1, LenProperties DEF Ix, N
  <2> QED
    BY <2>2 DEF IInv, FrameInv, Pc
<1> QED
  BY <1>1, Invariant, PTL

\* Superclasses first: what has begun is contiguous from the root, and a class
\* is begun before its superclass is done by the same thread only.
THEOREM AlwaysContiguous == Spec => []ContiguousFromRoot
<1>1. IInv => ContiguousFromRoot
  BY DEF IInv
<1> QED
  BY <1>1, Invariant, PTL

\* +initialize is sent to a class by one thread.
THEOREM AlwaysOneInitializer == Spec => []OneInitializer
<1>1. IInv => OneInitializer
  BY DEF IInv
<1> QED
  BY <1>1, Invariant, PTL

---------------------------------------------------------------------------
\* Who comes back may message the class.

\* No thread but t (or none at all) has an activation less.
OnlyShrinks(t) == \A u \in Threads : N(u)' < N(u) => u = t
NoneShrinks    == \A u \in Threads : ~(N(u)' < N(u))

\* No stack is lower.
LEMMA SameHeight ==
    ASSUME FrameType, \A u \in Threads : N(u)' = N(u) \/ N(u)' = N(u) + 1
    PROVE  NoneShrinks
BY DEF FrameType, NoneShrinks

\* A goto makes no stack lower,
LEMMA GotoHeight ==
    ASSUME StackType, NEW t \in Threads, NEW q, At(t, q), NEW p \in Pcs, Goto(t, p)
    PROVE  NoneShrinks
<1>1. Going(t, p) /\ Others(t) /\ FrameType
  BY AtTop, GotoEffect, FramesTyped
<1>2. \A u \in Threads : N(u)' = N(u)
  BY <1>1 DEF Going, Others, Same
<1> QED
  BY <1>1, <1>2, SameHeight

\* nor does a push;
LEMMA PushHeight ==
    ASSUME FrameType, NEW t \in Threads, NEW p, NEW c, Pushing(t, p, c), Others(t)
    PROVE  NoneShrinks
<1>1. \A u \in Threads : N(u)' = N(u) \/ N(u)' = N(u) + 1
  BY DEF Pushing, Others, Same
<1> QED
  BY <1>1, SameHeight

\* a pop, the thread's own only;
LEMMA PopHeight ==
    ASSUME StackType, NEW t \in Threads, NEW q, At(t, q), Pop(t)
    PROVE  OnlyShrinks(t)
<1>1. Others(t) /\ FrameType
  BY AtTop, PopEffect, FramesTyped
<1>2. ASSUME NEW u \in Threads, u # t
      PROVE  ~(N(u)' < N(u))
  BY <1>1, <1>2 DEF Others, Same, FrameType
<1> QED
  BY <1>2 DEF OnlyShrinks

\* and without a change of stacks none gets lower.
LEMMA SameStack ==
    ASSUME FrameType, UNCHANGED stack
    PROVE  NoneShrinks
<1>1. \A u \in Threads : N(u)' = N(u)
  BY DEF N
<1> QED
  BY <1>1, SameHeight

\* t comes back properly, and nobody else comes back.
Proper(t) ==
    \/ NoneShrinks
    \/ /\ OnlyShrinks(t)
       /\ throwing[t] \/ state'[Cls(t)] = "initialized" \/ Cls(t) \in list'[t]

\* The runtime's steps come back properly.
LEMMA RuntimeProper ==
    ASSUME IInv, NEW t \in Threads, Runtime(t)
    PROVE  Proper(t)
<1>1. StackType /\ FrameType
  BY FramesTyped DEF IInv
<1>2. {"set", "check", "check2", "wait", "blocked", "marking", "fatal"} \subseteq Pcs
  BY DEF Pcs
<1>3. CASE SuperFirst(t)
  <2>1. At(t, "super")
    BY <1>3 DEF SuperFirst
  <2>2. CASE SuperDone(Cls(t))
    BY <1>1, <1>2, <1>3, <2>1, <2>2, GotoHeight DEF SuperFirst, Goto, Proper
  <2>3. CASE ~SuperDone(Cls(t))
    <3>1. N(t) > 0 /\ Cls(t) = TopC(t)
      BY <1>1, <2>1, AtTop
    <3>2. Super[Cls(t)] \in Classes
      <4>1. Cls(t) \in Classes
        BY <1>1, <3>1, TopFrame
      <4> QED
        BY <2>3, <4>1, ClassesAssumption DEF SuperDone
    <3>3. stack' = [stack EXCEPT ![t] =
                       SubSeq(@, 1, Height(t) - 1)
                           \o <<Frame(Cls(t), "set"), Frame(Super[Cls(t)], "super")>>]
      BY <1>3, <2>3 DEF SuperFirst
    <3>4. Pushing(t, "set", Super[TopC(t)]) /\ Others(t)
      BY <1>1, <3>1, <3>2, <3>3, SuperEffect
    <3> QED
      BY <1>1, <3>4, PushHeight DEF Proper
  <2> QED
    BY <2>2, <2>3
<1>4. CASE TestAndSet(t)
  <2>1. At(t, "set") /\ \E p \in Pcs : Goto(t, p)
    <3>1. Enlisted(t, Cls(t), Begun(Cls(t))) \in Pcs
      BY DEF Enlisted, Begun, Pcs
    <3> QED
      BY <1>2, <1>4, <3>1 DEF TestAndSet
  <2> QED
    BY <1>1, <2>1, GotoHeight DEF Proper
<1>5. CASE CheckInitializing(t)
  <2>1. At(t, "check") /\ ((\E p \in Pcs : Goto(t, p)) \/ (Pop(t) /\ Cls(t) \in list'[t]))
    <3>1. Begun(Cls(t)) \in Pcs
      BY DEF Begun, Pcs
    <3> QED
      BY <1>2, <1>5, <3>1 DEF CheckInitializing
  <2> QED
    BY <1>1, <2>1, GotoHeight, PopHeight DEF Proper
<1>6. CASE CheckInitialized(t)
  <2>1. At(t, "check2") /\ Pop(t) /\ state'[Cls(t)] = "initialized"
    BY <1>6, TopState DEF CheckInitialized
  <2> QED
    BY <1>1, <2>1, PopHeight DEF Proper
<1>7. CASE Wait(t)
  <2>1. At(t, "wait") /\ (Goto(t, "blocked") \/ (Pop(t) /\ state'[Cls(t)] = "initialized"))
    BY <1>7 DEF Wait
  <2> QED
    BY <1>1, <1>2, <2>1, GotoHeight, PopHeight DEF Proper
<1>8. CASE Finish(t)
  <2>1. At(t, "finish") /\ (Goto(t, "marking") \/ Pop(t)) /\ UNCHANGED list
    BY <1>8 DEF Finish
  <2>2. Cls(t) \in list[t]
    <3>1. N(t) \in Ix(t) /\ C(t, N(t)) = Cls(t) /\ Pc(t, N(t)) = "finish"
      BY <1>1, <2>1, AtTop, TopFrame
    <3> QED
      BY <3>1 DEF IInv, FrameInv, Active, Begins
  <2> QED
    BY <1>1, <1>2, <2>1, <2>2, GotoHeight, PopHeight DEF Proper
<1>9. CASE Marked(t)
  <2>1. At(t, "marking") /\ Pop(t) /\ work = {} /\ UNCHANGED state
    BY <1>9 DEF Marked
  <2>2. state[Cls(t)] = "initialized"
    <3>1. N(t) \in Ix(t) /\ C(t, N(t)) = Cls(t) /\ Pc(t, N(t)) = "marking"
      BY <1>1, <2>1, AtTop, TopFrame
    <3> QED
      BY <2>1, <3>1 DEF IInv, MarkInv
  <2> QED
    BY <1>1, <2>1, <2>2, PopHeight DEF Proper
<1>10. CASE Unwind(t)
  <2>1. throwing[t] /\ (UNCHANGED stack \/ (At(t, "set") /\ Pop(t)))
    BY <1>10 DEF Unwind
  <2> QED
    BY <1>1, <2>1, PopHeight, SameStack DEF Proper
<1>11. ASSUME NEW c \in Classes, Mark(t, c)
       PROVE  Proper(t)
  <2>1. At(t, "marking") /\ c \in work
    BY <1>11 DEF Mark
  <2>2. N(t) \in Ix(t) /\ Pc(t, N(t)) = "marking"
    BY <1>1, <2>1, AtTop, TopFrame
  <2>3. c \in list[t]
    BY <2>1, <2>2 DEF IInv, MarkInv
  <2>4. Waking
    BY <1>1, <1>11, <2>3, NotifyEffect DEF Mark
  <2> QED
    BY <1>1, <2>4, SameHeight DEF Waking, Proper
<1> QED
  BY <1>3, <1>4, <1>5, <1>6, <1>7, <1>8, <1>9, <1>10, <1>11, Zenon DEF Runtime

\* Whoever comes back from _class_initialize without an exception finds the
\* class initialized, or is the one that initializes it.
THEOREM AlwaysReturnsReady == Spec => ReturnsReady
<1> DEFINE Back(t) == Len(stack'[t]) < Len(stack[t]) /\ ~throwing[t] =>
                          state'[Cls(t)] = "initialized" \/ Cls(t) \in list'[t]
<1>1. ASSUME IInv, Next
      PROVE  \A t \in alive' : Back(t)
  <2>1. StackType /\ FrameType
    BY <1>1, FramesTyped DEF IInv
  <2>2. \A u \in alive' : u \in Threads
    BY <1>1, NextIInv DEF IInv, BaseType
  <2>3. ASSUME NEW t \in Threads, Proper(t)
        PROVE  \A u \in alive' : Back(u)
    BY <2>2, <2>3 DEF Proper, OnlyShrinks, NoneShrinks, N
  <2>4. ASSUME NEW t \in Threads, Runtime(t)
        PROVE  Proper(t)
    BY <1>1, <2>4, RuntimeProper
  <2>5. ASSUME NEW t \in Threads, InitializeEnds(t)
        PROVE  Proper(t)
    BY <2>1, <2>5, GotoHeight DEF InitializeEnds, Proper, Pcs
  <2>6. ASSUME NEW t \in Threads, Fork(t)
        PROVE  \A u \in alive' : Back(u)
    <3>1. alive' = {t} /\ stack'[t] = stack[t]
      BY <2>6 DEF Fork
    <3> QED
      BY <2>1, <3>1 DEF FrameType, N
  <2>7. ASSUME NEW t \in Threads, NEW c \in Classes, Message(t, c)
        PROVE  Proper(t)
    <3>1. Pushing(t, TopPc(t), c) /\ Others(t)
      BY <2>1, <2>7, PushEffect DEF Message
    <3> QED
      BY <2>1, <3>1, PushHeight DEF Proper
  <2> HIDE DEF Back
  <2> QED
    BY <1>1, <2>3, <2>4, <2>5, <2>6, <2>7 DEF Next
<1>2. IInv /\ [Next]_vars => [\A t \in alive' : Back(t)]_vars
  BY <1>1
<1> HIDE DEF Back
<1>3. Spec => [][\A t \in alive' : Back(t)]_vars
  BY <1>2, Invariant, PTL DEF Spec
<1> QED
  BY <1>3 DEF ReturnsReady, Back
=============================================================================
