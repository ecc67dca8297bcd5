-------------------------- MODULE ClassInitialize --------------------------
(***************************************************************************)
(* runtime/objc-initialize.mm: _class_initialize sends +initialize to a    *)
(* class the first time it is messaged, superclasses first, once, while    *)
(* other threads wait.                                                     *)
(*                                                                         *)
(* A thread has a stack of activations of _class_initialize, as it recurs  *)
(* on the superclass and as a +initialize method messages other classes.   *)
(* The two state bits are written under classInitLock and read without it; *)
(* an action is one such read, or one stretch under the lock.              *)
(*                                                                         *)
(* A thread's list of classes is a set here: its array only ever grows     *)
(* when it is full.  So are the classes pending on a superclass.           *)
(***************************************************************************)
EXTENDS Naturals, Sequences, FiniteSets

CONSTANTS
    Threads,
    Classes,
    NoClass,   \* nil
    Super,     \* Super[c]: c's superclass, NoClass for a root
    Touches,   \* Touches[c]: the classes +[c initialize] messages
    Trivial,   \* the classes classHasTrivialInitialize finds trivial
    MayFork,   \* may the process fork while several threads run?
    MayThrow   \* may +initialize throw?

ASSUME ClassesAssumption ==
    /\ "free" \notin Threads /\ NoClass \notin Classes
    /\ Super \in [Classes -> Classes \cup {NoClass}]
    /\ Touches \in [Classes -> SUBSET Classes]
    /\ \A c \in Trivial : Touches[c] = {}
    /\ MayFork \in BOOLEAN
    /\ MayThrow \in BOOLEAN

VARIABLES
    state,    \* state[c]: the CLS_INITIALIZING and CLS_INITIALIZED bits
    list,     \* list[t]: _objc_initializing_classes of thread t
    pending,  \* pendingInitializeMap[s]: subclasses done before s is
    lock,     \* the thread that holds classInitLock for more than a step
    work,     \* what _finishInitializing still has to mark
    stack,    \* stack[t]: activations of _class_initialize, the last on top
    throwing, \* throwing[t]: is an exception passing through the stack?
    alive     \* the threads of this process; one in the child of a fork

vars == <<state, list, pending, lock, work, stack, throwing, alive>>

Frame(c, p) == [cls |-> c, pc |-> p]

Init ==
    /\ state = [c \in Classes |-> "none"]
    /\ list = [t \in Threads |-> {}]
    /\ pending = [c \in Classes |-> {}]
    /\ lock = "free"
    /\ work = {}
    /\ stack = [t \in Threads |-> <<>>]
    /\ throwing = [t \in Threads |-> FALSE]
    /\ alive = Threads

Forked == alive # Threads       \* MultithreadedForkChild

Height(t) == Len(stack[t])
Top(t)    == stack[t][Height(t)]
At(t, p)  == t \in alive /\ stack[t] # <<>> /\ Top(t).pc = p
Cls(t)    == Top(t).cls

Goto(t, p) == stack' = [stack EXCEPT ![t][Height(t)].pc = p]
Push(t, c) == stack' = [stack EXCEPT ![t] = Append(@, Frame(c, "super"))]
Pop(t)     == stack' = [stack EXCEPT ![t] = SubSeq(@, 1, Height(t) - 1)]

SuperDone(c) == Super[c] = NoClass \/ state[Super[c]] = "initialized"

\* Is t in user code: outside the runtime, or in a +initialize method?
InUserCode(t) ==
    /\ t \in alive
    /\ stack[t] # <<>> => Top(t).pc = "initialize"
    /\ ~throwing[t]

\* lookUpImpOrForward: the class is not initialized.
Message(t, c) ==
    /\ InUserCode(t)
    /\ stack[t] # <<>> => c \in Touches[Cls(t)]
    /\ state[c] # "initialized"
    /\ Push(t, c)
    /\ UNCHANGED <<state, list, pending, lock, work, throwing, alive>>

\* Mutant: the class is begun before its superclass.
ClassFirst(t) ==
    /\ At(t, "super")
    /\ Goto(t, "set")
    /\ UNCHANGED <<state, list, pending, lock, work, throwing, alive>>

\* Mutant: the superclass is not tested for nil.
SuperUntested(t) ==
    /\ At(t, "super")
    /\ stack' = IF Super[Cls(t)] # NoClass /\ SuperDone(Cls(t))
                THEN [stack EXCEPT ![t][Height(t)].pc = "set"]
                ELSE [stack EXCEPT ![t] =
                        SubSeq(@, 1, Height(t) - 1)
                            \o <<Frame(Cls(t), "set"), Frame(Super[Cls(t)], "super")>>]
    /\ UNCHANGED <<state, list, pending, lock, work, throwing, alive>>

SuperFirst(t) ==
    /\ At(t, "super")
    /\ stack' = IF SuperDone(Cls(t))
                THEN [stack EXCEPT ![t][Height(t)].pc = "set"]
                ELSE [stack EXCEPT ![t] =
                        SubSeq(@, 1, Height(t) - 1)
                            \o <<Frame(Cls(t), "set"), Frame(Super[Cls(t)], "super")>>]
    /\ UNCHANGED <<state, list, pending, lock, work, throwing, alive>>

\* What a thread does that has the class to itself; in the child of a fork
\* only a trivial +initialize is passed over, and anything else stops it.
Begun(c) == IF ~Forked THEN "initialize" ELSE IF c \in Trivial THEN "finish" ELSE "halt"

\* _setThisThreadIsInitializingClass
Enlist(t, c) == list' = [list EXCEPT ![t] = @ \cup {c}]
Enlisted(t, c, p) == IF c \in list[t] THEN "fatal" ELSE p

\* Mutant: the bits are tested but not set under the same lock.
TestOnly(t) ==
    /\ At(t, "set")
    /\ lock = "free"
    /\ ~throwing[t]
    /\ IF state[Cls(t)] # "initialized" /\ Cls(t) \notin list[t]
       THEN /\ state' = [state EXCEPT ![Cls(t)] = "initializing"]
            /\ Goto(t, Enlisted(t, Cls(t), Begun(Cls(t))))
            /\ Enlist(t, Cls(t))
       ELSE Goto(t, "check") /\ UNCHANGED <<state, list>>
    /\ UNCHANGED <<pending, lock, work, throwing, alive>>

TestAndSet(t) ==
    /\ At(t, "set")
    /\ lock = "free"
    /\ ~throwing[t]
    /\ IF state[Cls(t)] = "none"
       THEN /\ state' = [state EXCEPT ![Cls(t)] = "initializing"]
            /\ Goto(t, Enlisted(t, Cls(t), Begun(Cls(t))))
            /\ Enlist(t, Cls(t))
       ELSE Goto(t, "check") /\ UNCHANGED <<state, list>>
    /\ UNCHANGED <<pending, lock, work, throwing, alive>>

\* Mutant: isInitialized is asked before isInitializing.
CheckInitializedFirst(t) ==
    /\ At(t, "check")
    /\ IF state[Cls(t)] = "initialized" THEN Pop(t) ELSE Goto(t, "check2")
    /\ UNCHANGED <<state, list, pending, lock, work, throwing, alive>>

\* isInitializing; without CLS_INITIALIZING the other bit is asked next.
CheckInitializing(t) ==
    /\ At(t, "check")
    /\ \/ /\ state[Cls(t)] # "initializing"
          /\ Goto(t, "check2")
          /\ UNCHANGED list
       \/ /\ state[Cls(t)] = "initializing"
          /\ Cls(t) \in list[t]
          /\ Pop(t)
          /\ UNCHANGED list
       \/ /\ state[Cls(t)] = "initializing"
          /\ Cls(t) \notin list[t]
          /\ IF Forked
             THEN Goto(t, Begun(Cls(t))) /\ Enlist(t, Cls(t))
             ELSE Goto(t, "wait") /\ UNCHANGED list
    /\ UNCHANGED <<state, pending, lock, work, throwing, alive>>

CheckInitialized(t) ==
    /\ At(t, "check2")
    /\ IF state[Cls(t)] = "initialized" THEN Pop(t) ELSE Goto(t, "fatal")
    /\ UNCHANGED <<state, list, pending, lock, work, throwing, alive>>

\* waitForInitializeToComplete: classInitLock.wait() lets go of the lock.
Wait(t) ==
    /\ At(t, "wait")
    /\ lock = "free"
    /\ IF state[Cls(t)] = "initialized" THEN Pop(t) ELSE Goto(t, "blocked")
    /\ UNCHANGED <<state, list, pending, lock, work, throwing, alive>>

\* +initialize returns, or throws: to the runtime it is done.
InitializeEnds(t) ==
    /\ At(t, "initialize")
    /\ Goto(t, "finish")
    /\ \E throws \in {FALSE, MayThrow} :
           throwing' = [throwing EXCEPT ![t] = @ \/ throws]
    /\ UNCHANGED <<state, list, pending, lock, work, alive>>

\* lockAndFinishInitializing
Finish(t) ==
    /\ At(t, "finish")
    /\ lock = "free"
    /\ IF SuperDone(Cls(t))
       THEN /\ lock' = t
            /\ work' = {Cls(t)}
            /\ Goto(t, "marking")
            /\ UNCHANGED pending
       ELSE /\ pending' = [pending EXCEPT ![Super[Cls(t)]] = @ \cup {Cls(t)}]
            /\ Pop(t)
            /\ UNCHANGED <<lock, work>>
    /\ UNCHANGED <<state, list, throwing, alive>>

\* Mutant: a waiter that is notified does not look again.
NotifiedOnce(s) ==
    [u \in Threads |->
        IF s[u] # <<>> /\ s[u][Len(s[u])].pc = "blocked"
        THEN SubSeq(s[u], 1, Len(s[u]) - 1) ELSE s[u]]

\* notifyAll: whoever waits for any class looks again.
Notified(s) ==
    [u \in Threads |->
        IF s[u] # <<>> /\ s[u][Len(s[u])].pc = "blocked"
        THEN [s[u] EXCEPT ![Len(s[u])].pc = "wait"] ELSE s[u]]

\* Mutant: the classes that were pending on this one are forgotten.
MarkForgetting(t, c) ==
    /\ At(t, "marking")
    /\ c \in work
    /\ state' = [state EXCEPT ![c] = "initialized"]
    /\ list' = [list EXCEPT ![t] = @ \ {c}]
    /\ work' = work \ {c}
    /\ pending' = [pending EXCEPT ![c] = {}]
    /\ stack' = Notified(stack)
    /\ UNCHANGED <<lock, throwing, alive>>

\* _finishInitializing marks one class; its pending subclasses come next.
Mark(t, c) ==
    /\ At(t, "marking")
    /\ c \in work
    /\ state' = [state EXCEPT ![c] = "initialized"]
    /\ IF c \in list[t]
       THEN stack' = Notified(stack)
       ELSE stack' = Notified([stack EXCEPT ![t][Height(t)].pc = "fatal"])
    /\ list' = [list EXCEPT ![t] = @ \ {c}]
    /\ work' = (work \ {c}) \cup pending[c]
    /\ pending' = [pending EXCEPT ![c] = {}]
    /\ UNCHANGED <<lock, throwing, alive>>

Marked(t) ==
    /\ At(t, "marking")
    /\ work = {}
    /\ lock' = "free"
    /\ Pop(t)
    /\ UNCHANGED <<state, list, pending, work, throwing, alive>>

\* The exception reaches the caller: an activation that has not begun is
\* left, a +initialize method may catch it or is left by it.
Unwind(t) ==
    /\ t \in alive
    /\ throwing[t]
    /\ \/ stack[t] = <<>> /\ throwing' = [throwing EXCEPT ![t] = FALSE] /\ UNCHANGED stack
       \/ At(t, "set") /\ Pop(t) /\ UNCHANGED throwing
       \/ At(t, "initialize") /\ throwing' = [throwing EXCEPT ![t] = FALSE] /\ UNCHANGED stack
    /\ UNCHANGED <<state, list, pending, lock, work, alive>>

\* The child of a fork from here on; _objc_atfork_prepare took classInitLock.
Fork(t) ==
    /\ MayFork
    /\ ~Forked
    /\ Threads # {t}
    /\ InUserCode(t)
    /\ lock = "free"
    /\ alive' = {t}
    /\ stack' = [u \in Threads |-> IF u = t THEN stack[u] ELSE <<>>]
    /\ throwing' = [u \in Threads |-> FALSE]
    /\ UNCHANGED <<state, list, pending, lock, work>>
-----------------------------------------------------------------------------
Runtime(t) ==
    \/ SuperFirst(t) \/ TestAndSet(t)
    \/ CheckInitializing(t) \/ CheckInitialized(t) \/ Wait(t)
    \/ Finish(t) \/ Marked(t) \/ Unwind(t)
    \/ \E c \in Classes : Mark(t, c)

Next == \E t \in Threads :
    \/ Runtime(t)
    \/ InitializeEnds(t)
    \/ Fork(t)
    \/ \E c \in Classes : Message(t, c)

Spec == Init /\ [][Next]_vars

\* A thread in the runtime goes on, every waiter for classInitLock gets it in
\* the end, and +initialize methods return.
Fairness == \A t \in Threads : SF_vars(Runtime(t)) /\ SF_vars(InitializeEnds(t))

FairSpec == Spec /\ Fairness
-----------------------------------------------------------------------------
Pcs == {"super", "set", "check", "check2", "wait", "blocked", "initialize",
        "finish", "marking", "fatal", "halt"}

\* Every variable has its type.
TypeOK ==
    /\ state \in [Classes -> {"none", "initializing", "initialized"}]
    /\ list \in [Threads -> SUBSET Classes]
    /\ pending \in [Classes -> SUBSET Classes]
    /\ lock \in Threads \cup {"free"}
    /\ work \subseteq Classes
    /\ stack \in [Threads -> Seq([cls : Classes, pc : Pcs])]
    /\ throwing \in [Threads -> BOOLEAN]
    /\ alive \subseteq Threads

\* The runtime never finds itself inconsistent: no thread enlists a class twice,
\* finishes one it did not begin (pending subclasses included, whoever began
\* them), or sees neither bit of a class it could not begin.
NeverFatal ==
    \A t \in Threads : \A i \in DOMAIN stack[t] : stack[t][i].pc # "fatal"

\* The deadlock note of objc-initialize.mm: what is initializing or initialized
\* is contiguous from the root, and a class is initialized together with a
\* superclass that is not done only by the thread that initializes that one.
ContiguousFromRoot ==
    \A c \in Classes : state[c] # "none" =>
        \/ SuperDone(c)
        \/ /\ state[c] = "initializing" /\ state[Super[c]] = "initializing"
           /\ \A t \in alive : c \in list[t] => Super[c] \in list[t]

\* One thread initializes a class, and it is on the class's list until done.
OneInitializer ==
    ~Forked => \A c \in Classes :
        /\ \A t, u \in Threads : c \in list[t] /\ c \in list[u] => t = u
        /\ state[c] = "initializing" <=> \E t \in Threads : c \in list[t]

\* When _class_initialize returns, the class may be messaged: it is initialized,
\* or this thread is the one that initializes it.
ReturnsReady ==
    [][\A t \in alive' :
        Len(stack'[t]) < Len(stack[t]) /\ ~throwing[t] =>
            state'[Cls(t)] = "initialized" \/ Cls(t) \in list'[t]]_vars

\* Every message gets through: threads that wait for each other's classes, and
\* for superclasses, do not wait forever, as long as the +initialize methods of
\* classes beside each other do not message one another; in the child of a fork
\* the runtime may stop the process instead.
MessageReturns == \A t \in Threads : stack[t] # <<>> ~> stack[t] = <<>> \/ At(t, "halt")
=============================================================================
