------------------------------ MODULE WeakRefs ------------------------------
(***************************************************************************)
(* runtime/NSObject.mm, storeWeak to objc_moveWeak, and the registration   *)
(* in objc-weak.mm: weak variables, the side tables that know them by the  *)
(* object they hold, and the deallocation that zeroes them.                *)
(*                                                                         *)
(* A side table is chosen by the address of the object, nil's included,    *)
(* and has a lock.  Variables are read without it and written inside it.   *)
(* References are counted atomically here (module RefCount has how), and   *)
(* the hash tables of a side table are a set of entries.  copyWeak and     *)
(* moveWeak are sequences of the calls below.                              *)
(*                                                                         *)
(* The class of an object may still have to be sent +initialize, which is  *)
(* the client's code and may do all that clients do.  It runs on the       *)
(* thread that sends it, inside the call that does; here another member of *)
(* Threads that has nothing else to do stands for it, and inside[t] has    *)
(* the classes whose +initialize the thread that t is a part of runs.      *)
(***************************************************************************)
EXTENDS Naturals, FiniteSets, FiniteSetsExt

CONSTANTS
    Threads,
    NoThread,
    Objects,
    Nil,
    Locations,  \* addresses of weak variables
    Tables,     \* addresses of side tables
    TableOf,    \* TableOf[o]: SideTables()[o]
    Classes,
    NoClass,
    ClassOf,    \* ClassOf[o]: the class of object o
    Lazy,       \* the classes not initialized at first
    Overriding, \* those whose retainWeakReference and allowsWeakReference may say NO
    MaxOwned    \* bound: references a thread has to an object

ASSUME WeakRefsAssumption ==
    /\ NoThread \notin Threads /\ Nil \notin Objects \cup Locations
    /\ Tables \subseteq Nat
    /\ TableOf \in [Objects \cup {Nil} -> Tables]
    /\ NoClass \notin Classes
    /\ ClassOf \in [Objects -> Classes]
    /\ Lazy \subseteq Classes /\ Overriding \subseteq Classes
    /\ MaxOwned \in Nat \ {0}

VARIABLES
    owned,       \* owned[t][o]: the references t must release
    life,        \* life[o]: "alive", "dying" once the last is gone, "freed"
    deallocator, \* deallocator[o]: the thread that runs o's -dealloc
    initialized, \* the classes whose +initialize has returned
    initializer, \* initializer[c]: the thread that runs c's +initialize
    inside,      \* inside[t]: see above
    scope,       \* the locations that are weak variables now
    var,         \* var[l]: *location
    registered,  \* the pairs of an object and a location in the weak tables
    referenced,  \* the objects whose weakly_referenced bit is set
    lock,        \* lock[T]: the thread in T's lock
    pc, op,      \* pc[t], op[t]: where thread t is, and in which call
    loc, old, new, \* loc[t], old[t], new[t]: location, oldObj (obj), newObj
    previous     \* previous[t]: previouslyInitializedClass

objects == <<owned, life, deallocator>>
classes == <<initialized, initializer, inside>>
tables  == <<registered, referenced>>
call    == <<op, loc, old, new, previous>>
vars == <<objects, classes, scope, var, tables, lock, pc, call>>

Init ==
    /\ owned \in [Threads -> [Objects -> 0..1]]
    /\ \A o \in Objects : Cardinality({t \in Threads : owned[t][o] = 1}) = 1
    /\ life = [o \in Objects |-> "alive"]
    /\ deallocator = [o \in Objects |-> NoThread]
    /\ initialized = Classes \ Lazy
    /\ initializer = [c \in Classes |-> NoThread]
    /\ inside = [t \in Threads |-> {}]
    /\ scope = {} /\ registered = {} /\ referenced = {}
    /\ var = [l \in Locations |-> Nil]
    /\ lock = [T \in Tables |-> NoThread]
    /\ pc = [t \in Threads |-> "idle"]
    /\ op = [t \in Threads |-> "none"]
    /\ loc = [t \in Threads |-> Nil]
    /\ old = [t \in Threads |-> Nil]
    /\ new = [t \in Threads |-> Nil]
    /\ previous = [t \in Threads |-> NoClass]

At(t, p)   == pc[t] = p
Goto(t, p) == pc' = [pc EXCEPT ![t] = p]
End(t) ==
    /\ Goto(t, "idle")
    /\ op' = [op EXCEPT ![t] = "none"]
    /\ old' = [old EXCEPT ![t] = Nil]
    /\ new' = [new EXCEPT ![t] = Nil]
    /\ loc' = [loc EXCEPT ![t] = Nil]
    /\ previous' = [previous EXCEPT ![t] = NoClass]

\* A thread may use what it owns, and in -dealloc the object itself.
MayUse(t, o) ==
    o \in Objects => owned[t][o] > 0 \/ (life[o] = "dying" /\ deallocator[o] = t)

IsDeallocating(t) == \E o \in Objects : life[o] = "dying" /\ deallocator[o] = t

\* init, destroy and move are not for concurrent use of the variable.
Using(l, ops) == \E t \in Threads : op[t] \in ops /\ loc[t] = l
Alone(l) == ~Using(l, {"store", "init", "destroy", "load"})

Begin(t, c, l, o, p) ==
    /\ Goto(t, p)
    /\ op' = [op EXCEPT ![t] = c]
    /\ loc' = [loc EXCEPT ![t] = l]
    /\ new' = [new EXCEPT ![t] = o]

---------------------------------------------------------------------------
\* storeWeak: haveOld, haveNew.

HaveOld(t) == op[t] \in {"store", "destroy"}
HaveNew(t) == op[t] \in {"store", "init"}

BeginStore(t) ==
    /\ At(t, "idle")
    /\ \E l \in scope, o \in Objects \cup {Nil} :
         MayUse(t, o) /\ ~Using(l, {"destroy"}) /\ Begin(t, "store", l, o, "read")
    /\ UNCHANGED <<objects, classes, scope, var, tables, lock, old, previous>>

\* objc_initWeak(&l, nil) only stores nil.
BeginInit(t) ==
    /\ At(t, "idle")
    /\ \E l \in Locations \ scope, o \in Objects \cup {Nil} :
         /\ MayUse(t, o) /\ Alone(l)
         /\ IF o = Nil
            THEN scope' = scope \cup {l} /\ UNCHANGED <<pc, op, loc, new>>
            ELSE Begin(t, "init", l, o, "lock") /\ UNCHANGED scope
    /\ UNCHANGED <<objects, classes, var, tables, lock, old, previous>>

BeginDestroy(t) ==
    /\ At(t, "idle")
    /\ \E l \in scope : Alone(l) /\ Begin(t, "destroy", l, Nil, "read")
    /\ UNCHANGED <<objects, classes, scope, var, tables, lock, old, previous>>

ReadOld(t) ==
    /\ At(t, "read")
    /\ old' = [old EXCEPT ![t] = var[loc[t]]]
    /\ Goto(t, "lock")
    /\ UNCHANGED <<objects, classes, scope, var, tables, lock, op, loc, new, previous>>

Needed(t) == (IF HaveOld(t) THEN {TableOf[old[t]]} ELSE {})
             \cup (IF HaveNew(t) THEN {TableOf[new[t]]} ELSE {})
Missing(t) == {T \in Needed(t) : lock[T] # t}
Unlock(t)  == lock' = [T \in Tables |-> IF lock[T] = t THEN NoThread ELSE lock[T]]

\* Mutant: always the old value's table first.
OldFirst(S, t) ==
    IF HaveOld(t) /\ TableOf[old[t]] \in S THEN TableOf[old[t]] ELSE Min(S)

\* lockTwo: the table at the lower address first.
FirstOf(S, t) == Min(S)

LockNext(t) ==
    /\ At(t, "lock")
    /\ LET T == FirstOf(Missing(t), t)
       IN /\ lock[T] = NoThread
          /\ lock' = [lock EXCEPT ![T] = t]
          /\ IF Missing(t) = {T} THEN Goto(t, "locked") ELSE UNCHANGED pc
    /\ UNCHANGED <<objects, classes, scope, var, tables, call>>

Begins(t) == IF HaveOld(t) THEN "read" ELSE "lock"

\* The old value changed underneath us.
Retry(t) ==
    /\ At(t, "locked") /\ HaveOld(t) /\ var[loc[t]] # old[t]
    /\ Unlock(t)
    /\ old' = [old EXCEPT ![t] = Nil]
    /\ Goto(t, "read")
    /\ UNCHANGED <<objects, classes, scope, var, tables, op, loc, new, previous>>

Initialized(c) == c \in initialized
Begun(c) == Initialized(c) \/ initializer[c] # NoThread

\* While the class is initializing on this very thread it does not count as
\* initialized: what tells the retry is that the call has been here before.
NewIsLazy(t) ==
    /\ HaveNew(t) /\ new[t] # Nil
    /\ ClassOf[new[t]] # previous[t]
    /\ ~Initialized(ClassOf[new[t]])

\* _class_initialize comes next, outside the locks.
InitializeFirst(t) ==
    /\ At(t, "locked") /\ NewIsLazy(t)
    /\ HaveOld(t) => var[loc[t]] = old[t]
    /\ Unlock(t)
    /\ old' = [old EXCEPT ![t] = Nil]
    /\ Goto(t, "initialize")
    /\ UNCHANGED <<objects, classes, scope, var, tables, op, loc, new, previous>>

\* The class whose initialization t's call asks for.
Wants(t, c) ==
    \/ At(t, "initialize") /\ c = ClassOf[new[t]]
    \/ At(t, "load initialize") /\ c = ClassOf[old[t]]

\* _class_initialize returns when the class is initialized or when this very
\* thread is initializing it; otherwise it sends +initialize, or waits for the
\* thread that has.
MayGoOn(t, c) == Initialized(c) \/ c \in inside[t]

\* The call starts again.
Reinitialized(t) ==
    /\ At(t, "initialize") /\ MayGoOn(t, ClassOf[new[t]])
    /\ previous' = [previous EXCEPT ![t] = ClassOf[new[t]]]
    /\ Goto(t, Begins(t))
    /\ UNCHANGED <<objects, classes, scope, var, tables, lock, op, loc, old, new>>

\* The opposite of rootIsDeallocating, or the answer of an override.
Allowed(o) ==
    {life[o] = "alive"} \cup (IF ClassOf[o] \in Overriding THEN {FALSE} ELSE {})

\* weak_unregister_no_lock, weak_register_no_lock and the object's bit.  An
\* object that is dying is not registered, and nil is stored instead.
Reregister(t) ==
    \E refer \in IF HaveNew(t) /\ new[t] # Nil THEN Allowed(new[t]) ELSE {FALSE} :
        /\ registered' = (registered \ (IF HaveOld(t) THEN {<<old[t], loc[t]>>} ELSE {}))
                           \cup (IF refer THEN {<<new[t], loc[t]>>} ELSE {})
        /\ referenced' = referenced \cup (IF refer THEN {new[t]} ELSE {})
        /\ new' = [new EXCEPT ![t] = IF refer THEN @ ELSE Nil]

\* Mutant: the old value is not read again.
RegisterUnchecked(t) ==
    /\ At(t, "locked") /\ ~NewIsLazy(t)
    /\ Reregister(t)
    /\ Goto(t, "assign")
    /\ UNCHANGED <<objects, classes, scope, var, lock, op, loc, old, previous>>

Register(t) ==
    /\ At(t, "locked") /\ ~NewIsLazy(t)
    /\ HaveOld(t) => var[loc[t]] = old[t]
    /\ Reregister(t)
    /\ Goto(t, "assign")
    /\ UNCHANGED <<objects, classes, scope, var, lock, op, loc, old, previous>>

\* A destroyed variable keeps its bits, which nobody reads any more; here
\* they are nil, as moveWeak leaves them.
Assign(t) ==
    /\ At(t, "assign")
    /\ var' = [var EXCEPT ![loc[t]] = new[t]]
    /\ scope' = IF op[t] = "destroy" THEN scope \ {loc[t]} ELSE scope \cup {loc[t]}
    /\ Unlock(t)
    /\ End(t)
    /\ UNCHANGED <<objects, classes, tables>>

---------------------------------------------------------------------------
\* objc_loadWeakRetained.

\* If the variable holds nil, so does the result.
BeginLoad(t) ==
    /\ At(t, "idle") /\ \A o \in Objects : owned[t][o] < MaxOwned
    /\ \E l \in scope :
         /\ ~Using(l, {"destroy"}) /\ var[l] # Nil
         /\ Begin(t, "load", l, Nil, "load lock")
         /\ old' = [old EXCEPT ![t] = var[l]]
    /\ UNCHANGED <<objects, classes, scope, var, tables, lock, previous>>

LoadLock(t) ==
    /\ At(t, "load lock")
    /\ lock[TableOf[old[t]]] = NoThread
    /\ lock' = [lock EXCEPT ![TableOf[old[t]]] = t]
    /\ Goto(t, "load")
    /\ UNCHANGED <<objects, classes, scope, var, tables, call>>

\* From the start: the variable is read.
Reload(t) ==
    IF var[loc[t]] = Nil THEN End(t)
    ELSE /\ old' = [old EXCEPT ![t] = var[loc[t]]]
         /\ Goto(t, "load lock")
         /\ UNCHANGED <<op, loc, new, previous>>

\* The variable changed.
LoadAgain(t) ==
    /\ At(t, "load") /\ var[loc[t]] # old[t]
    /\ Unlock(t)
    /\ Reload(t)
    /\ UNCHANGED <<objects, classes, scope, var, tables>>

\* rootTryRetain, directly or through retainWeakReference, which is called
\* with the side table locked and may refuse when a class overrides it.
Retain(t) ==
    \E retained \in Allowed(old[t]) :
        owned' = IF retained THEN [owned EXCEPT ![t][old[t]] = @ + 1] ELSE owned

\* Mutant: the variable is not read again.
TryRetainUnchecked(t) ==
    /\ At(t, "load") /\ MayGoOn(t, ClassOf[old[t]])
    /\ Retain(t)
    /\ Unlock(t)
    /\ End(t)
    /\ UNCHANGED <<life, deallocator, classes, scope, var, tables>>

TryRetain(t) ==
    /\ At(t, "load") /\ var[loc[t]] = old[t]
    /\ MayGoOn(t, ClassOf[old[t]])
    /\ Retain(t)
    /\ Unlock(t)
    /\ End(t)
    /\ UNCHANGED <<life, deallocator, classes, scope, var, tables>>

\* The class is initializing on another thread: _class_initialize, outside
\* the lock.
LoadInitializes(t) ==
    /\ At(t, "load") /\ var[loc[t]] = old[t]
    /\ ~MayGoOn(t, ClassOf[old[t]])
    /\ Unlock(t)
    /\ Goto(t, "load initialize")
    /\ UNCHANGED <<objects, classes, scope, var, tables, call>>

LoadReinitialized(t) ==
    /\ At(t, "load initialize") /\ MayGoOn(t, ClassOf[old[t]])
    /\ Reload(t)
    /\ UNCHANGED <<objects, classes, scope, var, tables, lock>>

---------------------------------------------------------------------------
\* +initialize.

\* u runs c's +initialize: for a message some client sends, or for t, whose
\* call does not go on before it has returned.
Initialize(u, c) ==
    /\ At(u, "idle") /\ inside[u] = {} /\ ~IsDeallocating(u)
    /\ ~Begun(c)
    /\ \/ inside' = [inside EXCEPT ![u] = {c}]
       \/ \E t \in Threads : Wants(t, c) /\ inside' = [inside EXCEPT ![u] = inside[t] \cup {c}]
    /\ initializer' = [initializer EXCEPT ![c] = u]
    /\ UNCHANGED <<objects, initialized, scope, var, tables, lock, pc, call>>

\* +initialize returns, and whoever waits is woken.
EndInitialize(u, c) ==
    /\ At(u, "idle") /\ ~IsDeallocating(u)
    /\ initializer[c] = u
    /\ initialized' = initialized \cup {c}
    /\ initializer' = [initializer EXCEPT ![c] = NoThread]
    /\ inside' = [inside EXCEPT ![u] = {}]
    /\ UNCHANGED <<objects, scope, var, tables, lock, pc, call>>

---------------------------------------------------------------------------
\* release, and the end of -dealloc.

IsLast(t, o) == owned[t][o] = 1 /\ \A u \in Threads \ {t} : owned[u][o] = 0

\* A message, so the class has been sent +initialize before.
Release(t) ==
    /\ At(t, "idle")
    /\ \E o \in Objects :
         /\ owned[t][o] > 0 /\ MayGoOn(t, ClassOf[o])
         /\ owned' = [owned EXCEPT ![t][o] = @ - 1]
         /\ IF IsLast(t, o)
            THEN /\ life' = [life EXCEPT ![o] = "dying"]
                 /\ deallocator' = [deallocator EXCEPT ![o] = t]
            ELSE UNCHANGED <<life, deallocator>>
    /\ UNCHANGED <<classes, scope, var, tables, lock, pc, call>>

\* rootDealloc: without weak references the object is freed at once.
RootDealloc(t) ==
    /\ At(t, "idle")
    /\ \E o \in Objects :
         /\ life[o] = "dying" /\ deallocator[o] = t
         /\ IF o \in referenced
            THEN /\ lock[TableOf[o]] = NoThread
                 /\ lock' = [lock EXCEPT ![TableOf[o]] = t]
                 /\ old' = [old EXCEPT ![t] = o]
                 /\ Goto(t, "clear")
                 /\ UNCHANGED life
            ELSE /\ life' = [life EXCEPT ![o] = "freed"]
                 /\ UNCHANGED <<lock, old, pc>>
    /\ UNCHANGED <<owned, deallocator, classes, scope, var, tables, op, loc, new, previous>>

Referrers(o) == {l \in Locations : <<o, l>> \in registered}

\* weak_clear_no_lock: one variable after another ...
ZeroOne(t) ==
    /\ At(t, "clear")
    /\ \E l \in Referrers(old[t]) :
         /\ var[l] = old[t]
         /\ var' = [var EXCEPT ![l] = Nil]
    /\ UNCHANGED <<objects, classes, scope, tables, lock, pc, call>>

\* ... then the entry, the lock and the object.
FreeObject(t) ==
    /\ At(t, "clear")
    /\ \A l \in Referrers(old[t]) : var[l] # old[t]
    /\ registered' = {r \in registered : r[1] # old[t]}
    /\ life' = [life EXCEPT ![old[t]] = "freed"]
    /\ Unlock(t)
    /\ End(t)
    /\ UNCHANGED <<owned, deallocator, classes, scope, var, referenced>>

---------------------------------------------------------------------------
Storing(t) == BeginStore(t) \/ BeginInit(t) \/ BeginDestroy(t) \/ ReadOld(t) \/ LockNext(t)
              \/ Retry(t) \/ InitializeFirst(t) \/ Reinitialized(t) \/ Register(t) \/ Assign(t)
Loading(t) == BeginLoad(t) \/ LoadLock(t) \/ LoadAgain(t) \/ TryRetain(t)
              \/ LoadInitializes(t) \/ LoadReinitialized(t)
Initializing(t) == \E c \in Classes : Initialize(t, c) \/ EndInitialize(t, c)
Dying(t)   == Release(t) \/ RootDealloc(t) \/ ZeroOne(t) \/ FreeObject(t)

Next == \E t \in Threads : Storing(t) \/ Loading(t) \/ Initializing(t) \/ Dying(t)
Spec == Init /\ [][Next]_vars

---------------------------------------------------------------------------
\* Whenever an object's side table is unlocked it lists exactly the
\* variables that hold the object; none holds one that was freed, or one
\* whose class has not even been sent +initialize - whoever takes the lock
\* may have to wait for a +initialize, but never sends one.
TablesMatchVariables ==
    \A o \in Objects : lock[TableOf[o]] = NoThread =>
        /\ Referrers(o) = {l \in scope : var[l] = o}
        /\ life[o] = "freed" \/ ~Begun(ClassOf[o]) => Referrers(o) = {}

\* t waits for a lock that u has.
WaitsForLock(t, u) ==
    \/ At(t, "lock") /\ lock[FirstOf(Missing(t), t)] = u
    \/ At(t, "load lock") /\ lock[TableOf[old[t]]] = u

\* t waits for the +initialize that u runs.
WaitsForClass(t, u) ==
    \E c \in Classes : Wants(t, c) /\ ~MayGoOn(t, c) /\ initializer[c] = u

\* No circle of threads that wait for each other's locks and +initialize
\* methods has a lock in it: who waits for a +initialize has left the side
\* tables, and who has one and wants another takes them in order.  (The
\* +initialize methods of clients may wait for each other.)
NoLockCycle ==
    ~ \E S \in SUBSET Threads :
        /\ \A t \in S : \E u \in S : WaitsForLock(t, u) \/ WaitsForClass(t, u)
        /\ \E t, u \in S : WaitsForLock(t, u)

\* Weak variables are zeroed all at once when the last reference goes, as
\* seen by loads: no load returns a dying object, nor one the variable no
\* longer holds, and no store is lost.
Value == [l \in Locations |->
    IF var[l] # Nil /\ life[var[l]] = "alive" THEN var[l] ELSE Nil]
Zeroing == INSTANCE ZeroingWeak WITH value <- Value
ImplementsZeroing == Zeroing!Spec
=============================================================================
