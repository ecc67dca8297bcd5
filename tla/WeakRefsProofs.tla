--------------------------- MODULE WeakRefsProofs ---------------------------
(***************************************************************************)
(* Proofs about module WeakRefs, for any set of threads, of objects and    *)
(* their classes, of variables and of side tables: the tables and the      *)
(* variables agree whenever a table is unlocked, threads never wait in a   *)
(* circle with one of their locks in it, and weak variables are zeroed all *)
(* at once as far as a load can tell.                                      *)
(*                                                                         *)
(* The invariant says, in this order, what type everything has; what a     *)
(* call knows of its own arguments (CallInv) and of the classes it has     *)
(* asked for (ClassInv); which locks it holds (LockInv); that an object    *)
(* lives as long as it is owned, and that a stored object may be used      *)
(* (OwnInv); and how the table of an object may differ from the variables  *)
(* while its lock is held (TableInv).  The order of the locks has an       *)
(* invariant of its own (OrderInv).                                        *)
(***************************************************************************)
EXTENDS WeakRefs, TLAPS, FiniteSetTheorems

Values == Objects \cup {Nil}
Storers == {"lock", "locked", "assign"}
Places == Storers \cup
    {"idle", "read", "load lock", "load", "clear", "initialize", "load initialize"}

TypeOK ==
    /\ owned \in [Threads -> [Objects -> Nat]]
    /\ life \in [Objects -> {"alive", "dying", "freed"}]
    /\ deallocator \in [Objects -> Threads \cup {NoThread}]
    /\ initialized \subseteq Classes
    /\ initializer \in [Classes -> Threads \cup {NoThread}]
    /\ inside \in [Threads -> SUBSET Classes]
    /\ scope \subseteq Locations
    /\ var \in [Locations -> Values]
    /\ registered \subseteq Objects \X Locations
    /\ referenced \subseteq Objects
    /\ lock \in [Tables -> Threads \cup {NoThread}]
    /\ pc \in [Threads -> Places]
    /\ op \in [Threads -> {"none", "store", "init", "destroy", "load"}]
    /\ loc \in [Threads -> Locations \cup {Nil}]
    /\ old \in [Threads -> Values]
    /\ new \in [Threads -> Values]
    /\ previous \in [Threads -> Classes \cup {NoClass}]

\* What a call knows: the kind of call it is, that its variable exists, or
\* does not yet, and that it has it for itself where the client promised that.
Placed(t) ==
    /\ pc[t] \in {"idle", "clear"} => op[t] = "none"
    /\ pc[t] = "read" => op[t] \in {"store", "destroy"}
    /\ pc[t] \in Storers => op[t] \in {"store", "init", "destroy"}
    /\ pc[t] \in {"load lock", "load", "load initialize"} => op[t] = "load"
    /\ pc[t] = "initialize" => op[t] \in {"store", "init"} /\ new[t] \in Objects
Aimed(t) ==
    /\ op[t] # "none" => loc[t] \in Locations
    /\ op[t] \in {"store", "destroy", "load"} => loc[t] \in scope
    /\ op[t] = "init" => loc[t] \notin scope
    /\ op[t] = "destroy" => new[t] = Nil
    /\ op[t] = "load" => old[t] \in Objects
Alone2(t, u) ==
    op[t] \in {"init", "destroy"} /\ op[u] # "none" /\ loc[u] = loc[t] => u = t

CallInv ==
    /\ \A t \in Threads : Placed(t) /\ Aimed(t)
    /\ \A t, u \in Threads : Alone2(t, u)
    /\ \A l \in Locations \ scope : var[l] = Nil

\* The classes a call has asked for, and those whose +initialize a thread is
\* a part of, have at least been sent +initialize.
ClassInv == \A t \in Threads :
    /\ \A c \in inside[t] : Begun(c)
    /\ previous[t] # NoClass => Begun(previous[t])

\* Which locks a thread holds where it relies on them.
Locked(t) ==
    /\ pc[t] \in {"locked", "assign"} /\ HaveOld(t) => lock[TableOf[old[t]]] = t
    /\ pc[t] = "locked" /\ HaveNew(t) => lock[TableOf[new[t]]] = t
    /\ pc[t] = "assign" /\ new[t] \in Objects => lock[TableOf[new[t]]] = t
    /\ pc[t] = "clear" => old[t] \in Objects /\ lock[TableOf[old[t]]] = t

LockInv == \A t \in Threads : Locked(t)

\* An object is alive as long as somebody owns it, and then in -dealloc on
\* the thread that released it last; what a call stores, it may use.
OwnInv ==
    /\ \A o \in Objects : life[o] = "alive" <=> \E t \in Threads : owned[t][o] > 0
    /\ \A t \in Threads :
         op[t] \in {"store", "init"} /\ new[t] \in Objects => MayUse(t, new[t])
    /\ \A t \in Threads :
         pc[t] = "clear" => life[old[t]] = "dying" /\ deallocator[old[t]] = t

Clearing(o)     == \E t \in Threads : pc[t] = "clear" /\ old[t] = o
Entering(o, l)  == \E t \in Threads : pc[t] = "assign" /\ new[t] = o /\ loc[t] = l
Leaving(o, l)   == \E t \in Threads : /\ pc[t] = "assign" /\ HaveOld(t)
                                      /\ old[t] = o /\ loc[t] = l
Holds(l, o)     == l \in scope /\ var[l] = o

\* Between the change to the tables and the one to the variable, which only
\* the thread with the locks can be in.
Assigning(t) ==
    pc[t] = "assign" =>
        /\ HaveOld(t) => var[loc[t]] = old[t]
        /\ HaveOld(t) /\ <<old[t], loc[t]>> \in registered => new[t] = old[t]
        /\ new[t] \in Objects =>
             <<new[t], loc[t]>> \in registered /\ life[new[t]] = "alive"

TableInv ==
    /\ \A o \in Objects, l \in Locations : <<o, l>> \in registered =>
         /\ o \in referenced /\ Begun(ClassOf[o]) /\ life[o] # "freed"
         /\ Clearing(o) \/ Entering(o, l) \/ Holds(l, o)
    /\ \A o \in Objects, l \in Locations : Holds(l, o) =>
         <<o, l>> \in registered \/ Leaving(o, l)
    /\ \A t \in Threads : Assigning(t)

IInv == TypeOK /\ CallInv /\ ClassInv /\ LockInv /\ OwnInv /\ TableInv

Step(t) == Storing(t) \/ Loading(t) \/ Initializing(t) \/ Dying(t)

---------------------------------------------------------------------------
\* A call that begins writes only the variables of its thread.
LEMMA BeginDoes ==
    ASSUME NEW t \in Threads, BeginStore(t) \/ BeginInit(t) \/ BeginDestroy(t)
    PROVE  /\ UNCHANGED <<owned, life, deallocator, classes, var, registered, referenced, lock, old, previous>>
           /\ \/ UNCHANGED <<pc, op, loc, new>>
              \/ \E c \in {"store", "init", "destroy"}, l \in Locations \cup scope,
                    o \in Objects \cup {Nil}, p \in {"read", "lock"} : Begin(t, c, l, o, p)
<1>1. CASE BeginStore(t)
  BY <1>1 DEF BeginStore, objects, tables
<1>2. CASE BeginInit(t)
  BY <1>2 DEF BeginInit, objects, tables
<1>3. CASE BeginDestroy(t)
  BY <1>3 DEF BeginDestroy, objects, tables
<1> QED
  BY <1>1, <1>2, <1>3

\* A load that starts again gives up, or begins with the value it finds.
Reloads(t) ==
    \/ var[loc[t]] = Nil /\ End(t)
    \/ /\ var[loc[t]] # Nil /\ Goto(t, "load lock")
       /\ old' = [old EXCEPT ![t] = var[loc[t]]]
       /\ UNCHANGED <<op, loc, new, previous>>

LEMMA ReloadDoes ==
    ASSUME NEW t \in Threads, LoadAgain(t) \/ LoadReinitialized(t)
    PROVE  /\ pc[t] \in {"load", "load initialize"} /\ (Unlock(t) \/ lock' = lock)
           /\ UNCHANGED <<owned, life, deallocator, classes, scope, var, registered, referenced>>
           /\ Reloads(t)
<1>1. Reload(t) => Reloads(t)
  BY DEF Reload, Reloads
<1>2. CASE LoadAgain(t)
  BY <1>1, <1>2 DEF LoadAgain, At, objects, tables
<1>3. CASE LoadReinitialized(t)
  BY <1>1, <1>3 DEF LoadReinitialized, At, objects, tables
<1> QED
  BY <1>2, <1>3

\* +initialize, on whatever thread, leaves the objects, the variables, the
\* tables and every call alone.
LEMMA InitializingDoes ==
    ASSUME NEW t \in Threads, Initializing(t)
    PROVE  UNCHANGED <<objects, scope, var, tables, lock, pc, call>>
BY DEF Initializing, Initialize, EndInitialize

\* storeWeak registers a new object only if it is alive.
Gone(t)   == IF HaveOld(t) THEN {<<old[t], loc[t]>>} ELSE {}
Refers(t) ==
    /\ HaveNew(t) /\ new[t] # Nil /\ life[new[t]] = "alive"
    /\ registered' = (registered \ Gone(t)) \cup {<<new[t], loc[t]>>}
    /\ referenced' = referenced \cup {new[t]}
    /\ new' = [new EXCEPT ![t] = @]
StoresNil(t) ==
    /\ registered' = registered \ Gone(t) /\ referenced' = referenced
    /\ new' = [new EXCEPT ![t] = Nil]

LEMMA AllowedMeans ==
    ASSUME NEW o
    PROVE  /\ Allowed(o) \subseteq BOOLEAN
           /\ TRUE \in Allowed(o) => life[o] = "alive"
BY Zenon DEF Allowed

LEMMA RegisterDoes ==
    ASSUME NEW t \in Threads, Register(t)
    PROVE  Refers(t) \/ StoresNil(t)
<1>1. PICK refer \in IF HaveNew(t) /\ new[t] # Nil THEN Allowed(new[t]) ELSE {FALSE} :
        /\ registered' = (registered \ Gone(t)) \cup (IF refer THEN {<<new[t], loc[t]>>} ELSE {})
        /\ referenced' = referenced \cup (IF refer THEN {new[t]} ELSE {})
        /\ new' = [new EXCEPT ![t] = IF refer THEN @ ELSE Nil]
  BY DEF Register, Reregister, Gone
<1>2. refer \in BOOLEAN
  BY <1>1, AllowedMeans
<1>3. CASE refer = TRUE
  <2>1. HaveNew(t) /\ new[t] # Nil /\ life[new[t]] = "alive"
    BY <1>1, <1>3, AllowedMeans
  <2> QED
    BY <1>1, <1>3, <2>1 DEF Refers
<1>4. CASE refer = FALSE
  BY <1>1, <1>4 DEF StoresNil
<1> QED
  BY <1>2, <1>3, <1>4

\* objc_loadWeakRetained retains an object only if it is alive.
Retains(t) ==
    life[old[t]] = "alive" /\ owned' = [owned EXCEPT ![t][old[t]] = @ + 1]

LEMMA TryRetainDoes ==
    ASSUME NEW t \in Threads, TryRetain(t)
    PROVE  Retains(t) \/ owned' = owned
<1>1. PICK retained \in Allowed(old[t]) :
        owned' = IF retained THEN [owned EXCEPT ![t][old[t]] = @ + 1] ELSE owned
  BY DEF TryRetain, Retain
<1>2. retained \in BOOLEAN
  BY <1>1, AllowedMeans
<1>3. CASE retained = TRUE
  BY <1>1, <1>3, AllowedMeans DEF Retains
<1>4. CASE retained = FALSE
  BY <1>1, <1>4
<1> QED
  BY <1>2, <1>3, <1>4

InitsNil(t)    == /\ UNCHANGED <<pc, op, loc, new>>
                  /\ \E l \in Locations : scope' = scope \cup {l}
InitsObject(t) == /\ scope' = scope
                  /\ \E l \in Locations, o \in Values : Begin(t, "init", l, o, "lock")

\* objc_initWeak stores nil at once and begins a call for an object.
LEMMA InitDoes ==
    ASSUME NEW t \in Threads, BeginInit(t)
    PROVE  InitsNil(t) \/ InitsObject(t)
BY DEF BeginInit, InitsNil, InitsObject, Values

\* The end of -dealloc locks the table of an object that is weakly referenced,
\* and frees any other at once.
Deallocs(t, o) ==
    /\ UNCHANGED <<owned, deallocator, classes, scope, var, registered, referenced>>
    /\ UNCHANGED <<op, loc, new, previous>>
    /\ \/ /\ lock[TableOf[o]] = NoThread
          /\ lock' = [lock EXCEPT ![TableOf[o]] = t]
          /\ old' = [old EXCEPT ![t] = o]
          /\ Goto(t, "clear") /\ UNCHANGED life
       \/ life' = [life EXCEPT ![o] = "freed"] /\ UNCHANGED <<lock, old, pc>>

\* It is the dying object of this thread.
LEMMA RootDeallocDoes ==
    ASSUME NEW t \in Threads, RootDealloc(t)
    PROVE  \E o \in Objects : life[o] = "dying" /\ deallocator[o] = t /\ Deallocs(t, o)
<1> USE DEF RootDealloc, tables, Deallocs
<1>1. PICK o \in Objects :
         /\ life[o] = "dying" /\ deallocator[o] = t
         /\ IF o \in referenced
            THEN /\ lock[TableOf[o]] = NoThread
                 /\ lock' = [lock EXCEPT ![TableOf[o]] = t]
                 /\ old' = [old EXCEPT ![t] = o]
                 /\ Goto(t, "clear") /\ UNCHANGED life
            ELSE life' = [life EXCEPT ![o] = "freed"] /\ UNCHANGED <<lock, old, pc>>
  OBVIOUS
<1>2. /\ UNCHANGED <<owned, deallocator, classes, scope, var, registered, referenced>>
      /\ UNCHANGED <<op, loc, new, previous>>
  OBVIOUS
<1> QED
  BY <1>1, <1>2

\* Each action moves one thread: it changes nothing of the call another thread
\* is in, and takes no lock from another.
LEMMA OthersKept ==
    ASSUME TypeOK, NEW t \in Threads, Step(t), NEW u \in Threads, u # t
    PROVE  /\ pc'[u] = pc[u] /\ op'[u] = op[u] /\ loc'[u] = loc[u]
           /\ old'[u] = old[u] /\ new'[u] = new[u]
           /\ \A T \in Tables : lock[T] = u => lock'[T] = u
<1> USE DEF TypeOK, Goto, Begin, End, Unlock, Begins
<1>a. CASE BeginStore(t) \/ BeginInit(t) \/ BeginDestroy(t)
  <2>1. /\ UNCHANGED <<lock, old>>
        /\ \/ UNCHANGED <<pc, op, loc, new>>
           \/ \E c, l, o, p : Begin(t, c, l, o, p)
    <3> HIDE DEF TypeOK, Begin
    <3> QED
      BY <1>a, BeginDoes
  <2>2. CASE UNCHANGED <<pc, op, loc, new>>
    BY <2>1, <2>2
  <2>3. CASE \E c, l, o, p : Begin(t, c, l, o, p)
    <3>1. PICK c, l, o, p : Begin(t, c, l, o, p)
      BY <2>3
    <3> QED
      BY <2>1, <3>1
  <2> QED
    BY <2>1, <2>2, <2>3
<1>4. CASE ReadOld(t) BY <1>4 DEF ReadOld, call, objects, tables
<1>5. CASE LockNext(t)
  <2> DEFINE T == FirstOf(Missing(t), t)
  <2>1. lock[T] = NoThread /\ lock' = [lock EXCEPT ![T] = t]
    BY <1>5 DEF LockNext
  <2>2. \A U \in Tables : lock[U] = u => lock'[U] = u
    BY <2>1, WeakRefsAssumption
  <2> QED
    BY <1>5, <2>2 DEF LockNext, call
<1>6. CASE Retry(t) BY <1>6 DEF Retry, call, objects, tables
<1>7. CASE InitializeFirst(t) BY <1>7 DEF InitializeFirst, call, objects, tables
<1>8. CASE Register(t)
  <2>1. /\ UNCHANGED <<lock, op, loc, old>> /\ Goto(t, "assign")
        /\ \E n : new' = [new EXCEPT ![t] = n]
    BY <1>8 DEF Register, Reregister
  <2> QED
    BY <2>1
<1>9. CASE Assign(t)
  <2>1. Unlock(t)
    BY <1>9 DEF Assign
  <2>2. End(t)
    BY <1>9 DEF Assign
  <2>3. \A T \in Tables : lock[T] = u => lock'[T] = u
    BY <2>1
  <2>4. pc'[u] = pc[u] /\ op'[u] = op[u] /\ loc'[u] = loc[u]
    BY <2>2
  <2>5. old'[u] = old[u] /\ new'[u] = new[u]
    BY <2>2
  <2> QED
    BY <2>3, <2>4, <2>5
<1>10. CASE BeginLoad(t)
  <2>1. PICK l \in scope : /\ Begin(t, "load", l, Nil, "load lock")
                           /\ old' = [old EXCEPT ![t] = var[l]]
    BY <1>10 DEF BeginLoad
  <2>2. lock' = lock
    BY <1>10 DEF BeginLoad
  <2> QED
    BY <2>1, <2>2
<1>11. CASE LoadLock(t) BY <1>11, WeakRefsAssumption DEF LoadLock, call, objects, tables
<1>12. CASE LoadAgain(t) \/ LoadReinitialized(t)
  <2>1. Unlock(t) \/ lock' = lock
    BY <1>12, ReloadDoes
  <2>2. End(t) \/ (Goto(t, "load lock") /\ old' = [old EXCEPT ![t] = var[loc[t]]]
                   /\ UNCHANGED <<op, loc, new>>)
    BY <1>12, ReloadDoes DEF Reloads
  <2>3. \A T \in Tables : lock[T] = u => lock'[T] = u
    BY <2>1
  <2>4. CASE End(t)
    BY <2>3, <2>4
  <2>5. CASE /\ Goto(t, "load lock") /\ old' = [old EXCEPT ![t] = var[loc[t]]]
             /\ UNCHANGED <<op, loc, new>>
    BY <2>3, <2>5
  <2> QED
    BY <2>2, <2>4, <2>5
<1>13. CASE TryRetain(t) BY <1>13 DEF TryRetain, call, objects, tables
<1>14. CASE Release(t) BY <1>14 DEF Release, call, objects, tables
<1>15. CASE RootDealloc(t)
  <2>1. PICK o \in Objects : Deallocs(t, o)
    BY <1>15, RootDeallocDoes
  <2>2. CASE /\ lock[TableOf[o]] = NoThread
             /\ lock' = [lock EXCEPT ![TableOf[o]] = t]
             /\ old' = [old EXCEPT ![t] = o] /\ Goto(t, "clear")
    <3>1. \A U \in Tables : lock[U] = u => lock'[U] = u
      BY <2>2, WeakRefsAssumption
    <3> QED
      BY <2>1, <2>2, <3>1 DEF Deallocs
  <2>3. CASE UNCHANGED <<lock, old, pc>>
    BY <2>1, <2>3 DEF Deallocs
  <2> QED
    BY <2>1, <2>2, <2>3 DEF Deallocs
<1>16. CASE ZeroOne(t) BY <1>16 DEF ZeroOne, call, objects, tables
<1>17. CASE FreeObject(t) BY <1>17 DEF FreeObject, call, objects, tables
<1>18. CASE Reinitialized(t) BY <1>18 DEF Reinitialized, call, objects, tables
<1>19. CASE LoadInitializes(t) BY <1>19 DEF LoadInitializes, call, objects, tables
<1>20. CASE Initializing(t) BY <1>20, InitializingDoes DEF call
<1> QED
  BY <1>a, <1>4, <1>5, <1>6, <1>7, <1>8, <1>9, <1>10, <1>11, <1>12,
     <1>13, <1>14, <1>15, <1>16, <1>17, <1>18, <1>19, <1>20 DEF Step, Storing, Loading, Dying

LEMMA OneMore ==
    /\ \A n \in Nat : n + 1 \in Nat /\ n + 1 > 0 /\ (n # 0 <=> n > 0)
    /\ \A n \in Nat : n > 0 => n - 1 \in Nat /\ (n - 1 > 0 <=> n # 1)
OBVIOUS

LEMMA OwnedNat ==
    ASSUME owned \in [Threads -> [Objects -> Nat]], NEW t \in Threads, NEW o \in Objects
    PROVE  owned[t][o] \in Nat
<1>1. owned[t] \in [Objects -> Nat]
  OBVIOUS
<1> QED
  BY <1>1

LEMMA OwnedUpdate ==
    ASSUME owned \in [Threads -> [Objects -> Nat]],
           NEW t \in Threads, NEW o \in Objects, NEW n \in Nat
    PROVE  /\ [owned EXCEPT ![t][o] = n] \in [Threads -> [Objects -> Nat]]
           /\ \A u \in Threads, p \in Objects :
                [owned EXCEPT ![t][o] = n][u][p] = IF u = t /\ p = o THEN n ELSE owned[u][p]
<1> DEFINE row == [owned[t] EXCEPT ![o] = n]
<1>1. [owned EXCEPT ![t][o] = n] = [owned EXCEPT ![t] = row]
  OBVIOUS
<1>2. row \in [Objects -> Nat] /\ \A p \in Objects : row[p] = IF p = o THEN n ELSE owned[t][p]
  OBVIOUS
<1> HIDE DEF row
<1>3. /\ [owned EXCEPT ![t] = row] \in [Threads -> [Objects -> Nat]]
      /\ \A u \in Threads : [owned EXCEPT ![t] = row][u] = IF u = t THEN row ELSE owned[u]
  BY <1>2
<1> QED
  BY <1>1, <1>2, <1>3

\* Every action keeps the types; a load does because its object is not nil.
LEMMA TypeStep ==
    ASSUME TypeOK, CallInv, NEW t \in Threads, Step(t)
    PROVE  TypeOK'
<1> USE DEF TypeOK, Goto, Begin, End, Unlock, Begins, call, classes, objects, tables, Values, Storers, Places
<1>0. Placed(t) /\ Aimed(t)
  BY DEF CallInv
<1>1. CASE BeginStore(t)
  <2>1. PICK l \in scope, o \in Values : Begin(t, "store", l, o, "read")
    BY <1>1 DEF BeginStore
  <2>2. UNCHANGED <<objects, classes, scope, var, tables, lock, old, previous>>
    BY <1>1 DEF BeginStore
  <2> QED
    BY <2>1, <2>2
<1>2. CASE BeginInit(t)
  <2>1. UNCHANGED <<objects, classes, var, tables, lock, old, previous>>
    BY <1>2 DEF BeginInit
  <2>2. CASE InitsNil(t)
    <3>1. UNCHANGED <<pc, op, loc, new>> /\ scope' \subseteq Locations
      BY <2>2 DEF InitsNil
    <3> QED
      BY <2>1, <3>1
  <2>3. CASE InitsObject(t)
    <3>1. PICK l \in Locations, o \in Values : Begin(t, "init", l, o, "lock")
      BY <2>3 DEF InitsObject
    <3>2. scope' = scope
      BY <2>3 DEF InitsObject
    <3> QED
      BY <2>1, <3>1, <3>2
  <2> QED
    BY <1>2, <2>2, <2>3, InitDoes
<1>3. CASE BeginDestroy(t)
  <2>1. PICK l \in scope : Begin(t, "destroy", l, Nil, "read")
    BY <1>3 DEF BeginDestroy
  <2>2. UNCHANGED <<objects, classes, scope, var, tables, lock, old, previous>>
    BY <1>3 DEF BeginDestroy
  <2> QED
    BY <2>1, <2>2
<1>4. CASE ReadOld(t)
  <2>1. loc[t] \in Locations
    BY <1>4, <1>0 DEF ReadOld, Placed, Aimed, At
  <2> QED
    BY <1>4, <2>1 DEF ReadOld
<1>5. CASE LockNext(t)
  <2> DEFINE T == FirstOf(Missing(t), t)
  <2>1. lock' = [lock EXCEPT ![T] = t]
    BY <1>5 DEF LockNext
  <2> HIDE DEF T
  <2>2. lock' \in [Tables -> Threads \cup {NoThread}]
    BY <2>1
  <2>3. pc' = [pc EXCEPT ![t] = "locked"] \/ pc' = pc
    BY <1>5 DEF LockNext
  <2> QED
    BY <1>5, <2>2, <2>3 DEF LockNext
<1>6. CASE Retry(t) BY <1>6 DEF Retry
<1>7. CASE InitializeFirst(t) BY <1>7 DEF InitializeFirst
<1>8. CASE Register(t)
  <2>1. loc[t] \in Locations
    BY <1>8, <1>0 DEF Register, Placed, Aimed, At
  <2>2. /\ registered' \subseteq Objects \X Locations /\ referenced' \subseteq Objects
        /\ new' \in [Threads -> Values]
    <3>1. CASE Refers(t)
      <4>1. new[t] \in Objects /\ <<new[t], loc[t]>> \in Objects \X Locations
        BY <2>1, <3>1 DEF Refers
      <4> QED
        BY <3>1, <4>1 DEF Refers
    <3>2. CASE StoresNil(t)
      BY <3>2 DEF StoresNil
    <3> QED
      BY <1>8, <3>1, <3>2, RegisterDoes
  <2> QED
    BY <1>8, <2>2 DEF Register
<1>9. CASE Assign(t) 
  <2>1. loc[t] \in Locations
    BY <1>9, <1>0 DEF Assign, Placed, Aimed, At
  <2> QED
    BY <1>9, <2>1 DEF Assign
<1>10. CASE BeginLoad(t)
  <2>1. PICK l \in scope : /\ Begin(t, "load", l, Nil, "load lock")
                           /\ old' = [old EXCEPT ![t] = var[l]]
    BY <1>10 DEF BeginLoad
  <2>2. UNCHANGED <<objects, classes, scope, var, tables, lock, previous>>
    BY <1>10 DEF BeginLoad
  <2> QED
    BY <2>1, <2>2
<1>11. CASE LoadLock(t) BY <1>11 DEF LoadLock
<1>12. CASE LoadAgain(t) \/ LoadReinitialized(t)
  <2>1. loc[t] \in Locations
    BY <1>12, <1>0, ReloadDoes DEF Placed, Aimed
  <2>2. /\ Unlock(t) \/ lock' = lock
        /\ UNCHANGED <<owned, life, deallocator, classes, scope, var, registered, referenced>>
    BY <1>12, ReloadDoes
  <2>3. \/ End(t)
        \/ /\ Goto(t, "load lock") /\ old' = [old EXCEPT ![t] = var[loc[t]]]
           /\ UNCHANGED <<op, loc, new, previous>>
    BY <1>12, ReloadDoes DEF Reloads
  <2>4. var[loc[t]] \in Values
    BY <2>1
  <2>5. lock' \in [Tables -> Threads \cup {NoThread}]
    BY <2>2
  <2>6. CASE End(t)
    BY <2>2, <2>5, <2>6
  <2>7. CASE /\ Goto(t, "load lock") /\ old' = [old EXCEPT ![t] = var[loc[t]]]
             /\ UNCHANGED <<op, loc, new, previous>>
    BY <2>2, <2>4, <2>5, <2>7
  <2> QED
    BY <2>3, <2>6, <2>7
<1>13. CASE TryRetain(t) 
  <2>1. old[t] \in Objects
    BY <1>13, <1>0 DEF TryRetain, Placed, Aimed, At
  <2>2. owned' \in [Threads -> [Objects -> Nat]]
    <3> DEFINE n == owned[t][old[t]] + 1
    <3>1. owned' = owned \/ owned' = [owned EXCEPT ![t][old[t]] = n]
      BY <1>13, TryRetainDoes DEF Retains
    <3>2. owned[t][old[t]] \in Nat
      BY <2>1, OwnedNat
    <3>3. n \in Nat
      BY <3>2, OneMore
    <3> HIDE DEF n
    <3>4. [owned EXCEPT ![t][old[t]] = n] \in [Threads -> [Objects -> Nat]]
      BY <2>1, <3>3, OwnedUpdate
    <3> QED
      BY <3>1, <3>4
  <2> QED
    BY <1>13, <2>2 DEF TryRetain
<1>14. CASE Release(t) 
  <2>1. PICK o \in Objects :
           /\ owned[t][o] > 0
           /\ owned' = [owned EXCEPT ![t][o] = @ - 1]
           /\ \/ /\ life' = [life EXCEPT ![o] = "dying"]
                 /\ deallocator' = [deallocator EXCEPT ![o] = t]
              \/ UNCHANGED <<life, deallocator>>
    BY <1>14 DEF Release
  <2>2. owned' \in [Threads -> [Objects -> Nat]]
    <3>1. owned[t][o] \in Nat
      BY OwnedNat
    <3> DEFINE n == owned[t][o] - 1
    <3>2. owned[t][o] > 0 /\ owned' = [owned EXCEPT ![t][o] = n]
      BY <2>1
    <3>3. n \in Nat
      BY <3>1, <3>2, OneMore
    <3> HIDE DEF n
    <3>4. [owned EXCEPT ![t][o] = n] \in [Threads -> [Objects -> Nat]]
      BY <3>3, OwnedUpdate
    <3> QED
      BY <3>2, <3>4
  <2>3. /\ life' \in [Objects -> {"alive", "dying", "freed"}]
        /\ deallocator' \in [Objects -> Threads \cup {NoThread}]
    BY <2>1
  <2>4. UNCHANGED <<classes, scope, var, tables, lock, pc, call>>
    BY <1>14 DEF Release
  <2> QED
    BY <2>2, <2>3, <2>4
<1>15. CASE RootDealloc(t)
  <2>a. PICK o \in Objects : Deallocs(t, o)
    BY <1>15, RootDeallocDoes
  <2>1. /\ UNCHANGED <<owned, deallocator, classes, scope, var, registered, referenced>>
        /\ UNCHANGED <<op, loc, new, previous>>
        /\ \/ /\ lock' = [lock EXCEPT ![TableOf[o]] = t]
              /\ old' = [old EXCEPT ![t] = o]
              /\ Goto(t, "clear") /\ UNCHANGED life
           \/ life' = [life EXCEPT ![o] = "freed"] /\ UNCHANGED <<lock, old, pc>>
    BY <2>a DEF Deallocs
  <2>2. lock' \in [Tables -> Threads \cup {NoThread}]
    BY <2>1
  <2>4. old' \in [Threads -> Values]
    BY <2>1
  <2>5. pc' \in [Threads -> Places]
    BY <2>1
  <2>3. life' \in [Objects -> {"alive", "dying", "freed"}]
    BY <2>1
  <2> QED
    BY <2>1, <2>2, <2>3, <2>4, <2>5
<1>16. CASE ZeroOne(t) BY <1>16 DEF ZeroOne
<1>17. CASE FreeObject(t) BY <1>17 DEF FreeObject
<1>18. CASE Reinitialized(t)
  <2>1. ClassOf[new[t]] \in Classes
    BY <1>0, <1>18, WeakRefsAssumption DEF Reinitialized, Placed, At
  <2> QED
    BY <1>18, <2>1 DEF Reinitialized
<1>19. CASE LoadInitializes(t) BY <1>19 DEF LoadInitializes
<1>20. CASE Initializing(t)
  <2>1. PICK c \in Classes : Initialize(t, c) \/ EndInitialize(t, c)
    BY <1>20 DEF Initializing
  <2>2. CASE Initialize(t, c)
    <3>1. /\ initialized' = initialized /\ initializer' = [initializer EXCEPT ![c] = t]
          /\ \E C \in SUBSET Classes : inside' = [inside EXCEPT ![t] = C]
      <4>1. inside' = [inside EXCEPT ![t] = {c}]
              \/ \E u \in Threads : inside' = [inside EXCEPT ![t] = inside[u] \cup {c}]
        BY <2>2 DEF Initialize
      <4>2. {c} \in SUBSET Classes /\ \A u \in Threads : inside[u] \cup {c} \in SUBSET Classes
        OBVIOUS
      <4> QED
        BY <2>2, <4>1, <4>2 DEF Initialize
    <3> QED
      BY <1>20, <3>1, InitializingDoes
  <2>3. CASE EndInitialize(t, c)
    BY <1>20, <2>3, InitializingDoes DEF EndInitialize
  <2> QED
    BY <2>1, <2>2, <2>3
<1> QED
  BY <1>1, <1>2, <1>3, <1>4, <1>5, <1>6, <1>7, <1>8, <1>9, <1>10, <1>11, <1>12,
     <1>13, <1>14, <1>15, <1>16, <1>17, <1>18, <1>19, <1>20 DEF Step, Storing, Loading, Dying

---------------------------------------------------------------------------
\* What an action does with the call of its thread: goes on with it, ends it,
\* or begins one that has the variable as the client promised.
LEMMA CallFate ==
    ASSUME TypeOK, CallInv, NEW t \in Threads, Step(t)
    PROVE  \/ op'[t] = op[t] /\ loc'[t] = loc[t]
           \/ op'[t] = "none"
           \/ \A u \in Threads \ {t} : op[u] # "none" => loc[u] # loc'[t]
           \/ /\ op'[t] \in {"store", "load"}
              /\ \A u \in Threads \ {t} : op[u] \in {"init", "destroy"} => loc[u] # loc'[t]
<1> USE DEF TypeOK, Goto, Begin, End, call
<1>1. CASE BeginStore(t)
  <2>1. PICK l \in scope, o \in Values : ~Using(l, {"destroy"}) /\ Begin(t, "store", l, o, "read")
    BY <1>1 DEF BeginStore, Values
  <2>2. op'[t] = "store" /\ loc'[t] = l
    BY <2>1
  <2>3. \A u \in Threads : op[u] \in {"init", "destroy"} => loc[u] # l
    BY <2>1 DEF CallInv, Aimed, Using
  <2> QED
    BY <2>2, <2>3
<1>2. CASE BeginInit(t)
  <2>1. CASE UNCHANGED <<pc, op, loc, new>>
    BY <2>1
  <2>2. CASE \E l \in Locations, o \in Values : Alone(l) /\ Begin(t, "init", l, o, "lock")
    <3>1. PICK l \in Locations, o \in Values : Alone(l) /\ Begin(t, "init", l, o, "lock")
      BY <2>2
    <3>2. loc'[t] = l
      BY <3>1
    <3>3. \A u \in Threads : op[u] # "none" => loc[u] # l
      BY <3>1 DEF Alone, Using
    <3> QED
      BY <3>2, <3>3
  <2> QED
    BY <1>2, <2>1, <2>2 DEF BeginInit, Values
<1>3. CASE BeginDestroy(t)
  <2>1. PICK l \in scope : Alone(l) /\ Begin(t, "destroy", l, Nil, "read")
    BY <1>3 DEF BeginDestroy
  <2>2. loc'[t] = l
    BY <2>1
  <2>3. \A u \in Threads : op[u] # "none" => loc[u] # l
    BY <2>1 DEF Alone, Using
  <2> QED
    BY <2>2, <2>3
<1>4. CASE ReadOld(t) BY <1>4 DEF ReadOld
<1>5. CASE LockNext(t) BY <1>5 DEF LockNext
<1>6. CASE Retry(t) BY <1>6 DEF Retry
<1>7. CASE InitializeFirst(t) BY <1>7 DEF InitializeFirst
<1>8. CASE Register(t) BY <1>8 DEF Register
<1>9. CASE Assign(t) BY <1>9 DEF Assign
<1>10. CASE BeginLoad(t)
  <2>1. PICK l \in scope : ~Using(l, {"destroy"}) /\ Begin(t, "load", l, Nil, "load lock")
    BY <1>10 DEF BeginLoad
  <2>2. op'[t] = "load" /\ loc'[t] = l
    BY <2>1
  <2>3. \A u \in Threads : op[u] \in {"init", "destroy"} => loc[u] # l
    BY <2>1 DEF CallInv, Aimed, Using
  <2> QED
    BY <2>2, <2>3
<1>11. CASE LoadLock(t) BY <1>11 DEF LoadLock
<1>12. CASE LoadAgain(t) \/ LoadReinitialized(t)
  <2>1. End(t) \/ UNCHANGED <<op, loc>>
    BY <1>12, ReloadDoes DEF Reloads
  <2> QED
    BY <2>1
<1>13. CASE TryRetain(t) BY <1>13 DEF TryRetain
<1>14. CASE Release(t) BY <1>14 DEF Release
<1>15. CASE RootDealloc(t) BY <1>15 DEF RootDealloc
<1>16. CASE ZeroOne(t) BY <1>16 DEF ZeroOne
<1>17. CASE FreeObject(t) BY <1>17 DEF FreeObject
<1>18. CASE Reinitialized(t) BY <1>18 DEF Reinitialized
<1>19. CASE LoadInitializes(t) BY <1>19 DEF LoadInitializes
<1>20. CASE Initializing(t) BY <1>20, InitializingDoes
<1> QED
  BY <1>1, <1>2, <1>3, <1>4, <1>5, <1>6, <1>7, <1>8, <1>9, <1>10, <1>11, <1>12,
     <1>13, <1>14, <1>15, <1>16, <1>17, <1>18, <1>19, <1>20 DEF Step, Storing, Loading, Dying

\* A variable comes or goes only while no other call is about it.
LEMMA ScopeFate ==
    ASSUME TypeOK, CallInv, NEW t \in Threads, Step(t)
    PROVE  /\ \A u \in Threads \ {t} : op[u] # "none" => (loc[u] \in scope' <=> loc[u] \in scope)
           /\ \A l \in Locations \ scope' : var'[l] = Nil
           /\ \A l \in Locations \ scope : var[l] = Nil
<1>0. \A l \in Locations \ scope : var[l] = Nil
  BY DEF CallInv
<1>1. CASE BeginInit(t)
  <2>1. PICK l \in Locations \ scope : Alone(l) /\ (scope' = scope \/ scope' = scope \cup {l})
    BY <1>1 DEF BeginInit
  <2>2. \A u \in Threads : op[u] # "none" => loc[u] # l
    BY <2>1 DEF Alone, Using, TypeOK
  <2>3. var' = var
    BY <1>1 DEF BeginInit
  <2> QED
    BY <1>0, <2>1, <2>2, <2>3
<1>2. CASE Assign(t)
  <2>1. /\ op[t] \in {"store", "init", "destroy"} /\ loc[t] \in Locations
        /\ op[t] = "destroy" => new[t] = Nil
        /\ op[t] = "store" => loc[t] \in scope
    BY <1>2 DEF Assign, At, CallInv, Placed, Aimed, Storers
  <2>2. /\ var' = [var EXCEPT ![loc[t]] = new[t]]
        /\ scope' = IF op[t] = "destroy" THEN scope \ {loc[t]} ELSE scope \cup {loc[t]}
    BY <1>2 DEF Assign
  <2>3. \A u \in Threads \ {t} : op[u] # "none" /\ op[t] # "store" => loc[u] # loc[t]
    BY <2>1 DEF CallInv, Alone2
  <2>4. \A u \in Threads \ {t} : op[u] # "none" => (loc[u] \in scope' <=> loc[u] \in scope)
    BY <2>1, <2>2, <2>3
  <2>5. ASSUME NEW l \in Locations \ scope' PROVE var'[l] = Nil
    BY <1>0, <2>1, <2>2 DEF TypeOK
  <2> QED
    BY <1>0, <2>4, <2>5
<1>3. CASE ZeroOne(t)
  <2>1. scope' = scope /\ \E l \in Locations : var' = [var EXCEPT ![l] = Nil]
    BY <1>3 DEF ZeroOne, Referrers
  <2> QED
    BY <1>0, <2>1 DEF TypeOK
<1>4. CASE UNCHANGED <<scope, var>>
  BY <1>0, <1>4
<1>5. UNCHANGED <<scope, var>> \/ BeginInit(t) \/ Assign(t) \/ ZeroOne(t)
  BY DEF Step, Storing, Loading, Dying, BeginStore, BeginDestroy, ReadOld, LockNext, Retry,
         InitializeFirst, Reinitialized, Register, BeginLoad, LoadLock, LoadAgain, TryRetain,
         LoadInitializes, LoadReinitialized, Initializing, Initialize, EndInitialize, Release,
         RootDealloc, FreeObject
<1> QED
  BY <1>1, <1>2, <1>3, <1>4, <1>5

\* How the call of the thread that moves knows its arguments afterwards.
LEMMA CallOwn ==
    ASSUME TypeOK, CallInv, NEW t \in Threads, Step(t)
    PROVE  Placed(t)' /\ Aimed(t)'
<1> USE DEF Goto, Begin, End, call, Placed, Aimed, Storers, TypeOK
<1>0. Placed(t) /\ Aimed(t)
  BY DEF CallInv
<1>1. CASE BeginStore(t)
  <2>1. PICK l \in scope, o \in Values : Begin(t, "store", l, o, "read")
    BY <1>1 DEF BeginStore, Values
  <2>2. scope' = scope /\ pc'[t] = "read" /\ op'[t] = "store" /\ loc'[t] = l
    BY <1>1, <2>1 DEF BeginStore
  <2> QED
    BY <2>2
<1>2. CASE BeginInit(t)
  <2>1. CASE UNCHANGED <<pc, op, loc, new>>
    <3>1. op[t] = "none" /\ pc[t] = "idle"
      BY <1>2, <1>0 DEF BeginInit, At
    <3> QED
      BY <2>1, <3>1
  <2>2. CASE /\ scope' = scope
             /\ \E l \in Locations \ scope, o \in Values : Begin(t, "init", l, o, "lock")
    <3>1. PICK l \in Locations \ scope, o \in Values : Begin(t, "init", l, o, "lock")
      BY <2>2
    <3>2. pc'[t] = "lock" /\ op'[t] = "init" /\ loc'[t] = l
      BY <3>1
    <3> QED
      BY <2>2, <3>2
  <2> QED
    BY <1>2, <2>1, <2>2 DEF BeginInit, Values
<1>3. CASE BeginDestroy(t)
  <2>1. PICK l \in scope : Begin(t, "destroy", l, Nil, "read")
    BY <1>3 DEF BeginDestroy
  <2>2. /\ scope' = scope /\ pc'[t] = "read" /\ op'[t] = "destroy" /\ loc'[t] = l
        /\ new'[t] = Nil
    BY <1>3, <2>1 DEF BeginDestroy
  <2> QED
    BY <2>2
<1>4. CASE ReadOld(t) BY <1>0, <1>4 DEF ReadOld, At
<1>5. CASE LockNext(t) BY <1>0, <1>5 DEF LockNext, At
<1>6. CASE Retry(t) BY <1>0, <1>6 DEF Retry, At, HaveOld
<1>7. CASE InitializeFirst(t)
  <2>1. new[t] \in Objects
    BY <1>7 DEF InitializeFirst, NewIsLazy, Values
  <2> QED
    BY <1>0, <1>7, <2>1 DEF InitializeFirst, NewIsLazy, At, HaveNew
<1>8. CASE Register(t)
  <2>1. /\ UNCHANGED <<op, loc, old, scope>> /\ Goto(t, "assign") /\ pc[t] = "locked"
        /\ new'[t] \in {new[t], Nil}
    BY <1>8, RegisterDoes DEF Register, Refers, StoresNil, At
  <2> QED
    BY <1>0, <2>1
<1>9. CASE Assign(t) BY <1>9 DEF Assign
<1>10. CASE BeginLoad(t)
  <2>1. PICK l \in scope : /\ Begin(t, "load", l, Nil, "load lock") /\ var[l] # Nil
                           /\ old' = [old EXCEPT ![t] = var[l]]
    BY <1>10 DEF BeginLoad
  <2>2. /\ scope' = scope /\ pc'[t] = "load lock" /\ op'[t] = "load" /\ loc'[t] = l
        /\ old'[t] = var[l] /\ var[l] \in Objects
    BY <1>10, <2>1 DEF BeginLoad, Values
  <2> QED
    BY <2>2
<1>11. CASE LoadLock(t) BY <1>0, <1>11 DEF LoadLock, At
<1>12. CASE LoadAgain(t) \/ LoadReinitialized(t)
  <2>1. op[t] = "load" /\ loc[t] \in Locations /\ loc[t] \in scope /\ scope' = scope
    BY <1>0, <1>12, ReloadDoes
  <2>2. CASE End(t)
    BY <2>2
  <2>3. CASE /\ Goto(t, "load lock") /\ old' = [old EXCEPT ![t] = var[loc[t]]]
             /\ UNCHANGED <<op, loc>> /\ var[loc[t]] # Nil
    <3>1. pc'[t] = "load lock" /\ old'[t] = var[loc[t]]
      BY <2>3
    <3>2. var[loc[t]] \in Objects
      BY <2>1, <2>3 DEF Values
    <3> QED
      BY <2>1, <2>3, <3>1, <3>2
  <2> QED
    BY <1>12, <2>2, <2>3, ReloadDoes DEF Reloads
<1>13. CASE TryRetain(t) BY <1>13 DEF TryRetain
<1>14. CASE Release(t) BY <1>0, <1>14 DEF Release
<1>15. CASE RootDealloc(t) BY <1>0, <1>15 DEF RootDealloc, At
<1>16. CASE ZeroOne(t) BY <1>0, <1>16 DEF ZeroOne
<1>17. CASE FreeObject(t) BY <1>17 DEF FreeObject
<1>18. CASE Reinitialized(t) BY <1>0, <1>18 DEF Reinitialized, At, Begins, HaveOld
<1>19. CASE LoadInitializes(t) BY <1>0, <1>19 DEF LoadInitializes, At
<1>20. CASE Initializing(t)
  <2>1. UNCHANGED <<scope, pc, op, loc, old, new>>
    BY <1>20, InitializingDoes
  <2> QED
    BY <1>0, <2>1
<1> QED
  BY <1>1, <1>2, <1>3, <1>4, <1>5, <1>6, <1>7, <1>8, <1>9, <1>10, <1>11, <1>12,
     <1>13, <1>14, <1>15, <1>16, <1>17, <1>18, <1>19, <1>20 DEF Step, Storing, Loading, Dying

LEMMA CallStep ==
    ASSUME TypeOK, CallInv, NEW t \in Threads, Step(t)
    PROVE  CallInv'
<1>1. ASSUME NEW u \in Threads, u # t PROVE Placed(u)' /\ Aimed(u)'
  <2>1. Placed(u) /\ Aimed(u)
    BY DEF CallInv
  <2>2. /\ pc'[u] = pc[u] /\ op'[u] = op[u] /\ loc'[u] = loc[u]
        /\ old'[u] = old[u] /\ new'[u] = new[u]
    BY <1>1, OthersKept
  <2>3. op[u] # "none" => (loc[u] \in scope' <=> loc[u] \in scope)
    BY <1>1, ScopeFate
  <2> QED
    BY <2>1, <2>2, <2>3 DEF Placed, Aimed
<1>2. ASSUME NEW u \in Threads, NEW v \in Threads PROVE Alone2(u, v)'
  <2>1. Alone2(u, v)
    BY DEF CallInv
  <2>2. CASE u = v
    BY <2>2 DEF Alone2
  <2>3. CASE u # v /\ u # t /\ v # t
    BY <2>1, <2>3, OthersKept DEF Alone2
  <2>4. CASE u # v /\ u = t
    <3>1. op'[v] = op[v] /\ loc'[v] = loc[v]
      BY <2>4, OthersKept
    <3> QED
      BY <2>1, <2>4, <3>1, CallFate DEF Alone2
  <2>5. CASE u # v /\ v = t
    <3>1. op'[u] = op[u] /\ loc'[u] = loc[u]
      BY <2>5, OthersKept
    <3> QED
      BY <2>1, <2>5, <3>1, CallFate DEF Alone2
  <2> QED
    BY <2>2, <2>3, <2>4, <2>5
<1> QED
  BY <1>1, <1>2, CallOwn, ScopeFate DEF CallInv

---------------------------------------------------------------------------
\* A class that was sent +initialize has been for good.
LEMMA BegunKept ==
    ASSUME TypeOK, NEW t \in Threads, Step(t)
    PROVE  /\ \A c \in Classes : Begun(c) => Begun(c)'
           /\ \A o \in Objects : Begun(ClassOf[o]) => Begun(ClassOf[o])'
<1>1. \A c \in Classes : Begun(c) => Begun(c)'
  <2>1. CASE UNCHANGED classes
    BY <2>1 DEF classes, Begun, Initialized
  <2>2. CASE Initializing(t)
    <3>1. PICK d \in Classes : Initialize(t, d) \/ EndInitialize(t, d)
      BY <2>2 DEF Initializing
    <3>2. CASE Initialize(t, d)
      <4>1. initialized' = initialized /\ initializer' = [initializer EXCEPT ![d] = t]
        BY <3>2 DEF Initialize
      <4> QED
        BY <4>1, WeakRefsAssumption DEF Begun, Initialized, TypeOK
    <3>3. CASE EndInitialize(t, d)
      <4>1. /\ initialized' = initialized \cup {d}
            /\ initializer' = [initializer EXCEPT ![d] = NoThread]
        BY <3>3 DEF EndInitialize
      <4> QED
        BY <4>1 DEF Begun, Initialized, TypeOK
    <3> QED
      BY <3>1, <3>2, <3>3
  <2>3. UNCHANGED classes \/ Initializing(t)
    BY DEF Step, Storing, Loading, Dying, BeginStore, BeginInit, BeginDestroy, ReadOld, LockNext,
           Retry, InitializeFirst, Reinitialized, Register, Assign, BeginLoad, LoadLock, LoadAgain,
           TryRetain, LoadInitializes, LoadReinitialized, Release, RootDealloc, ZeroOne, FreeObject
  <2> QED
    BY <2>1, <2>2, <2>3
<1> QED
  BY <1>1, WeakRefsAssumption

\* A call comes to ask for a class only in _class_initialize, which has then
\* returned.
LEMMA PreviousFate ==
    ASSUME TypeOK, CallInv, ClassInv, NEW t \in Threads, Step(t)
    PROVE  \/ previous' = previous
           \/ previous' = [previous EXCEPT ![t] = NoClass]
           \/ \E c \in Classes : Begun(c) /\ previous' = [previous EXCEPT ![t] = c]
<1> USE DEF End, call
<1>1. CASE Reinitialized(t)
  <2>1. ClassOf[new[t]] \in Classes
    BY <1>1, WeakRefsAssumption DEF Reinitialized, At, CallInv, Placed
  <2>2. Begun(ClassOf[new[t]])
    BY <1>1, <2>1 DEF Reinitialized, MayGoOn, ClassInv, Begun
  <2> QED
    BY <1>1, <2>1, <2>2 DEF Reinitialized
<1>2. CASE LoadAgain(t) \/ LoadReinitialized(t)
  BY <1>2, ReloadDoes DEF Reloads
<1>3. CASE BeginStore(t) \/ BeginInit(t) \/ BeginDestroy(t)
  BY <1>3, BeginDoes
<1>4. CASE ~Reinitialized(t) /\ ~LoadAgain(t) /\ ~LoadReinitialized(t)
           /\ ~BeginStore(t) /\ ~BeginInit(t) /\ ~BeginDestroy(t)
  <2>1. Initializing(t) => previous' = previous
    BY InitializingDoes
  <2>2. Release(t) \/ RootDealloc(t) \/ ZeroOne(t) \/ LockNext(t) \/ LoadLock(t)
           \/ LoadInitializes(t) \/ ReadOld(t) \/ Retry(t) \/ InitializeFirst(t) \/ BeginLoad(t)
           \/ Register(t) => previous' = previous
    BY DEF Release, RootDealloc, ZeroOne, LockNext, LoadLock, LoadInitializes, ReadOld, Retry,
           InitializeFirst, BeginLoad, Register
  <2>3. Assign(t) \/ TryRetain(t) \/ FreeObject(t) => previous' = [previous EXCEPT ![t] = NoClass]
    BY DEF Assign, TryRetain, FreeObject
  <2> QED
    BY <1>4, <2>1, <2>2, <2>3 DEF Step, Storing, Loading, Dying
<1> QED
  BY <1>1, <1>2, <1>3, <1>4

LEMMA ClassStep ==
    ASSUME TypeOK, CallInv, ClassInv, NEW t \in Threads, Step(t)
    PROVE  ClassInv'
<1>1. ASSUME NEW u \in Threads, NEW c \in inside'[u] PROVE Begun(c)'
  <2>1. CASE c \in inside[u]
    BY <2>1, BegunKept DEF ClassInv, TypeOK
  <2>2. CASE c \notin inside[u]
    <3>1. PICK d \in Classes : Initialize(t, d)
      <4>1. inside' = inside \/ Initializing(t)
        BY DEF Step, Storing, Loading, Dying, BeginStore, BeginInit, BeginDestroy, ReadOld, LockNext,
               Retry, InitializeFirst, Reinitialized, Register, Assign, BeginLoad, LoadLock,
               LoadAgain, TryRetain, LoadInitializes, LoadReinitialized, Release, RootDealloc,
               ZeroOne, FreeObject, classes
      <4>2. PICK d \in Classes : Initialize(t, d) \/ EndInitialize(t, d)
        BY <1>1, <2>2, <4>1 DEF Initializing
      <4>3. ~EndInitialize(t, d)
        BY <1>1, <2>2 DEF EndInitialize, TypeOK
      <4> QED
        BY <4>2, <4>3
    <3>2. Begun(d)'
      BY <3>1, WeakRefsAssumption DEF Initialize, Begun, TypeOK
    <3>3. \/ inside' = [inside EXCEPT ![t] = {d}]
          \/ \E v \in Threads : inside' = [inside EXCEPT ![t] = inside[v] \cup {d}]
      BY <3>1 DEF Initialize
    <3>4. c = d \/ \E v \in Threads : c \in inside[v]
      <4>1. u = t /\ inside'[t] = inside'[u]
        BY <1>1, <2>2, <3>3 DEF TypeOK
      <4> QED
        BY <1>1, <3>3, <4>1 DEF TypeOK
    <3> QED
      BY <3>2, <3>4, BegunKept DEF ClassInv, TypeOK
  <2> QED
    BY <2>1, <2>2
<1>2. ASSUME NEW u \in Threads, previous'[u] # NoClass PROVE Begun(previous[u])'
  <2>1. PICK c \in Classes : c = previous'[u] /\ Begun(c)
    BY <1>2, PreviousFate DEF ClassInv, TypeOK
  <2>2. Begun(c)'
    BY <2>1, BegunKept
  <2> QED
    BY <2>1, <2>2 DEF Begun, Initialized
<1> QED
  BY <1>1, <1>2 DEF ClassInv

---------------------------------------------------------------------------
\* The locks a thread relies on stay its own until it gives them back.
LEMMA LockOwn ==
    ASSUME TypeOK, CallInv, LockInv, NEW t \in Threads, Step(t)
    PROVE  Locked(t)'
<1> USE DEF Goto, Begin, End, call, TypeOK, At
<1>0. Locked(t) /\ Placed(t) /\ Aimed(t)
  BY DEF LockInv, CallInv
<1>1. CASE LockNext(t)
  <2> DEFINE T == FirstOf(Missing(t), t)
  <2>1. /\ lock' = [lock EXCEPT ![T] = t]
        /\ Missing(t) = {T} \/ pc' = pc
        /\ op' = op /\ old' = old /\ new' = new /\ pc[t] = "lock"
        /\ pc'[t] \in {"lock", "locked"}
    BY <1>1 DEF LockNext
  <2> HIDE DEF T
  <2>2. ASSUME pc'[t] = "locked" PROVE \A U \in Needed(t) : U \in Tables => lock'[U] = t
    <3>1. Missing(t) = {T}
      BY <2>1, <2>2
    <3>2. \A U \in Needed(t) : lock[U] = t \/ U = T
      BY <3>1 DEF Missing
    <3> QED
      BY <2>1, <3>2
  <2>3. TableOf[old[t]] \in Tables /\ TableOf[new[t]] \in Tables
    BY WeakRefsAssumption DEF Values
  <2> QED
    BY <2>1, <2>2, <2>3 DEF Needed, HaveOld, HaveNew, Locked
<1>2. CASE Register(t)
  <2>1. /\ pc[t] = "locked" /\ pc'[t] = "assign" /\ op' = op /\ old' = old /\ lock' = lock
        /\ new'[t] \in Objects => HaveNew(t) /\ new'[t] = new[t]
    BY <1>2, RegisterDoes, WeakRefsAssumption DEF Register, Refers, StoresNil, Values
  <2> QED
    BY <1>0, <2>1 DEF Locked, HaveOld, HaveNew
<1>3. CASE RootDealloc(t)
  <2>1. PICK o \in Objects : IF o \in referenced
            THEN /\ lock' = [lock EXCEPT ![TableOf[o]] = t]
                 /\ old' = [old EXCEPT ![t] = o]
                 /\ pc' = [pc EXCEPT ![t] = "clear"]
            ELSE UNCHANGED <<lock, old, pc>>
    BY <1>3 DEF RootDealloc
  <2>2. pc[t] = "idle" /\ TableOf[o] \in Tables
    BY <1>3, WeakRefsAssumption DEF RootDealloc
  <2>3. CASE o \in referenced
    <3>1. pc'[t] = "clear" /\ old'[t] = o /\ lock'[TableOf[o]] = t
      BY <2>1, <2>2, <2>3
    <3> QED
      BY <3>1 DEF Locked
  <2>4. CASE o \notin referenced
    BY <2>1, <2>2, <2>4 DEF Locked
  <2> QED
    BY <2>3, <2>4
<1>4. CASE ZeroOne(t)
  BY <1>0, <1>4 DEF ZeroOne, Locked, HaveOld, HaveNew
<1>5. CASE pc'[t] \notin {"locked", "assign", "clear"}
  BY <1>5 DEF Locked
<1>6. \/ LockNext(t) \/ Register(t) \/ RootDealloc(t) \/ ZeroOne(t)
      \/ pc'[t] \notin {"locked", "assign", "clear"}
  <2>1. BeginStore(t) \/ BeginDestroy(t) \/ ReadOld(t) \/ Retry(t) \/ InitializeFirst(t)
           \/ Reinitialized(t) \/ LoadInitializes(t) \/ Assign(t) \/ BeginLoad(t) \/ LoadLock(t) \/ TryRetain(t) \/ Release(t) \/ FreeObject(t)
        => pc'[t] \notin {"locked", "assign", "clear"}
    BY DEF BeginStore, BeginDestroy, ReadOld, Retry, InitializeFirst, Reinitialized, Begins, Assign,
           LoadInitializes, BeginLoad, LoadLock, TryRetain, Release, FreeObject
  <2>2. BeginInit(t) => pc'[t] \notin {"locked", "assign", "clear"}
    BY DEF BeginInit
  <2>3. LoadAgain(t) \/ LoadReinitialized(t) => pc'[t] \notin {"locked", "assign", "clear"}
    BY ReloadDoes DEF Reloads
  <2>4. Initializing(t) => pc'[t] \notin {"locked", "assign", "clear"}
    BY DEF Initializing, Initialize, EndInitialize
  <2> QED
    BY <2>1, <2>2, <2>3, <2>4 DEF Step, Storing, Loading, Dying
<1> QED
  BY <1>1, <1>2, <1>3, <1>4, <1>5, <1>6

LEMMA LockStep ==
    ASSUME TypeOK, CallInv, LockInv, NEW t \in Threads, Step(t)
    PROVE  LockInv'
<1>1. ASSUME NEW u \in Threads, u # t PROVE Locked(u)'
  <2>1. Locked(u) /\ TableOf[old[u]] \in Tables /\ TableOf[new[u]] \in Tables
    BY WeakRefsAssumption DEF LockInv, TypeOK, Values
  <2>2. /\ pc'[u] = pc[u] /\ op'[u] = op[u] /\ old'[u] = old[u] /\ new'[u] = new[u]
        /\ \A T \in Tables : lock[T] = u => lock'[T] = u
    BY <1>1, OthersKept
  <2> QED
    BY <2>1, <2>2 DEF Locked, HaveOld, HaveNew
<1> QED
  BY <1>1, LockOwn DEF LockInv

---------------------------------------------------------------------------
\* References come one at a time, to what is alive, and go one at a time: the
\* object's life ends exactly when the last one goes.
LEMMA LifeStep ==
    ASSUME TypeOK, CallInv, LockInv, OwnInv, NEW t \in Threads, Step(t)
    PROVE  /\ \A o \in Objects : life'[o] = "alive" <=> \E u \in Threads : owned'[u][o] > 0
           /\ \A u \in Threads, o \in Objects :
                op[u] # "none" /\ MayUse(u, o) => MayUse(u, o)'
<1> USE DEF Goto, Begin, End, At
<1>0. /\ \A o \in Objects : life[o] = "alive" <=> \E u \in Threads : owned[u][o] > 0
      /\ Placed(t) /\ Aimed(t)
  BY DEF OwnInv, CallInv
<1>t. /\ owned \in [Threads -> [Objects -> Nat]]
      /\ life \in [Objects -> {"alive", "dying", "freed"}]
      /\ deallocator \in [Objects -> Threads \cup {NoThread}]
  BY DEF TypeOK
<1>1. CASE TryRetain(t)
  <2>1. old[t] \in Objects
    BY <1>0, <1>1 DEF TryRetain, Placed, Aimed
  <2> DEFINE n == owned[t][old[t]] + 1
  <2>2. n \in Nat /\ n > 0
    <3>1. owned[t][old[t]] \in Nat
      BY <1>t, <2>1, OwnedNat
    <3> QED
      BY <3>1, OneMore
  <2>3. /\ (life[old[t]] = "alive" /\ owned' = [owned EXCEPT ![t][old[t]] = n]) \/ owned' = owned
        /\ life' = life /\ deallocator' = deallocator
    BY <1>1, TryRetainDoes DEF TryRetain, Retains
  <2> HIDE DEF n
  <2>4. CASE life[old[t]] = "alive" /\ owned' = [owned EXCEPT ![t][old[t]] = n]
    <3>1. \A u \in Threads, o \in Objects :
            owned'[u][o] = IF u = t /\ o = old[t] THEN n ELSE owned[u][o]
      BY <1>t, <2>1, <2>2, <2>3, <2>4, OwnedUpdate
    <3>2. \A u \in Threads, o \in Objects : owned[u][o] > 0 => owned'[u][o] > 0
      BY <2>2, <3>1
    <3>3. \A o \in Objects : o # old[t] => \A u \in Threads : owned'[u][o] = owned[u][o]
      BY <3>1
    <3>4. owned'[t][old[t]] > 0
      BY <2>1, <2>2, <3>1
    <3> QED
      BY <1>0, <2>3, <2>4, <3>2, <3>3, <3>4 DEF MayUse
  <2>5. CASE owned' = owned
    BY <1>0, <2>3, <2>5 DEF MayUse
  <2> QED
    BY <2>3, <2>4, <2>5
<1>2. CASE Release(t)
  <2>1. PICK o \in Objects :
           /\ owned[t][o] > 0
           /\ owned' = [owned EXCEPT ![t][o] = @ - 1]
           /\ IF IsLast(t, o)
              THEN /\ life' = [life EXCEPT ![o] = "dying"]
                   /\ deallocator' = [deallocator EXCEPT ![o] = t]
              ELSE UNCHANGED <<life, deallocator>>
    BY <1>2 DEF Release
  <2> DEFINE n == owned[t][o] - 1
  <2>2. n \in Nat /\ (n > 0 <=> owned[t][o] # 1)
    <3>1. owned[t][o] \in Nat /\ owned[t][o] > 0
      BY <1>t, <2>1, OwnedNat
    <3> QED
      BY <3>1, OneMore
  <2>3. owned' = [owned EXCEPT ![t][o] = n]
    BY <2>1
  <2> HIDE DEF n
  <2>4. \A u \in Threads, p \in Objects :
          owned'[u][p] = IF u = t /\ p = o THEN n ELSE owned[u][p]
    BY <1>t, <2>2, <2>3, OwnedUpdate
  <2>5. op[t] = "none"
    BY <1>0, <1>2 DEF Release, Placed
  <2>6. \A p \in Objects : p # o => life'[p] = life[p] /\ deallocator'[p] = deallocator[p]
    BY <1>t, <2>1
  <2>7. life[o] = "alive"
    BY <1>0, <2>1
  <2>8. \A u \in Threads, p \in Objects :
           op[u] # "none" /\ MayUse(u, p) => MayUse(u, p)'
    <3> SUFFICES ASSUME NEW u \in Threads, NEW p \in Objects, u # t, MayUse(u, p)
                 PROVE  MayUse(u, p)'
      BY <2>5
    <3>1. owned'[u][p] = owned[u][p]
      BY <2>4
    <3>2. life[p] = "dying" => p # o
      BY <2>7
    <3> QED
      BY <2>6, <3>1, <3>2 DEF MayUse
  <2>9. \A p \in Objects : p # o => (life'[p] = "alive" <=> \E u \in Threads : owned'[u][p] > 0)
    BY <1>0, <2>4, <2>6
  <2>10. life'[o] = "alive" <=> \E u \in Threads : owned'[u][o] > 0
    <3>1. CASE IsLast(t, o)
      <4>1. life'[o] = "dying" /\ ~(n > 0)
        BY <1>t, <2>1, <2>2, <3>1 DEF IsLast
      <4>2. \A u \in Threads \ {t} : owned'[u][o] = 0
        BY <2>4, <3>1 DEF IsLast
      <4>4. \A u \in Threads : ~(owned'[u][o] > 0)
        <5>1. owned'[t][o] = n
          BY <2>4
        <5> QED
          BY <4>1, <4>2, <5>1, OneMore
      <4> QED
        BY <4>1, <4>4
    <3>2. CASE ~IsLast(t, o)
      <4>1. life'[o] = "alive"
        BY <2>1, <2>7, <3>2
      <4>2. n > 0 \/ \E u \in Threads \ {t} : owned[u][o] # 0
        BY <2>2, <3>2 DEF IsLast
      <4>3. \A u \in Threads : owned[u][o] # 0 => owned[u][o] > 0
        BY <1>t, OwnedNat, OneMore
      <4>4. \E u \in Threads : owned'[u][o] > 0
        BY <2>4, <4>2, <4>3
      <4> QED
        BY <4>1, <4>4
    <3> QED
      BY <3>1, <3>2
  <2> QED
    BY <2>8, <2>9, <2>10
<1>3. CASE RootDealloc(t)
  <2>1. PICK o \in Objects : /\ life[o] = "dying" /\ deallocator[o] = t
                             /\ life' = life \/ life' = [life EXCEPT ![o] = "freed"]
    BY <1>3 DEF RootDealloc
  <2>2. op[t] = "none" /\ owned' = owned /\ deallocator' = deallocator
    BY <1>0, <1>3 DEF RootDealloc, Placed
  <2>3. \A p \in Objects : /\ life'[p] = "alive" <=> life[p] = "alive"
                           /\ p # o => life'[p] = life[p]
    BY <1>t, <2>1
  <2>4. \A u \in Threads : op[u] # "none" => deallocator[o] # u
    BY <2>1, <2>2
  <2> QED
    BY <1>0, <2>2, <2>3, <2>4 DEF MayUse
<1>4. CASE FreeObject(t)
  <2>1. /\ life' = [life EXCEPT ![old[t]] = "freed"] /\ owned' = owned
        /\ deallocator' = deallocator /\ pc[t] = "clear" /\ op[t] = "none"
    BY <1>0, <1>4 DEF FreeObject, Placed
  <2>2. life[old[t]] = "dying" /\ deallocator[old[t]] = t /\ old[t] \in Objects
    BY <2>1 DEF OwnInv, LockInv, Locked
  <2>3. \A p \in Objects : /\ life'[p] = "alive" <=> life[p] = "alive"
                           /\ p # old[t] => life'[p] = life[p]
    BY <1>t, <2>1, <2>2
  <2> QED
    BY <1>0, <2>1, <2>2, <2>3 DEF MayUse
<1>5. CASE UNCHANGED <<owned, life, deallocator>>
  BY <1>0, <1>5 DEF MayUse
<1>6. \/ TryRetain(t) \/ Release(t) \/ RootDealloc(t) \/ FreeObject(t)
      \/ UNCHANGED <<owned, life, deallocator>>
  BY DEF Step, Storing, Loading, Dying, BeginStore, BeginInit, BeginDestroy, ReadOld, LockNext, Retry,
         InitializeFirst, Reinitialized, Register, Assign, BeginLoad, LoadLock, LoadAgain,
         LoadInitializes, LoadReinitialized, Initializing, Initialize, EndInitialize, ZeroOne, objects
<1> QED
  BY <1>1, <1>2, <1>3, <1>4, <1>5, <1>6

\* A dead object stays as it is unless its own deallocator moves, and nobody
\* loses a reference to another thread.
LEMMA LifeFate ==
    ASSUME TypeOK, CallInv, LockInv, OwnInv, NEW t \in Threads, Step(t)
    PROVE  /\ \A o \in Objects : life[o] = "dying" /\ deallocator[o] # t =>
                life'[o] = "dying" /\ deallocator'[o] = deallocator[o]
           /\ \A u \in Threads, o \in Objects :
                u # t /\ owned[u][o] > 0 => owned'[u][o] > 0
<1> USE DEF Goto, Begin, End, At
<1>t. /\ owned \in [Threads -> [Objects -> Nat]]
      /\ life \in [Objects -> {"alive", "dying", "freed"}]
      /\ deallocator \in [Objects -> Threads \cup {NoThread}]
  BY DEF TypeOK
<1>1. CASE TryRetain(t)
  <2>1. owned' = owned \/ \E row : owned' = [owned EXCEPT ![t] = row]
    <3>1. owned' = owned \/ owned' = [owned EXCEPT ![t][old[t]] = @ + 1]
      BY <1>1, TryRetainDoes DEF Retains
    <3> QED
      BY <3>1
  <2>2. life' = life /\ deallocator' = deallocator
    BY <1>1 DEF TryRetain
  <2> QED
    BY <1>t, <2>1, <2>2
<1>2. CASE Release(t)
  <2>1. PICK o \in Objects :
           /\ owned[t][o] > 0
           /\ owned' = [owned EXCEPT ![t][o] = @ - 1]
           /\ IF IsLast(t, o)
              THEN /\ life' = [life EXCEPT ![o] = "dying"]
                   /\ deallocator' = [deallocator EXCEPT ![o] = t]
              ELSE UNCHANGED <<life, deallocator>>
    BY <1>2 DEF Release
  <2>2. life[o] = "alive"
    BY <2>1 DEF OwnInv
  <2>3. \A p \in Objects : p # o => life'[p] = life[p] /\ deallocator'[p] = deallocator[p]
    BY <1>t, <2>1
  <2>4. \E row : owned' = [owned EXCEPT ![t] = row]
    BY <2>1
  <2>5. \A u \in Threads : u # t => owned'[u] = owned[u]
    BY <1>t, <2>4
  <2> QED
    BY <2>2, <2>3, <2>5
<1>3. CASE RootDealloc(t)
  <2>1. PICK o \in Objects :
           /\ deallocator[o] = t
           /\ life' = life \/ life' = [life EXCEPT ![o] = "freed"]
    BY <1>3 DEF RootDealloc
  <2>2. owned' = owned /\ deallocator' = deallocator
    BY <1>3 DEF RootDealloc
  <2> QED
    BY <1>t, <2>1, <2>2
<1>4. CASE FreeObject(t)
  <2>1. /\ life' = [life EXCEPT ![old[t]] = "freed"] /\ owned' = owned
        /\ deallocator' = deallocator /\ pc[t] = "clear"
    BY <1>4 DEF FreeObject
  <2>2. deallocator[old[t]] = t
    BY <2>1 DEF OwnInv
  <2> QED
    BY <1>t, <2>1, <2>2
<1>5. CASE UNCHANGED <<owned, life, deallocator>>
  BY <1>5
<1>6. \/ TryRetain(t) \/ Release(t) \/ RootDealloc(t) \/ FreeObject(t)
      \/ UNCHANGED <<owned, life, deallocator>>
  BY DEF Step, Storing, Loading, Dying, BeginStore, BeginInit, BeginDestroy, ReadOld, LockNext, Retry,
         InitializeFirst, Reinitialized, Register, Assign, BeginLoad, LoadLock, LoadAgain,
         LoadInitializes, LoadReinitialized, Initializing, Initialize, EndInitialize, ZeroOne, objects
<1> QED
  BY <1>1, <1>2, <1>3, <1>4, <1>5, <1>6

\* What the thread that moves stores, it may use.
LEMMA StoreOwn ==
    ASSUME TypeOK, CallInv, LockInv, OwnInv, NEW t \in Threads, Step(t),
           op'[t] \in {"store", "init"}, new'[t] \in Objects
    PROVE  MayUse(t, new[t])'
<1> USE DEF Goto, Begin, End, call
<1>t. /\ pc \in [Threads -> Places]
      /\ op \in [Threads -> {"none", "store", "init", "destroy", "load"}]
      /\ new \in [Threads -> Values] /\ Nil \notin Objects
  BY WeakRefsAssumption DEF TypeOK
<1>1. CASE op[t] \in {"store", "init"} /\ new'[t] = new[t]
  BY <1>1, LifeStep DEF OwnInv, MayUse
<1>2. CASE UNCHANGED <<owned, life, deallocator>> /\ MayUse(t, new'[t])
  BY <1>2 DEF MayUse
<1>3. BeginStore(t) => UNCHANGED <<owned, life, deallocator>> /\ MayUse(t, new'[t])
  <2> SUFFICES ASSUME BeginStore(t) PROVE UNCHANGED <<owned, life, deallocator>> /\ MayUse(t, new'[t])
    OBVIOUS
  <2>1. PICK l \in scope, o \in Values : MayUse(t, o) /\ Begin(t, "store", l, o, "read")
    BY DEF BeginStore, Values
  <2>2. new'[t] = o
    BY <1>t, <2>1
  <2> QED
    BY <2>1, <2>2 DEF BeginStore, objects
<1>4. BeginInit(t) => \/ UNCHANGED <<owned, life, deallocator>> /\ MayUse(t, new'[t])
                      \/ UNCHANGED <<op, new>>
  <2> SUFFICES ASSUME BeginInit(t), ~UNCHANGED <<op, new>>
               PROVE UNCHANGED <<owned, life, deallocator>> /\ MayUse(t, new'[t])
    OBVIOUS
  <2>1. PICK l \in Locations, o \in Values : MayUse(t, o) /\ Begin(t, "init", l, o, "lock")
    BY DEF BeginInit, Values
  <2>2. new'[t] = o
    BY <1>t, <2>1
  <2> QED
    BY <2>1, <2>2 DEF BeginInit, objects
<1>5. Register(t) => op' = op /\ new'[t] \in {new[t], Nil}
  BY <1>t, RegisterDoes DEF Register, Refers, StoresNil
<1>6. BeginDestroy(t) \/ BeginLoad(t) => op'[t] \in {"destroy", "load"}
  BY <1>t DEF BeginDestroy, BeginLoad
<1>7. Assign(t) \/ TryRetain(t) \/ FreeObject(t) => op'[t] = "none"
  BY <1>t DEF Assign, TryRetain, FreeObject
<1>8. LoadAgain(t) \/ LoadReinitialized(t) => op'[t] = "none" \/ UNCHANGED <<op, new>>
  BY <1>t, ReloadDoes DEF Reloads
<1>9. ReadOld(t) \/ LockNext(t) \/ Retry(t) \/ InitializeFirst(t) \/ LoadLock(t) \/ Release(t)
        \/ RootDealloc(t) \/ ZeroOne(t) \/ Reinitialized(t) \/ LoadInitializes(t)
        \/ Initializing(t) => UNCHANGED <<op, new>>
  BY InitializingDoes DEF ReadOld, LockNext, Retry, InitializeFirst, LoadLock, Release, RootDealloc,
     ZeroOne, Reinitialized, LoadInitializes
<1>10. UNCHANGED <<op, new>> \/ (op' = op /\ new'[t] = new[t]) \/ (UNCHANGED <<owned, life, deallocator>> /\ MayUse(t, new'[t]))
  BY <1>t, <1>3, <1>4, <1>5, <1>6, <1>7, <1>8, <1>9 DEF Step, Storing, Loading, Dying
<1> QED
  BY <1>1, <1>2, <1>10

LEMMA OwnStep ==
    ASSUME TypeOK, CallInv, LockInv, OwnInv, NEW t \in Threads, Step(t)
    PROVE  OwnInv'
<1> USE DEF Goto, Begin, End, call
<1>1. ASSUME NEW u \in Threads, op'[u] \in {"store", "init"}, new'[u] \in Objects
      PROVE  MayUse(u, new[u])'
  <2>1. CASE u = t
    BY <1>1, <2>1, StoreOwn
  <2>2. CASE u # t
    <3>1. op'[u] = op[u] /\ new'[u] = new[u]
      BY <2>2, OthersKept
    <3>2. MayUse(u, new[u])
      BY <1>1, <3>1 DEF OwnInv
    <3> QED
      BY <1>1, <3>1, <3>2, LifeStep DEF MayUse
  <2> QED
    BY <2>1, <2>2
<1>2. ASSUME NEW u \in Threads, pc'[u] = "clear"
      PROVE  life'[old'[u]] = "dying" /\ deallocator'[old'[u]] = u
  <2>1. CASE u # t
    <3>1. pc[u] = "clear" /\ old'[u] = old[u]
      BY <1>2, <2>1, OthersKept
    <3>2. old[u] \in Objects /\ life[old[u]] = "dying" /\ deallocator[old[u]] = u
      BY <3>1 DEF OwnInv, LockInv, Locked
    <3> QED
      BY <2>1, <3>1, <3>2, LifeFate
  <2>2. CASE u = t /\ ZeroOne(t)
    <3>1. UNCHANGED <<pc, old, life, deallocator>>
      BY <2>2 DEF ZeroOne, objects
    <3> QED
      BY <1>2, <2>2, <3>1 DEF OwnInv
  <2>3. CASE u = t /\ RootDealloc(t)
    <3>1. PICK o \in Objects :
             /\ life[o] = "dying" /\ deallocator[o] = t
             /\ IF o \in referenced THEN old' = [old EXCEPT ![t] = o] /\ life' = life ELSE pc' = pc
      BY <2>3 DEF RootDealloc
    <3>2. pc[t] = "idle" /\ deallocator' = deallocator
      BY <2>3 DEF RootDealloc, At
    <3>3. o \in referenced /\ old'[t] = o
      BY <1>2, <2>3, <3>1, <3>2 DEF TypeOK
    <3> QED
      BY <2>3, <3>1, <3>2, <3>3
  <2>4. CASE u = t /\ ~ZeroOne(t) /\ ~RootDealloc(t)
    <3>t. pc \in [Threads -> Places]
      BY DEF TypeOK
    <3>1. BeginStore(t) \/ BeginDestroy(t) \/ ReadOld(t) \/ Retry(t) \/ InitializeFirst(t)
             \/ Reinitialized(t) \/ LoadInitializes(t) \/ Assign(t) \/ BeginLoad(t) \/ LoadLock(t) \/ TryRetain(t) \/ FreeObject(t) \/ Register(t)
          => pc'[t] # "clear"
      BY <3>t DEF BeginStore, BeginDestroy, ReadOld, Retry, InitializeFirst, Reinitialized, Begins, Assign,
             LoadInitializes, BeginLoad, LoadLock, TryRetain, FreeObject, Register
    <3>2. BeginInit(t) \/ LockNext(t) \/ Release(t) => pc'[t] # "clear"
      BY <3>t DEF BeginInit, LockNext, Release, At
    <3>3. LoadAgain(t) \/ LoadReinitialized(t) => pc'[t] # "clear"
      BY <3>t, ReloadDoes DEF Reloads
    <3>4. Initializing(t) => pc'[t] # "clear"
      BY <3>t DEF Initializing, Initialize, EndInitialize, At
    <3> QED
      BY <1>2, <2>4, <3>1, <3>2, <3>3, <3>4 DEF Step, Storing, Loading, Dying
  <2> QED
    BY <2>1, <2>2, <2>3, <2>4
<1> QED
  BY <1>1, <1>2, LifeStep DEF OwnInv, MayUse

---------------------------------------------------------------------------
\* The variable a thread is about to assign is not one another thread is about
\* to assign: both would have the lock of the object it holds, or one of them
\* has the variable for itself.
LEMMA AssignAlone ==
    ASSUME IInv, NEW t \in Threads, NEW u \in Threads, u # t,
           pc[t] = "assign", pc[u] = "assign"
    PROVE  loc[u] # loc[t]
<1> SUFFICES ASSUME loc[u] = loc[t] PROVE FALSE
  OBVIOUS
<1>1. /\ op[t] \in {"store", "init", "destroy"} /\ op[u] \in {"store", "init", "destroy"}
      /\ Alone2(t, u) /\ Alone2(u, t)
  BY DEF IInv, CallInv, Placed, Storers
<1>2. HaveOld(t) /\ HaveOld(u)
  BY <1>1 DEF Alone2, HaveOld
<1>3. old[t] = old[u]
  BY <1>2 DEF IInv, TableInv, Assigning
<1> QED
  BY <1>2, <1>3 DEF IInv, LockInv, Locked

\* What another thread is about to store stays alive.
LEMMA AliveKept ==
    ASSUME IInv, NEW t \in Threads, Step(t), NEW u \in Threads, u # t,
           pc[u] = "assign", new[u] \in Objects
    PROVE  life'[new[u]] = "alive"
<1>1. life[new[u]] = "alive"
  BY DEF IInv, TableInv, Assigning
<1>2. op[u] \in {"store", "init"}
  BY WeakRefsAssumption DEF IInv, CallInv, Placed, Aimed, Storers
<1>3. owned[u][new[u]] > 0
  BY <1>1, <1>2 DEF IInv, OwnInv, MayUse
<1>4. owned'[u][new[u]] > 0
  BY <1>3, LifeFate DEF IInv
<1> QED
  BY <1>4, LifeStep DEF IInv

\* The tables and the variables as the next state finds them, for a thread that
\* was not about to assign and is not now, or for whatever it did to both.
LEMMA OthersAssign ==
    ASSUME IInv, NEW t \in Threads, Step(t), NEW u \in Threads, u # t,
           pc[u] = "assign" =>
              /\ HaveOld(u) => var'[loc[u]] = var[loc[u]]
              /\ HaveOld(u) /\ <<old[u], loc[u]>> \in registered' =>
                    <<old[u], loc[u]>> \in registered
              /\ new[u] \in Objects /\ <<new[u], loc[u]>> \in registered =>
                    <<new[u], loc[u]>> \in registered'
    PROVE  Assigning(u)'
<1>1. /\ pc'[u] = pc[u] /\ op'[u] = op[u] /\ loc'[u] = loc[u]
      /\ old'[u] = old[u] /\ new'[u] = new[u]
  BY OthersKept DEF IInv
<1>2. Assigning(u)
  BY DEF IInv, TableInv
<1>3. pc[u] = "assign" /\ new[u] \in Objects => life'[new[u]] = "alive"
  BY AliveKept
<1> QED
  BY <1>1, <1>2, <1>3 DEF Assigning, HaveOld

\* A thread that neither changes a table nor is in the middle of it.
LEMMA QuietStep ==
    ASSUME IInv, NEW t \in Threads, Step(t),
           UNCHANGED <<registered, var>>,
           \A o \in Objects, l \in Locations : Holds(l, o)' => Holds(l, o),
           \A o \in Objects, l \in Locations : Holds(l, o) => Holds(l, o)',
           referenced \subseteq referenced',
           pc[t] \notin {"assign", "clear"}, pc'[t] # "assign",
           \A o \in Objects, l \in Locations : <<o, l>> \in registered => life'[o] # "freed"
    PROVE  TableInv'
<1>0. \A u \in Threads : u # t =>
        /\ pc'[u] = pc[u] /\ op'[u] = op[u] /\ loc'[u] = loc[u]
        /\ old'[u] = old[u] /\ new'[u] = new[u]
  BY OthersKept DEF IInv
<1>c. \A o \in Objects : Begun(ClassOf[o]) => Begun(ClassOf[o])'
  BY BegunKept DEF IInv
<1>1. ASSUME NEW o \in Objects, NEW l \in Locations, <<o, l>> \in registered'
      PROVE  /\ o \in referenced' /\ Begun(ClassOf[o])' /\ life'[o] # "freed"
             /\ Clearing(o)' \/ Entering(o, l)' \/ Holds(l, o)'
  <2>1. /\ o \in referenced /\ Begun(ClassOf[o])
        /\ Clearing(o) \/ Entering(o, l) \/ Holds(l, o)
    BY <1>1 DEF IInv, TableInv
  <2>2. Clearing(o) => Clearing(o)'
    BY <1>0 DEF Clearing
  <2>3. Entering(o, l) => Entering(o, l)'
    BY <1>0 DEF Entering
  <2> QED
    BY <1>1, <1>c, <2>1, <2>2, <2>3
<1>2. ASSUME NEW o \in Objects, NEW l \in Locations, Holds(l, o)'
      PROVE  <<o, l>> \in registered' \/ Leaving(o, l)'
  <2>1. <<o, l>> \in registered \/ Leaving(o, l)
    BY <1>2 DEF IInv, TableInv
  <2>2. Leaving(o, l) => Leaving(o, l)'
    BY <1>0 DEF Leaving, HaveOld
  <2> QED
    BY <2>1, <2>2
<1>3. ASSUME NEW u \in Threads PROVE Assigning(u)'
  <2>1. CASE u = t
    BY <2>1 DEF Assigning
  <2>2. CASE u # t
    BY <2>2, OthersAssign
  <2> QED
    BY <2>1, <2>2
<1> QED
  BY <1>1, <1>2, <1>3 DEF TableInv

\* The change to the tables, under the locks of both objects.
LEMMA RegisterStep ==
    ASSUME IInv, NEW t \in Threads, Register(t)
    PROVE  TableInv'
<1> DEFINE refer == Refers(t)
           gone  == Gone(t)
           come  == IF refer THEN {<<new[t], loc[t]>>} ELSE {}
<1>1. /\ pc[t] = "locked" /\ ~NewIsLazy(t) /\ (HaveOld(t) => var[loc[t]] = old[t])
      /\ registered' = (registered \ gone) \cup come
      /\ referenced' = referenced \cup (IF refer THEN {new[t]} ELSE {})
      /\ new' = [new EXCEPT ![t] = IF refer THEN @ ELSE Nil]
      /\ pc' = [pc EXCEPT ![t] = "assign"]
      /\ UNCHANGED <<owned, life, deallocator, classes, scope, var, lock, op, loc, old>>
  <2>1. /\ pc[t] = "locked" /\ ~NewIsLazy(t) /\ (HaveOld(t) => var[loc[t]] = old[t])
        /\ pc' = [pc EXCEPT ![t] = "assign"]
        /\ UNCHANGED <<owned, life, deallocator, classes, scope, var, lock, op, loc, old>>
    BY DEF Register, At, Goto, objects
  <2>2. CASE Refers(t)
    BY <2>1, <2>2 DEF Refers
  <2>3. CASE ~Refers(t)
    <3>1. StoresNil(t)
      BY <2>3, RegisterDoes
    <3> QED
      BY <2>1, <2>3, <3>1 DEF StoresNil
  <2> QED
    BY <2>2, <2>3
<1>s. Step(t)
  BY DEF Step, Storing
<1>t. /\ pc \in [Threads -> Places]
      /\ new \in [Threads -> Values] /\ old[t] \in Values /\ new[t] \in Values
      /\ loc[t] \in Locations
  <2>1. Placed(t) /\ Aimed(t) /\ TypeOK
    BY DEF IInv, CallInv
  <2> QED
    BY <1>1, <2>1 DEF Placed, Aimed, Storers, TypeOK
<1>2. /\ pc'[t] = "assign" /\ new'[t] = IF refer THEN new[t] ELSE Nil
      /\ refer => HaveNew(t) /\ new[t] \in Objects /\ life[new[t]] = "alive"
  BY <1>1, <1>t DEF Values, Refers
<1> HIDE DEF refer
<1>g. \A l \in Locations, o \in Objects : <<o, l>> \in gone <=> HaveOld(t) /\ o = old[t] /\ l = loc[t]
  BY DEF Gone
<1> HIDE DEF gone
<1>c. \A o \in Objects : Begun(ClassOf[o]) => Begun(ClassOf[o])'
  BY <1>s, BegunKept DEF IInv
<1>b. refer => Begun(ClassOf[new[t]])
  <2> SUFFICES ASSUME refer PROVE Begun(ClassOf[new[t]])
    OBVIOUS
  <2>1. HaveNew(t) /\ new[t] # Nil /\ ClassOf[new[t]] # NoClass
    BY <1>2, WeakRefsAssumption
  <2>2. ClassOf[new[t]] = previous[t] \/ Initialized(ClassOf[new[t]])
    BY <1>1, <2>1 DEF NewIsLazy
  <2> QED
    BY <2>1, <2>2 DEF IInv, ClassInv, Begun
<1>3. \A u \in Threads : u # t => pc'[u] = pc[u] /\ new'[u] = new[u]
  BY <1>1, <1>t
<1>4. HaveOld(t) => lock[TableOf[old[t]]] = t
  BY <1>1 DEF IInv, LockInv, Locked
<1>5. refer => lock[TableOf[new[t]]] = t
  BY <1>1, <1>2 DEF IInv, LockInv, Locked
<1>6. ASSUME NEW o \in Objects, NEW l \in Locations, <<o, l>> \in registered'
      PROVE  /\ o \in referenced' /\ Begun(ClassOf[o])' /\ life'[o] # "freed"
             /\ Clearing(o)' \/ Entering(o, l)' \/ Holds(l, o)'
  <2>1. CASE <<o, l>> \in come
    <3>1. refer /\ o = new[t] /\ l = loc[t]
      BY <2>1
    <3>2. life[o] = "alive"
      BY <1>2, <3>1
    <3> QED
      BY <1>1, <1>2, <1>b, <1>c, <3>1, <3>2 DEF Entering
  <2>2. CASE <<o, l>> \in registered
    <3>1. /\ o \in referenced /\ Begun(ClassOf[o]) /\ life[o] # "freed"
          /\ Clearing(o) \/ Entering(o, l) \/ Holds(l, o)
      BY <2>2 DEF IInv, TableInv
    <3>2. Clearing(o) => Clearing(o)'
      BY <1>1, <1>3 DEF Clearing
    <3>3. Entering(o, l) => Entering(o, l)'
      BY <1>1, <1>3 DEF Entering
    <3> QED
      BY <1>1, <1>c, <3>1, <3>2, <3>3 DEF Holds
  <2> QED
    BY <1>1, <1>6, <2>1, <2>2
<1>7. ASSUME NEW o \in Objects, NEW l \in Locations, Holds(l, o)'
      PROVE  <<o, l>> \in registered' \/ Leaving(o, l)'
  <2>1. <<o, l>> \in registered \/ Leaving(o, l)
    BY <1>1, <1>7 DEF IInv, TableInv, Holds
  <2>2. Leaving(o, l) => Leaving(o, l)'
    BY <1>1, <1>3 DEF Leaving, HaveOld
  <2>3. <<o, l>> \in gone => Leaving(o, l)'
    BY <1>1, <1>2, <1>g DEF Leaving, HaveOld
  <2> QED
    BY <1>1, <2>1, <2>2, <2>3
<1>8. Assigning(t)'
  <2>1. HaveOld(t)' <=> HaveOld(t)
    BY <1>1 DEF HaveOld
  <2>2. ASSUME HaveOld(t), <<old[t], loc[t]>> \in registered' PROVE new'[t] = old[t]
    <3>1. <<old[t], loc[t]>> \in come
      <4>1. <<old[t], loc[t]>> \in gone
        BY <2>2 DEF gone, Gone
      <4> QED
        BY <1>1, <2>2, <4>1
    <3> QED
      BY <1>2, <3>1
  <2>3. ASSUME new'[t] \in Objects
        PROVE  <<new'[t], loc[t]>> \in registered' /\ life[new'[t]] = "alive"
    <3>1. refer
      BY <1>2, <2>3, WeakRefsAssumption
    <3> QED
      BY <1>1, <1>2, <3>1
  <2> QED
    BY <1>1, <2>1, <2>2, <2>3 DEF Assigning
<1>9. ASSUME NEW u \in Threads, u # t PROVE Assigning(u)'
  <2> SUFFICES ASSUME pc[u] = "assign"
               PROVE  /\ HaveOld(u) => var'[loc[u]] = var[loc[u]]
                      /\ HaveOld(u) /\ <<old[u], loc[u]>> \in registered' =>
                            <<old[u], loc[u]>> \in registered
                      /\ new[u] \in Objects /\ <<new[u], loc[u]>> \in registered =>
                            <<new[u], loc[u]>> \in registered'
    BY <1>s, <1>9, OthersAssign
  <2>1. /\ HaveOld(u) => lock[TableOf[old[u]]] = u
        /\ new[u] \in Objects => lock[TableOf[new[u]]] = u
    BY DEF IInv, LockInv, Locked
  <2>2. HaveOld(u) => <<old[u], loc[u]>> \notin come
    BY <1>5, <1>9, <2>1
  <2>3. new[u] \in Objects => <<new[u], loc[u]>> \notin gone
    <3>1. <<new[u], loc[u]>> \in gone => HaveOld(t) /\ new[u] = old[t]
      BY DEF gone, Gone
    <3> QED
      BY <1>4, <1>9, <2>1, <3>1
  <2> QED
    BY <1>1, <2>2, <2>3
<1> QED
  BY <1>6, <1>7, <1>8, <1>9 DEF TableInv

\* The change to the variable, after which it matches the tables again.
LEMMA AssignStep ==
    ASSUME IInv, NEW t \in Threads, Assign(t)
    PROVE  TableInv'
<1>1. /\ pc[t] = "assign" /\ var' = [var EXCEPT ![loc[t]] = new[t]]
      /\ scope' = IF op[t] = "destroy" THEN scope \ {loc[t]} ELSE scope \cup {loc[t]}
      /\ pc' = [pc EXCEPT ![t] = "idle"]
      /\ UNCHANGED <<owned, life, deallocator, classes, registered, referenced>>
  BY DEF Assign, At, End, Goto, objects, tables
<1>s. Step(t)
  BY DEF Step, Storing
<1>t. /\ pc \in [Threads -> Places]
      /\ var \in [Locations -> Values] /\ loc[t] \in Locations /\ Nil \notin Objects
      /\ op[t] \in {"store", "init", "destroy"}
      /\ op[t] = "init" => loc[t] \notin scope
      /\ op[t] = "destroy" => new[t] = Nil
  <2>1. Placed(t) /\ Aimed(t) /\ TypeOK
    BY DEF IInv, CallInv
  <2> QED
    BY <1>1, <2>1, WeakRefsAssumption DEF Placed, Aimed, Storers, TypeOK
<1>a. Assigning(t)
  BY DEF IInv, TableInv
<1>2. /\ pc'[t] = "idle" /\ var'[loc[t]] = new[t]
      /\ \A l \in Locations : l # loc[t] => var'[l] = var[l] /\ (l \in scope' <=> l \in scope)
      /\ new[t] \in Objects => loc[t] \in scope'
  BY <1>1, <1>t
<1>3. \A u \in Threads : u # t =>
        /\ pc'[u] = pc[u] /\ op'[u] = op[u] /\ loc'[u] = loc[u]
        /\ old'[u] = old[u] /\ new'[u] = new[u]
  BY <1>s, OthersKept DEF IInv
<1>c. \A o \in Objects : Begun(ClassOf[o]) => Begun(ClassOf[o])'
  BY <1>s, BegunKept DEF IInv
<1>6. ASSUME NEW o \in Objects, NEW l \in Locations, <<o, l>> \in registered'
      PROVE  /\ o \in referenced' /\ Begun(ClassOf[o])' /\ life'[o] # "freed"
             /\ Clearing(o)' \/ Entering(o, l)' \/ Holds(l, o)'
  <2>1. /\ o \in referenced /\ Begun(ClassOf[o]) /\ life[o] # "freed"
        /\ Clearing(o) \/ Entering(o, l) \/ Holds(l, o)
    BY <1>1, <1>6 DEF IInv, TableInv
  <2>2. Clearing(o) => Clearing(o)'
    BY <1>1, <1>3 DEF Clearing
  <2>3. Entering(o, l) => Entering(o, l)' \/ Holds(l, o)'
    BY <1>2, <1>3 DEF Entering, Holds
  <2>4. Holds(l, o) => Holds(l, o)'
    <3> SUFFICES ASSUME Holds(l, o) PROVE Holds(l, o)'
      OBVIOUS
    <3>1. CASE l # loc[t]
      BY <1>2, <3>1 DEF Holds
    <3>2. CASE l = loc[t]
      <4>1. HaveOld(t) /\ old[t] = o
        BY <1>1, <1>t, <1>a, <3>2 DEF HaveOld, Holds, Assigning
      <4>2. new[t] = o
        BY <1>1, <1>6, <1>a, <3>2, <4>1 DEF Assigning
      <4> QED
        BY <1>2, <3>2, <4>2 DEF Holds
    <3> QED
      BY <3>1, <3>2
  <2> QED
    BY <1>1, <1>c, <2>1, <2>2, <2>3, <2>4
<1>7. ASSUME NEW o \in Objects, NEW l \in Locations, Holds(l, o)'
      PROVE  <<o, l>> \in registered' \/ Leaving(o, l)'
  <2>1. CASE l = loc[t]
    BY <1>1, <1>2, <1>7, <1>a, <2>1 DEF Holds, Assigning
  <2>2. CASE l # loc[t]
    <3>1. <<o, l>> \in registered \/ Leaving(o, l)
      BY <1>2, <1>7, <2>2 DEF IInv, TableInv, Holds
    <3>2. Leaving(o, l) => Leaving(o, l)'
      BY <1>3, <2>2 DEF Leaving, HaveOld
    <3> QED
      BY <1>1, <3>1, <3>2
  <2> QED
    BY <2>1, <2>2
<1>8. ASSUME NEW u \in Threads PROVE Assigning(u)'
  <2>1. CASE u = t
    BY <1>2, <2>1 DEF Assigning
  <2>2. CASE u # t
    <3>1. pc[u] = "assign" => loc[u] # loc[t] /\ loc[u] \in Locations
      <4>1. pc[u] = "assign" => op[u] # "none"
        BY DEF IInv, CallInv, Placed, Storers
      <4> QED
        BY <1>1, <2>2, <4>1, AssignAlone DEF IInv, CallInv, Aimed
    <3> QED
      BY <1>1, <1>2, <1>s, <2>2, <3>1, OthersAssign
  <2> QED
    BY <2>1, <2>2
<1> QED
  BY <1>6, <1>7, <1>8 DEF TableInv

\* While an object's variables are zeroed its entries may be out of date, and
\* its table is locked.
LEMMA ZeroOneStep ==
    ASSUME IInv, NEW t \in Threads, ZeroOne(t)
    PROVE  TableInv'
<1>1. PICK l \in Locations : var[l] = old[t] /\ var' = [var EXCEPT ![l] = Nil]
  BY DEF ZeroOne, Referrers
<1>2. /\ pc[t] = "clear"
      /\ UNCHANGED <<owned, life, deallocator, classes, scope, registered, referenced, lock, pc>>
      /\ UNCHANGED <<op, loc, old, new>>
  BY DEF ZeroOne, At, objects, tables, call
<1>s. Step(t)
  BY DEF Step, Dying
<1>3. old[t] \in Objects /\ lock[TableOf[old[t]]] = t
  BY <1>2 DEF IInv, LockInv, Locked
<1>4. /\ var'[l] = Nil /\ Nil \notin Objects
      /\ \A m \in Locations : m # l => var'[m] = var[m]
  BY <1>1, WeakRefsAssumption DEF IInv, TypeOK
<1>c. \A o \in Objects : Begun(ClassOf[o]) => Begun(ClassOf[o])'
  BY <1>s, BegunKept DEF IInv
<1>6. ASSUME NEW o \in Objects, NEW m \in Locations, <<o, m>> \in registered'
      PROVE  /\ o \in referenced' /\ Begun(ClassOf[o])' /\ life'[o] # "freed"
             /\ Clearing(o)' \/ Entering(o, m)' \/ Holds(m, o)'
  <2>1. /\ o \in referenced /\ Begun(ClassOf[o]) /\ life[o] # "freed"
        /\ Clearing(o) \/ Entering(o, m) \/ Holds(m, o)
    BY <1>2, <1>6 DEF IInv, TableInv
  <2>2. (Clearing(o) => Clearing(o)') /\ (Entering(o, m) => Entering(o, m)')
    BY <1>2 DEF Clearing, Entering
  <2>3. Holds(m, o) => Holds(m, o)' \/ Clearing(o)
    BY <1>1, <1>2, <1>4 DEF Holds, Clearing
  <2> QED
    BY <1>2, <1>c, <2>1, <2>2, <2>3
<1>7. ASSUME NEW o \in Objects, NEW m \in Locations, Holds(m, o)'
      PROVE  <<o, m>> \in registered' \/ Leaving(o, m)'
  <2>1. Holds(m, o)
    BY <1>2, <1>4, <1>7 DEF Holds
  <2>2. <<o, m>> \in registered \/ Leaving(o, m)
    BY <2>1 DEF IInv, TableInv
  <2> QED
    BY <1>2, <2>2 DEF Leaving, HaveOld
<1>8. ASSUME NEW u \in Threads PROVE Assigning(u)'
  <2>1. CASE pc[u] # "assign"
    BY <1>2, <2>1 DEF Assigning
  <2>2. CASE pc[u] = "assign"
    <3>1. u # t
      BY <1>2, <2>2
    <3>2. loc[u] \in Locations
      BY <2>2 DEF IInv, CallInv, Placed, Aimed, Storers
    <3>3. HaveOld(u) => loc[u] # l
      <4> SUFFICES ASSUME HaveOld(u), loc[u] = l PROVE FALSE
        OBVIOUS
      <4>1. old[u] = old[t]
        BY <1>1, <2>2 DEF IInv, TableInv, Assigning
      <4> QED
        BY <1>3, <2>2, <3>1, <4>1 DEF IInv, LockInv, Locked
    <3> QED
      BY <1>2, <1>4, <1>s, <3>1, <3>2, <3>3, OthersAssign
  <2> QED
    BY <2>1, <2>2
<1> QED
  BY <1>6, <1>7, <1>8 DEF TableInv

\* When the object goes no variable holds it, and its entries go first.
LEMMA FreeStep ==
    ASSUME IInv, NEW t \in Threads, FreeObject(t)
    PROVE  TableInv'
<1>1. /\ pc[t] = "clear" /\ \A l \in Referrers(old[t]) : var[l] # old[t]
      /\ registered' = {r \in registered : r[1] # old[t]}
      /\ life' = [life EXCEPT ![old[t]] = "freed"]
      /\ pc' = [pc EXCEPT ![t] = "idle"]
      /\ UNCHANGED <<owned, deallocator, classes, scope, var, referenced>>
  BY DEF FreeObject, At, End, Goto
<1>s. Step(t)
  BY DEF Step, Dying
<1>2. old[t] \in Objects /\ lock[TableOf[old[t]]] = t /\ life[old[t]] = "dying"
  BY <1>1 DEF IInv, LockInv, Locked, OwnInv
<1>3. /\ pc'[t] = "idle" /\ \A o \in Objects : o # old[t] => life'[o] = life[o]
      /\ \A o \in Objects, l \in Locations :
           <<o, l>> \in registered' <=> <<o, l>> \in registered /\ o # old[t]
  BY <1>1 DEF IInv, TypeOK
<1>4. \A u \in Threads : u # t =>
        /\ pc'[u] = pc[u] /\ op'[u] = op[u] /\ loc'[u] = loc[u]
        /\ old'[u] = old[u] /\ new'[u] = new[u]
  BY <1>s, OthersKept DEF IInv
<1>c. \A o \in Objects : Begun(ClassOf[o]) => Begun(ClassOf[o])'
  BY <1>s, BegunKept DEF IInv
<1>6. ASSUME NEW o \in Objects, NEW l \in Locations, <<o, l>> \in registered'
      PROVE  /\ o \in referenced' /\ Begun(ClassOf[o])' /\ life'[o] # "freed"
             /\ Clearing(o)' \/ Entering(o, l)' \/ Holds(l, o)'
  <2>1. /\ o \in referenced /\ Begun(ClassOf[o]) /\ life[o] # "freed" /\ o # old[t]
        /\ Clearing(o) \/ Entering(o, l) \/ Holds(l, o)
    BY <1>3, <1>6 DEF IInv, TableInv
  <2>2. Clearing(o) => Clearing(o)'
    BY <1>4, <2>1 DEF Clearing
  <2>3. Entering(o, l) => Entering(o, l)'
    BY <1>1, <1>4 DEF Entering
  <2>4. Holds(l, o) => Holds(l, o)'
    BY <1>1 DEF Holds
  <2> QED
    BY <1>1, <1>3, <1>c, <2>1, <2>2, <2>3, <2>4
<1>7. ASSUME NEW o \in Objects, NEW l \in Locations, Holds(l, o)'
      PROVE  <<o, l>> \in registered' \/ Leaving(o, l)'
  <2>1. Holds(l, o)
    BY <1>1, <1>7 DEF Holds
  <2>2. <<o, l>> \in registered \/ Leaving(o, l)
    BY <2>1 DEF IInv, TableInv
  <2>3. Leaving(o, l) => Leaving(o, l)' /\ o # old[t]
    <3> SUFFICES ASSUME Leaving(o, l) PROVE Leaving(o, l)' /\ o # old[t]
      OBVIOUS
    <3>1. PICK u \in Threads : pc[u] = "assign" /\ HaveOld(u) /\ old[u] = o /\ loc[u] = l
      BY DEF Leaving
    <3>2. u # t
      BY <1>1, <3>1
    <3>3. o # old[t]
      BY <1>2, <3>1, <3>2 DEF IInv, LockInv, Locked
    <3> QED
      BY <1>4, <3>1, <3>2, <3>3 DEF Leaving, HaveOld
  <2>4. o = old[t] => <<o, l>> \notin registered
    BY <1>1, <2>1 DEF Holds, Referrers
  <2> QED
    BY <1>3, <2>2, <2>3, <2>4
<1>8. ASSUME NEW u \in Threads PROVE Assigning(u)'
  <2>1. CASE u = t
    BY <1>3, <2>1 DEF Assigning
  <2>2. CASE u # t
    <3>1. pc[u] = "assign" /\ new[u] \in Objects => new[u] # old[t] /\ loc[u] \in Locations
      <4> SUFFICES ASSUME pc[u] = "assign", new[u] \in Objects
                   PROVE  new[u] # old[t] /\ loc[u] \in Locations
        OBVIOUS
      <4>1. life[new[u]] = "alive"
        BY DEF IInv, TableInv, Assigning
      <4>2. loc[u] \in Locations
        BY DEF IInv, CallInv, Placed, Aimed, Storers
      <4> QED
        BY <1>2, <4>1, <4>2
    <3> QED
      BY <1>1, <1>3, <1>s, <2>2, <3>1, OthersAssign
  <2> QED
    BY <2>1, <2>2
<1> QED
  BY <1>6, <1>7, <1>8 DEF TableInv

\* An object without weak references is freed without its table's lock: it has
\* no entry, as its bit is never taken back.
LEMMA RootDeallocStep ==
    ASSUME IInv, NEW t \in Threads, RootDealloc(t)
    PROVE  TableInv'
<1>1. PICK c \in Objects : IF c \in referenced THEN life' = life
                                              ELSE life' = [life EXCEPT ![c] = "freed"]
  BY DEF RootDealloc
<1>2. /\ pc[t] = "idle"
      /\ pc' = pc \/ pc' = [pc EXCEPT ![t] = "clear"]
      /\ UNCHANGED <<scope, var, registered, referenced>>
  BY DEF RootDealloc, At, Goto, tables
<1>s. Step(t)
  BY DEF Step, Dying
<1>3. pc'[t] \in {"idle", "clear"}
  BY <1>2 DEF IInv, TypeOK
<1>4. ASSUME NEW o \in Objects, NEW l \in Locations, <<o, l>> \in registered
      PROVE  life'[o] # "freed"
  <2>1. o \in referenced /\ life[o] # "freed"
    BY <1>4 DEF IInv, TableInv
  <2> QED
    BY <1>1, <2>1 DEF IInv, TypeOK
<1>5. \A o \in Objects, l \in Locations : Holds(l, o)' <=> Holds(l, o)
  BY <1>2 DEF Holds
<1>6. pc[t] \notin {"assign", "clear"} /\ pc'[t] # "assign"
  BY <1>2, <1>3
<1> QED
  BY <1>2, <1>4, <1>5, <1>6, <1>s, QuietStep

\* Every action keeps the tables in order.
LEMMA TableStep ==
    ASSUME IInv, NEW t \in Threads, Step(t)
    PROVE  TableInv'
<1> USE DEF Goto, Begin, End, At
<1>t. /\ pc \in [Threads -> Places]
      /\ life \in [Objects -> {"alive", "dying", "freed"}]
  BY DEF IInv, TypeOK
<1>f. \A o \in Objects, l \in Locations : <<o, l>> \in registered => life[o] # "freed"
  BY DEF IInv, TableInv
<1>q. ASSUME UNCHANGED <<registered, var>>,
             scope' = scope \/ \E l \in Locations \ scope : scope' = scope \cup {l},
             referenced' = referenced,
             pc[t] \notin {"assign", "clear"}, pc'[t] # "assign",
             life' = life \/ \E o \in Objects : life' = [life EXCEPT ![o] = "dying"]
      PROVE  TableInv'
  <2>1. \A o \in Objects, l \in Locations : Holds(l, o)' <=> Holds(l, o)
    BY <1>q, WeakRefsAssumption DEF Holds, IInv, CallInv
  <2>2. \A o \in Objects, l \in Locations : <<o, l>> \in registered => life'[o] # "freed"
    BY <1>q, <1>f, <1>t
  <2> QED
    BY <1>q, <2>1, <2>2, QuietStep
<1>1. CASE BeginInit(t)
  <2>1. /\ pc[t] = "idle" /\ UNCHANGED <<registered, referenced, var, life>>
        /\ scope' = scope \/ \E l \in Locations \ scope : scope' = scope \cup {l}
        /\ pc' = pc \/ pc' = [pc EXCEPT ![t] = "lock"]
    BY <1>1 DEF BeginInit, tables, objects
  <2>2. pc'[t] # "assign"
    BY <1>t, <2>1
  <2> QED
    BY <1>q, <2>1, <2>2
<1>2. CASE Release(t)
  <2>1. /\ pc[t] = "idle" /\ UNCHANGED <<registered, referenced, var, scope, pc>>
        /\ life' = life \/ \E o \in Objects : life' = [life EXCEPT ![o] = "dying"]
    BY <1>2 DEF Release, tables
  <2> QED
    BY <1>q, <2>1
<1>3. CASE LoadAgain(t) \/ LoadReinitialized(t)
  <2>1. /\ pc[t] \in {"load", "load initialize"} /\ UNCHANGED <<registered, referenced, var, scope, life>>
        /\ pc'[t] # "assign"
    BY <1>3, <1>t, ReloadDoes DEF Reloads
  <2> QED
    BY <1>q, <2>1
<1>4. CASE \/ BeginStore(t) \/ BeginDestroy(t) \/ ReadOld(t) \/ LockNext(t) \/ Retry(t)
           \/ InitializeFirst(t) \/ Reinitialized(t) \/ BeginLoad(t) \/ LoadLock(t) \/ TryRetain(t)
           \/ LoadInitializes(t)
  <2>1. UNCHANGED <<registered, referenced, var, scope, life>>
    BY <1>4 DEF BeginStore, BeginDestroy, ReadOld, LockNext, Retry, InitializeFirst, Reinitialized,
                BeginLoad, LoadLock, TryRetain, LoadInitializes, tables, objects
  <2>2. pc[t] \notin {"assign", "clear"}
    BY <1>4 DEF BeginStore, BeginDestroy, ReadOld, LockNext, Retry, InitializeFirst, Reinitialized,
                BeginLoad, LoadLock, TryRetain, LoadInitializes
  <2>3. LockNext(t) => pc'[t] # "assign"
    BY <1>t, <2>2 DEF LockNext
  <2>4. ~LockNext(t) => pc'[t] # "assign"
    BY <1>4, <1>t DEF BeginStore, BeginDestroy, ReadOld, Retry, InitializeFirst, Reinitialized, Begins,
                BeginLoad, LoadLock, TryRetain, LoadInitializes
  <2> QED
    BY <1>q, <2>1, <2>2, <2>3, <2>4
<1>5. CASE Initializing(t)
  <2>1. UNCHANGED <<registered, referenced, var, scope, life, pc>>
    BY <1>5, InitializingDoes DEF objects, tables
  <2>2. pc[t] = "idle"
    BY <1>5 DEF Initializing, Initialize, EndInitialize
  <2> QED
    BY <1>q, <2>1, <2>2
<1> QED
  BY <1>1, <1>2, <1>3, <1>4, <1>5, RegisterStep, AssignStep, ZeroOneStep, FreeStep, RootDeallocStep
     DEF Step, Storing, Loading, Dying

---------------------------------------------------------------------------
LEMMA Start == Init => IInv
<1> SUFFICES ASSUME Init PROVE IInv
  OBVIOUS
<1>t. TypeOK
  <2>1. owned \in [Threads -> [Objects -> Nat]]
    <3>1. owned \in [Threads -> [Objects -> 0..1]]
      BY DEF Init
    <3>2. [Objects -> 0..1] \subseteq [Objects -> Nat]
      OBVIOUS
    <3> QED
      BY <3>1, <3>2
  <2> QED
    BY <2>1 DEF Init, TypeOK, Values, Storers, Places
<1>1. CallInv
  BY DEF Init, CallInv, Placed, Aimed, Alone2, Storers
<1>c. ClassInv
  BY DEF Init, ClassInv
<1>2. LockInv
  BY DEF Init, LockInv, Locked
<1>3. OwnInv
  <2>1. ASSUME NEW o \in Objects PROVE \E t \in Threads : owned[t][o] > 0
    <3> DEFINE S == {t \in Threads : owned[t][o] = 1}
    <3>1. Cardinality(S) = 1
      BY DEF Init
    <3>2. S # {}
      BY <3>1, FS_EmptySet
    <3>3. 1 > 0
      OBVIOUS
    <3> QED
      BY <3>2, <3>3
  <2> QED
    BY <2>1 DEF Init, OwnInv
<1>4. TableInv
  BY WeakRefsAssumption DEF Init, TableInv, Assigning, Holds
<1> QED
  BY <1>t, <1>1, <1>c, <1>2, <1>3, <1>4 DEF IInv

LEMMA Move == IInv /\ [Next]_vars => IInv'
<1>1. ASSUME IInv, NEW t \in Threads, Step(t) PROVE IInv'
  BY <1>1, TypeStep, CallStep, ClassStep, LockStep, OwnStep, TableStep DEF IInv
<1>2. ASSUME IInv, UNCHANGED vars PROVE IInv'
  <2> USE <1>2 DEF vars, objects, classes, tables, call
  <2>1. TypeOK'
    BY DEF IInv, TypeOK
  <2>2. CallInv'
    BY DEF IInv, CallInv, Placed, Aimed, Alone2
  <2>6. ClassInv'
    BY DEF IInv, ClassInv, Begun, Initialized
  <2>3. LockInv'
    BY DEF IInv, LockInv, Locked, HaveOld, HaveNew
  <2>4. OwnInv'
    BY DEF IInv, OwnInv, MayUse
  <2>5. TableInv'
    BY DEF IInv, TableInv, Clearing, Entering, Leaving, Holds, Assigning, HaveOld, Begun, Initialized
  <2> QED
    BY <2>1, <2>2, <2>3, <2>4, <2>5, <2>6 DEF IInv
<1> QED
  BY <1>1, <1>2 DEF Next, Step

LEMMA Invariance == Spec => []IInv
BY Start, Move, PTL DEF Spec

\* Every variable has its type, for any number of threads and objects.
THEOREM TypeCorrect == Spec => []TypeOK
<1>1. IInv => TypeOK
  BY DEF IInv
<1> QED
  BY <1>1, Invariance, PTL

\* Whenever an object's side table is unlocked it lists exactly the variables
\* that hold the object.  An object that was freed has none, nor has one whose
\* class has not been sent +initialize: what storeWeak with its retries,
\* weak_clear_no_lock and rootDealloc's fast path owe each other.
THEOREM TablesAgree == Spec => []TablesMatchVariables
<1>1. IInv => TablesMatchVariables
  <2> SUFFICES ASSUME IInv, NEW o \in Objects, lock[TableOf[o]] = NoThread
               PROVE  /\ Referrers(o) = {l \in scope : var[l] = o}
                      /\ life[o] = "freed" \/ ~Begun(ClassOf[o]) => Referrers(o) = {}
    BY DEF TablesMatchVariables
  <2>1. \A t \in Threads : lock[TableOf[o]] # t
    BY WeakRefsAssumption
  <2>2. ~Clearing(o)
    BY <2>1 DEF Clearing, IInv, LockInv, Locked
  <2>3. \A l \in Locations : ~Entering(o, l) /\ ~Leaving(o, l)
    BY <2>1 DEF Entering, Leaving, IInv, LockInv, Locked
  <2>4. \A l \in Locations : <<o, l>> \in registered <=> Holds(l, o)
    BY <2>2, <2>3 DEF IInv, TableInv
  <2>5. Referrers(o) = {l \in scope : var[l] = o}
    BY <2>4 DEF Referrers, Holds, IInv, TypeOK
  <2>6. life[o] = "freed" \/ ~Begun(ClassOf[o]) => Referrers(o) = {}
    BY DEF IInv, TableInv, Referrers
  <2> QED
    BY <2>5, <2>6
<1> QED
  BY <1>1, Invariance, PTL

---------------------------------------------------------------------------
\* The refinement: what a load may return is the abstract value.
LEMMA ValueSame ==
    ASSUME TypeOK, TypeOK', UNCHANGED owned,
           \A l \in Locations : \/ var'[l] = var[l]
                                \/ /\ var[l] = Nil \/ life[var[l]] # "alive"
                                   /\ var'[l] = Nil,
           \A o \in Objects : life'[o] = "alive" <=> life[o] = "alive"
    PROVE  UNCHANGED <<Value, owned>>
<1>1. ASSUME NEW l \in Locations
      PROVE  (IF var[l] # Nil /\ life[var[l]] = "alive" THEN var[l] ELSE Nil)
              = (IF var'[l] # Nil /\ life'[var'[l]] = "alive" THEN var'[l] ELSE Nil)
  <2>1. var[l] \in Objects \cup {Nil} /\ var'[l] \in Objects \cup {Nil}
    BY DEF TypeOK, Values
  <2>2. CASE var'[l] = var[l]
    BY <2>1, <2>2
  <2>3. CASE var'[l] = Nil /\ (var[l] = Nil \/ life[var[l]] # "alive")
    BY <2>3
  <2> QED
    BY <2>2, <2>3
<1> QED
  BY <1>1 DEF Value

LEMMA AssignStores ==
    ASSUME IInv, NEW t \in Threads, Assign(t)
    PROVE  Zeroing!Store(loc[t], new[t]) /\ loc[t] \in Locations /\ new[t] \in Values
<1>1. /\ pc[t] = "assign" /\ var' = [var EXCEPT ![loc[t]] = new[t]]
      /\ UNCHANGED <<owned, life>>
  BY DEF Assign, At, objects
<1>2. /\ loc[t] \in Locations /\ new[t] \in Values /\ Nil \notin Objects
      /\ var \in [Locations -> Values]
  BY <1>1, WeakRefsAssumption DEF IInv, TypeOK, CallInv, Placed, Aimed, Storers
<1>3. new[t] \in Objects => life[new[t]] = "alive"
  BY <1>1 DEF IInv, TableInv, Assigning
<1>4. new[t] = Nil \/ Zeroing!Held(new[t])
  BY <1>2, <1>3 DEF IInv, OwnInv, Zeroing!Held, Values
<1>5. ASSUME NEW l \in Locations
      PROVE  (IF var'[l] # Nil /\ life'[var'[l]] = "alive" THEN var'[l] ELSE Nil)
              = [Value EXCEPT ![loc[t]] = new[t]][l]
  <2>1. CASE l = loc[t]
    BY <1>1, <1>2, <1>3, <2>1 DEF Value, Values
  <2>2. CASE l # loc[t]
    BY <1>1, <1>2, <2>2 DEF Value
  <2> QED
    BY <2>1, <2>2
<1>6. Value' = [l \in Locations |-> [Value EXCEPT ![loc[t]] = new[t]][l]]
  BY <1>5 DEF Value
<1>7. Value' = [Value EXCEPT ![loc[t]] = new[t]]
  BY <1>6 DEF Value
<1> QED
  BY <1>1, <1>2, <1>4, <1>7 DEF Zeroing!Store

LEMMA TryRetainLoads ==
    ASSUME IInv, NEW t \in Threads, TryRetain(t)
    PROVE  \/ UNCHANGED <<Value, owned>>
           \/ loc[t] \in Locations /\ Zeroing!Load(t, loc[t])
<1>1. /\ pc[t] = "load" /\ var[loc[t]] = old[t]
      /\ UNCHANGED <<life, var>>
  BY DEF TryRetain, At
<1>2. loc[t] \in Locations /\ old[t] \in Objects /\ Nil \notin Objects
  BY <1>1, WeakRefsAssumption DEF IInv, CallInv, Placed, Aimed
<1>3. UNCHANGED Value
  BY <1>1 DEF Value
<1>4. CASE Retains(t)
  <2>1. Value[loc[t]] = old[t]
    BY <1>1, <1>2, <1>4 DEF Value, Retains
  <2> QED
    BY <1>1, <1>2, <1>3, <1>4, <2>1 DEF Zeroing!Load, Retains
<1>5. CASE owned' = owned
  BY <1>3, <1>5
<1> QED
  BY <1>4, <1>5, TryRetainDoes

LEMMA ReleaseReleases ==
    ASSUME IInv, NEW t \in Threads, Release(t)
    PROVE  \E o \in Objects : Zeroing!Release(t, o)
<1>1. PICK o \in Objects :
         /\ owned[t][o] > 0
         /\ owned' = [owned EXCEPT ![t][o] = @ - 1]
         /\ life' = life \/ life' = [life EXCEPT ![o] = "dying"]
  BY DEF Release
<1>2. var' = var
  BY DEF Release
<1>3. life[o] = "alive" /\ (life'[o] = "alive" <=> Zeroing!Held(o)')
  BY <1>1, LifeStep DEF IInv, OwnInv, Step, Dying, Zeroing!Held
<1>4. \A p \in Objects : p # o => life'[p] = life[p]
  BY <1>1 DEF IInv, TypeOK
<1>5. ASSUME NEW l \in Locations
      PROVE  (IF var'[l] # Nil /\ life'[var'[l]] = "alive" THEN var'[l] ELSE Nil)
              = IF Value[l] = o /\ ~Zeroing!Held(o)' THEN Nil ELSE Value[l]
  <2>1. var[l] \in Objects \cup {Nil} /\ Nil \notin Objects
    BY WeakRefsAssumption DEF IInv, TypeOK, Values
  <2>2. CASE var[l] = o
    BY <1>2, <1>3, <2>1, <2>2 DEF Value
  <2>3. CASE var[l] = Nil
    BY <1>2, <2>1, <2>3 DEF Value
  <2>4. CASE var[l] \in Objects /\ var[l] # o
    BY <1>2, <1>4, <2>1, <2>4 DEF Value
  <2> QED
    BY <2>1, <2>2, <2>3, <2>4
<1>6. Value' = [l \in Locations |-> IF Value[l] = o /\ ~Zeroing!Held(o)' THEN Nil ELSE Value[l]]
  BY <1>5 DEF Value
<1> QED
  BY <1>1, <1>6 DEF Zeroing!Release

LEMMA StepImplements ==
    ASSUME IInv, IInv', NEW t \in Threads, Step(t)
    PROVE  [Zeroing!Next]_<<Value, owned>>
<1>t. TypeOK /\ TypeOK'
  BY DEF IInv
<1>1. CASE Assign(t)
  BY <1>1, AssignStores DEF Zeroing!Next, Values
<1>2. CASE TryRetain(t)
  BY <1>2, TryRetainLoads DEF Zeroing!Next
<1>3. CASE Release(t)
  BY <1>3, ReleaseReleases DEF Zeroing!Next
<1>4. CASE ZeroOne(t)
  <2>1. life[old[t]] # "alive" /\ UNCHANGED <<owned, life>>
    BY <1>4 DEF ZeroOne, At, objects, IInv, OwnInv
  <2>2. PICK l \in Locations : var[l] = old[t] /\ var' = [var EXCEPT ![l] = Nil]
    BY <1>4 DEF ZeroOne, Referrers
  <2>3. \A m \in Locations : var'[m] = var[m] \/ (life[var[m]] # "alive" /\ var'[m] = Nil)
    BY <1>t, <2>1, <2>2 DEF TypeOK
  <2>4. \A o \in Objects : life'[o] = "alive" <=> life[o] = "alive"
    BY <2>1
  <2>5. UNCHANGED <<Value, owned>>
    BY <1>t, <2>1, <2>3, <2>4, ValueSame
  <2> QED
    BY <2>5
<1>5. CASE RootDealloc(t) \/ FreeObject(t)
  <2>1. UNCHANGED <<owned, var>>
    BY <1>5 DEF RootDealloc, FreeObject
  <2>2. \A o \in Objects : life'[o] = "alive" <=> life[o] = "alive"
    BY <2>1 DEF IInv, OwnInv
  <2>3. UNCHANGED <<Value, owned>>
    BY <1>t, <2>1, <2>2, ValueSame
  <2> QED
    BY <2>3
<1>6. CASE UNCHANGED <<owned, life, var>>
  <2>1. UNCHANGED <<Value, owned>>
    BY <1>6 DEF Value
  <2> QED
    BY <2>1
<1>7. \/ Assign(t) \/ TryRetain(t) \/ Release(t) \/ ZeroOne(t) \/ RootDealloc(t) \/ FreeObject(t)
      \/ UNCHANGED <<owned, life, var>>
  BY DEF Step, Storing, Loading, Dying, BeginStore, BeginInit, BeginDestroy, ReadOld, LockNext, Retry,
         InitializeFirst, Reinitialized, Register, BeginLoad, LoadLock, LoadAgain, LoadInitializes,
         LoadReinitialized, Initializing, Initialize, EndInitialize, objects
<1> QED
  BY <1>1, <1>2, <1>3, <1>4, <1>5, <1>6, <1>7

\* Weak variables are zeroed all at once when the last reference goes, as seen
\* by loads: storeWeak, objc_loadWeakRetained, release and the deallocation
\* that zeroes variables one by one implement module ZeroingWeak.
THEOREM WeakVariablesZero == Spec => ImplementsZeroing
<1>1. Init => Zeroing!Init
  <2>1. Init => owned \in [Threads -> [Objects -> Nat]]
    BY Start DEF IInv, TypeOK
  <2>2. Init => Value = [l \in Locations |-> Nil]
    BY DEF Init, Value
  <2> QED
    BY <2>1, <2>2 DEF Zeroing!Init
<1>2. IInv /\ IInv' /\ [Next]_vars => [Zeroing!Next]_<<Value, owned>>
  <2> SUFFICES ASSUME IInv, IInv', [Next]_vars PROVE [Zeroing!Next]_<<Value, owned>>
    OBVIOUS
  <2>1. ASSUME NEW t \in Threads, Step(t) PROVE [Zeroing!Next]_<<Value, owned>>
    BY <2>1, StepImplements
  <2>2. CASE UNCHANGED vars
    <3>1. UNCHANGED <<owned, life, var>>
      BY <2>2 DEF vars, objects
    <3>2. UNCHANGED <<Value, owned>>
      BY <3>1 DEF Value
    <3> QED
      BY <3>2
  <2> QED
    BY <2>1, <2>2 DEF Next, Step
<1> QED
  BY <1>1, <1>2, Invariance, PTL DEF Spec, ImplementsZeroing, Zeroing!Spec

---------------------------------------------------------------------------
\* The order of the locks.  A thread between calls has none; one that takes the
\* locks of a store has only such as it needs, lower ones first.
Ordered(t) ==
    /\ pc[t] \in {"idle", "read", "initialize", "load lock", "load initialize"} =>
         \A T \in Tables : lock[T] # t
    /\ pc[t] = "lock" =>
         /\ Missing(t) # {}
         /\ \A T \in Tables : lock[T] = t =>
              T \in Needed(t) /\ \A M \in Missing(t) : T < M

OrderInv == \A t \in Threads : Ordered(t)

LEMMA Least ==
    ASSUME NEW W \in SUBSET Nat, W # {}
    PROVE  \E x \in W : \A y \in W : x <= y
<1>1. PICK x \in W : \A y \in W : ~(<<y, x>> \in OpToRel(<, Nat))
  BY WFMin, NatLessThanWellFounded, Zenon
<1>2. \A y \in W : ~(y < x)
  BY <1>1, Zenon DEF OpToRel
<1>3. \A y \in W : x <= y
  BY <1>2
<1> QED
  BY <1>3

LEMMA NeededTables ==
    ASSUME TypeOK, NEW t \in Threads
    PROVE  Needed(t) \subseteq Tables
<1>1. TableOf[old[t]] \in Tables /\ TableOf[new[t]] \in Tables
  BY WeakRefsAssumption DEF TypeOK, Values
<1> QED
  BY <1>1 DEF Needed

\* lockTwo takes the lower of the locks that are missing.
LEMMA FirstIsLeast ==
    ASSUME TypeOK, NEW t \in Threads, Missing(t) # {}
    PROVE  /\ FirstOf(Missing(t), t) \in Missing(t)
           /\ \A M \in Missing(t) : FirstOf(Missing(t), t) <= M
           /\ Missing(t) \subseteq Tables
<1>1. Missing(t) \subseteq Tables /\ Missing(t) \subseteq Nat
  BY NeededTables, WeakRefsAssumption DEF Missing
<1>2. \E x \in Missing(t) : \A y \in Missing(t) : x <= y
  BY <1>1, Least
<1> QED
  BY <1>1, <1>2 DEF FirstOf, Min

LEMMA NeededNext ==
    ASSUME TypeOK', NEW t \in Threads
    PROVE  Needed(t)' \subseteq Tables
<1>1. TableOf[old'[t]] \in Tables /\ TableOf[new'[t]] \in Tables
  BY WeakRefsAssumption DEF TypeOK, Values
<1> QED
  BY <1>1 DEF Needed, HaveOld, HaveNew

\* Who has no lock but gives all back, or goes on as it was, has none after.
LEMMA OrderOwn ==
    ASSUME TypeOK, CallInv, OrderInv, NEW t \in Threads, Step(t)
    PROVE  Ordered(t)'
<1> USE DEF Goto, Begin, End, At, call, Unlock
<1>t. /\ TypeOK /\ TypeOK' /\ Ordered(t) /\ t # NoThread /\ Placed(t)'
      /\ pc \in [Threads -> Places]
  BY TypeStep, CallStep, WeakRefsAssumption DEF OrderInv, CallInv, TypeOK
<1>n. op'[t] \in {"store", "init", "destroy"} => Needed(t)' # {}
  BY DEF Needed, HaveOld, HaveNew
<1>u. ASSUME \A T \in Tables : lock'[T] # t PROVE Ordered(t)'
  <2>1. ASSUME pc'[t] = "lock" PROVE Missing(t)' # {}
    <3>1. Needed(t)' # {}
      BY <1>t, <1>n, <2>1 DEF Placed, Storers
    <3>2. Needed(t)' \subseteq Tables
      BY <1>t, NeededNext
    <3> QED
      BY <1>u, <3>1, <3>2 DEF Missing
  <2> QED
    BY <1>u, <2>1 DEF Ordered
<1>1. CASE LockNext(t)
  <2> DEFINE F == FirstOf(Missing(t), t)
  <2>1. /\ pc[t] = "lock" /\ lock' = [lock EXCEPT ![F] = t]
        /\ IF Missing(t) = {F} THEN pc' = [pc EXCEPT ![t] = "locked"] ELSE pc' = pc
        /\ op' = op /\ old' = old /\ new' = new
    BY <1>1 DEF LockNext
  <2>2. /\ Missing(t) # {}
        /\ \A T \in Tables : lock[T] = t => T \in Needed(t) /\ \A M \in Missing(t) : T < M
    BY <1>t, <2>1 DEF Ordered
  <2>3. /\ F \in Missing(t) /\ F \in Tables /\ Missing(t) \subseteq Tables
        /\ \A M \in Missing(t) : F <= M
    BY <1>t, <2>2, FirstIsLeast
  <2> HIDE DEF F
  <2>4. CASE Missing(t) = {F}
    BY <1>t, <2>1, <2>4 DEF Ordered, Storers
  <2>5. CASE Missing(t) # {F}
    <3>1. Needed(t)' = Needed(t)
      BY <2>1 DEF Needed, HaveOld, HaveNew
    <3>2. \A T \in Tables : lock'[T] = IF T = F THEN t ELSE lock[T]
      BY <1>t, <2>1, <2>3 DEF TypeOK
    <3>3. Needed(t) \subseteq Tables
      BY <1>t, NeededTables
    <3>4. Missing(t)' = Missing(t) \ {F}
      BY <3>1, <3>2, <3>3 DEF Missing
    <3>5. Missing(t)' # {}
      BY <2>3, <2>5, <3>4
    <3>6. \A M \in Missing(t)' : F < M
      <4>1. ASSUME NEW M \in Missing(t)' PROVE M \in Nat /\ F \in Nat /\ F <= M /\ F # M
        BY <2>3, <3>4, WeakRefsAssumption
      <4>2. \A i, j \in Nat : i <= j /\ i # j => i < j
        OBVIOUS
      <4> QED
        BY <4>1, <4>2
    <3>7. ASSUME NEW T \in Tables, lock'[T] = t
          PROVE  T \in Needed(t)' /\ \A M \in Missing(t)' : T < M
      <4>1. CASE T = F
        BY <2>3, <3>1, <3>6, <4>1 DEF Missing
      <4>2. CASE T # F
        BY <2>2, <3>1, <3>2, <3>4, <3>7, <4>2
      <4> QED
        BY <4>1, <4>2
    <3>8. pc'[t] = "lock"
      BY <2>1, <2>5
    <3> QED
      BY <3>5, <3>7, <3>8 DEF Ordered
  <2> QED
    BY <2>4, <2>5
<1>2. CASE \/ BeginStore(t) \/ BeginInit(t) \/ BeginDestroy(t) \/ ReadOld(t) \/ BeginLoad(t)
           \/ Release(t) \/ Reinitialized(t) \/ LoadReinitialized(t) \/ Initializing(t)
  <2>1. /\ pc[t] \in {"idle", "read", "initialize", "load initialize"}
        /\ lock' = lock
    BY <1>2 DEF BeginStore, BeginInit, BeginDestroy, ReadOld, BeginLoad, Release, Reinitialized,
                LoadReinitialized, Initializing, Initialize, EndInitialize
  <2> QED
    BY <1>t, <1>u, <2>1 DEF Ordered
<1>3. CASE \/ Retry(t) \/ InitializeFirst(t) \/ Assign(t) \/ LoadAgain(t) \/ TryRetain(t)
           \/ LoadInitializes(t) \/ FreeObject(t)
  <2>1. lock' = [T \in Tables |-> IF lock[T] = t THEN NoThread ELSE lock[T]]
    BY <1>3 DEF Retry, InitializeFirst, Assign, LoadAgain, TryRetain, LoadInitializes,
                FreeObject
  <2> QED
    BY <1>t, <1>u, <2>1
<1>4. CASE Register(t) \/ ZeroOne(t) \/ LoadLock(t)
  <2>1. pc'[t] \in {"assign", "clear", "load"}
    BY <1>4, <1>t DEF Register, ZeroOne, LoadLock
  <2> QED
    BY <2>1 DEF Ordered
<1>5. CASE RootDealloc(t)
  <2>1. /\ pc[t] = "idle"
        /\ pc' = [pc EXCEPT ![t] = "clear"] \/ lock' = lock
    BY <1>5 DEF RootDealloc
  <2>2. CASE lock' = lock
    BY <1>t, <1>u, <2>1, <2>2 DEF Ordered
  <2>3. CASE pc' = [pc EXCEPT ![t] = "clear"]
    BY <1>t, <2>3 DEF Ordered
  <2> QED
    BY <2>1, <2>2, <2>3
<1> QED
  BY <1>1, <1>2, <1>3, <1>4, <1>5 DEF Step, Storing, Loading, Dying

\* Nobody hands a lock to another thread.
LEMMA NoneGiven ==
    ASSUME TypeOK, NEW t \in Threads, Step(t), NEW u \in Threads, u # t, NEW T \in Tables
    PROVE  lock'[T] = u => lock[T] = u
<1> USE DEF Unlock
<1>1. \/ lock' = lock
      \/ \E U : lock' = [lock EXCEPT ![U] = t]
      \/ lock' = [U \in Tables |-> IF lock[U] = t THEN NoThread ELSE lock[U]]
  BY DEF Step, Storing, Loading, Dying, BeginStore, BeginInit, BeginDestroy, ReadOld, LockNext, Retry,
         InitializeFirst, Reinitialized, Register, Assign, BeginLoad, LoadLock, LoadAgain, TryRetain,
         LoadInitializes, LoadReinitialized, Initializing, Initialize, EndInitialize, Release,
         RootDealloc, ZeroOne, FreeObject
<1> QED
  BY <1>1, WeakRefsAssumption DEF TypeOK

LEMMA OrderStep ==
    ASSUME TypeOK, CallInv, OrderInv, NEW t \in Threads, Step(t)
    PROVE  OrderInv'
<1>1. ASSUME NEW u \in Threads, u # t PROVE Ordered(u)'
  <2>1. /\ pc'[u] = pc[u] /\ op'[u] = op[u] /\ old'[u] = old[u] /\ new'[u] = new[u]
        /\ \A T \in Tables : lock[T] = u => lock'[T] = u
    BY <1>1, OthersKept
  <2>2. \A T \in Tables : lock'[T] = u <=> lock[T] = u
    BY <1>1, <2>1, NoneGiven
  <2>3. Needed(u)' = Needed(u) /\ Needed(u) \subseteq Tables
    BY <2>1, NeededTables DEF Needed, HaveOld, HaveNew
  <2>4. Missing(u)' = Missing(u)
    BY <2>2, <2>3 DEF Missing
  <2>5. Ordered(u)
    BY DEF OrderInv
  <2>6. pc'[u] = "lock" => /\ Missing(u)' # {}
                           /\ \A T \in Tables : lock'[T] = u =>
                                T \in Needed(u)' /\ \A M \in Missing(u)' : T < M
    BY <2>1, <2>2, <2>3, <2>4, <2>5 DEF Ordered
  <2>7. pc'[u] \in {"idle", "read", "initialize", "load lock", "load initialize"} =>
          \A T \in Tables : lock'[T] # u
    BY <2>1, <2>2, <2>5 DEF Ordered
  <2> QED
    BY <2>6, <2>7 DEF Ordered
<1> QED
  BY <1>1, OrderOwn DEF OrderInv

\* Threads that hold the lock of one side table and want another, or wait for a
\* +initialize that another runs, never wait in a circle with a lock in it:
\* lockTwo takes the table at the lower address first, and _class_initialize is
\* called with no lock; addresses being bounded.
THEOREM LocksNeverCycle ==
    ASSUME NEW B \in Nat, Tables \subseteq 0..B
    PROVE  Spec => []NoLockCycle
<1>1. Init => OrderInv
  BY WeakRefsAssumption DEF Init, OrderInv, Ordered
<1>2. IInv /\ OrderInv /\ [Next]_vars => OrderInv'
  <2>1. ASSUME IInv, OrderInv, NEW t \in Threads, Step(t) PROVE OrderInv'
    BY <2>1, OrderStep DEF IInv
  <2>2. ASSUME OrderInv, UNCHANGED vars PROVE OrderInv'
    <3>1. UNCHANGED <<pc, lock>> /\ \A t \in Threads : Needed(t)' = Needed(t)
      BY <2>2 DEF vars, call, Needed, HaveOld, HaveNew
    <3>2. \A t \in Threads : Missing(t)' = Missing(t)
      BY <3>1 DEF Missing
    <3> QED
      BY <2>2, <3>1, <3>2 DEF OrderInv, Ordered
  <2> QED
    BY <2>1, <2>2 DEF Next, Step
<1>3. IInv /\ OrderInv => NoLockCycle
  <2> SUFFICES ASSUME IInv, OrderInv, NEW S \in SUBSET Threads,
                      \A t \in S : \E u \in S : WaitsForLock(t, u) \/ WaitsForClass(t, u),
                      \E t, u \in S : WaitsForLock(t, u)
               PROVE  FALSE
    BY DEF NoLockCycle
  <2> DEFINE Wanted(t) == FirstOf(Missing(t), t)
             W == {B - Wanted(t) : t \in {u \in S : At(u, "lock")}}
  <2>1. ASSUME NEW t \in S, NEW u \in S, WaitsForLock(t, u)
        PROVE  /\ At(u, "lock") /\ \E v \in S : WaitsForLock(u, v)
               /\ At(t, "lock") => Wanted(t) < Wanted(u)
    <3>2. PICK T \in Tables : lock[T] = u /\ (At(t, "lock") => T = Wanted(t))
      <4>1. CASE At(t, "lock") /\ lock[Wanted(t)] = u
        <5>1. Wanted(t) \in Tables
          BY <4>1, FirstIsLeast DEF IInv, OrderInv, Ordered, At
        <5> QED
          BY <4>1, <5>1
      <4>2. CASE At(t, "load lock") /\ lock[TableOf[old[t]]] = u
        <5>1. TableOf[old[t]] \in Tables
          BY WeakRefsAssumption DEF IInv, TypeOK, Values
        <5> QED
          BY <4>2, <5>1 DEF At
      <4> QED
        BY <2>1, <4>1, <4>2 DEF WaitsForLock
    <3>3. pc[u] \notin {"initialize", "load lock", "load initialize"}
      BY <3>2 DEF OrderInv, Ordered
    <3>4. PICK v \in S : WaitsForLock(u, v)
      BY <3>3 DEF WaitsForClass, Wants, At
    <3>5. At(u, "lock")
      BY <3>3, <3>4 DEF WaitsForLock, At
    <3>6. \A M \in Missing(u) : T < M
      BY <3>2, <3>5 DEF OrderInv, Ordered, At
    <3>7. Wanted(u) \in Missing(u)
      BY <3>5, FirstIsLeast DEF IInv, OrderInv, Ordered, At
    <3>8. T < Wanted(u)
      BY <3>6, <3>7
    <3> QED
      BY <3>2, <3>4, <3>5, <3>8
  <2>2. \A t \in S : At(t, "lock") => Wanted(t) \in 0..B
    BY FirstIsLeast DEF IInv, OrderInv, Ordered, At
  <2> HIDE DEF Wanted
  <2>3. W \in SUBSET Nat
    BY <2>2
  <2>4. W # {}
    <3>1. PICK t \in S, u \in S : WaitsForLock(t, u)
      OBVIOUS
    <3>2. At(u, "lock")
      BY <2>1, <3>1
    <3> QED
      BY <3>2
  <2>5. PICK x \in W : \A y \in W : x <= y
    <3> HIDE DEF W
    <3> QED
      BY <2>3, <2>4, Least
  <2>6. PICK t \in S : At(t, "lock") /\ x = B - Wanted(t)
    OBVIOUS
  <2>7. PICK u \in S : At(u, "lock") /\ Wanted(t) < Wanted(u)
    <3>1. pc[t] = "lock"
      BY <2>6 DEF At
    <3>2. PICK u \in S : WaitsForLock(t, u)
      BY <3>1 DEF WaitsForClass, Wants, At
    <3> QED
      BY <2>1, <2>6, <3>2
  <2>8. B - Wanted(u) \in W
    BY <2>7
  <2>9. B - Wanted(t) <= B - Wanted(u)
    BY <2>5, <2>6, <2>8
  <2> QED
    BY <2>2, <2>6, <2>7, <2>9
<1> QED
  BY <1>1, <1>2, <1>3, Invariance, PTL DEF Spec
=====
