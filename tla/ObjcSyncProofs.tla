--------------------------- MODULE ObjcSyncProofs ---------------------------
(***************************************************************************)
(* Theorems about ObjcSync, for every set of threads, objects and blocks,  *)
(* every hashing of objects to lists and every bound.                      *)
(***************************************************************************)
EXTENDS ObjcSync, FiniteSetTheorems, TLAPS

\* The list lock is held throughout the walk.
SpinInv ==
    \A t \in Threads :
        /\ pc[t] # "idle" => obj[t] \in Objects
        /\ pc[t] \in {"walk", "done"} => spin[Stripe(t)] = t

\* A list holds the blocks of its own objects, and one block per object.
GoodList(s) ==
    /\ \A i \in DOMAIN list[s] :
          object[list[s][i]] \in Objects /\ StripeOf[object[list[s][i]]] = s
    /\ \A i, j \in DOMAIN list[s] :
          object[list[s][i]] = object[list[s][j]] => i = j

ListInv == \A s \in Stripes : GoodList(s)

\* A thread has at most one entry per block, with a positive count.
CacheInv ==
    \A t \in Threads :
        /\ fast[t] # None => fastCount[t] > 0 /\ fast[t] \in Listed
        /\ \A d \in cache[t] : lockCount[t][d] > 0 /\ d \in Listed /\ d # fast[t]
        /\ \A d \in Data \ cache[t] : lockCount[t][d] = 0

\* What the locals of id2data say of the shared state.
GoodCall(t) ==
    /\ pc[t] # "fatal"
    /\ pc[t] \in {"spin", "walk"} => \A d \in Data : Caches(t, d) => object[d] # obj[t]
    /\ pc[t] = "store" => why[t] = "ACQUIRE"
    /\ pc[t] \in {"done", "store"} /\ why[t] = "ACQUIRE" =>
          result[t] \in Listed /\ object[result[t]] = obj[t] /\ ~Caches(t, result[t])
    /\ pc[t] = "lock" => Caches(t, result[t]) /\ object[result[t]] = obj[t]
    /\ pc[t] \in {"lock", "unlock"} => result[t] \in Listed

CallInv == \A t \in Threads : GoodCall(t)

\* What the walk has seen so far stays true while it holds the list lock.
GoodWalk(t) ==
    /\ \A i \in DOMAIN list[Stripe(t)] :
          i < cursor[t] => object[list[Stripe(t)][i]] # obj[t]
    /\ firstUnused[t] # None =>
          /\ threadCount[firstUnused[t]] = 0
          /\ \E i \in DOMAIN list[Stripe(t)] : list[Stripe(t)][i] = firstUnused[t]

WalkInv == \A t \in Threads : pc[t] = "walk" => GoodWalk(t)

\* The count of thread t for block d, in whichever of its caches.
Count(t, d) == lockCount[t][d] + (IF fast[t] = d THEN fastCount[t] ELSE 0)

\* How often thread t has the mutex of block d locked.
Held(t, d) ==
    Count(t, d) - (IF pc[t] = "lock" /\ result[t] = d THEN 1 ELSE 0)
                + (IF pc[t] = "unlock" /\ result[t] = d THEN 1 ELSE 0)

MutexInv ==
    \A d \in Data :
        /\ owner[d] = None <=> recursion[d] = 0
        /\ \A t \in Threads :
              IF Held(t, d) = 0 THEN owner[d] # t
              ELSE owner[d] = t /\ recursion[d] = Held(t, d)

CountInv ==
    \A d \in Data :
        /\ threadCount[d] = Cardinality(Users(d)) + leaked[d]
        /\ d \notin Listed => leaked[d] = 0

IInv == TypeOK /\ SpinInv /\ ListInv /\ CacheInv /\ CallInv /\ WalkInv /\ MutexInv /\ CountInv

-----------------------------------------------------------------------------
(* Counting the users of a block.                                          *)

LEMMA UsersFinite ==
    ASSUME NEW d \in Data
    PROVE  /\ IsFiniteSet(Users(d))
           /\ Cardinality(Users(d)) \in Nat
           /\ Cardinality(Users(d)) = 0 <=> Users(d) = {}
<1>1. Users(d) \subseteq Threads
  BY DEF Users
<1>2. IsFiniteSet(Users(d))
  BY <1>1, ThreadAssumption, FS_Subset
<1> QED
  BY <1>2, FS_CardinalityType, FS_EmptySet

\* A thread that takes up or drops a block moves the count by one.
LEMMA UserJoins ==
    ASSUME NEW d \in Data, NEW t \in Threads,
           t \notin Users(d), Users(d)' = Users(d) \cup {t}
    PROVE  Cardinality(Users(d)') = Cardinality(Users(d)) + 1
<1>1. IsFiniteSet(Users(d))
  BY UsersFinite
<1> QED
  BY <1>1, FS_AddElement

LEMMA UserLeaves ==
    ASSUME NEW d \in Data, NEW t \in Threads,
           t \in Users(d), Users(d)' = Users(d) \ {t}
    PROVE  Cardinality(Users(d)') = Cardinality(Users(d)) - 1
<1>1. IsFiniteSet(Users(d))
  BY UsersFinite
<1> QED
  BY <1>1, FS_RemoveElement

-----------------------------------------------------------------------------
THEOREM InitIInv == Init => IInv
<1> SUFFICES ASSUME Init PROVE IInv
  OBVIOUS
<1> USE NoneAssumption DEF Init
<1>1. TypeOK
  BY DEF TypeOK, SharedOK, CachesOK, CallOK, Labels
<1>2. SpinInv /\ ListInv /\ CacheInv
  BY DEF SpinInv, ListInv, GoodList, CacheInv
<1>3. CallInv /\ WalkInv
  BY DEF CallInv, GoodCall, WalkInv
<1>4. MutexInv
  BY DEF MutexInv, Held, Count
<1>5. CountInv
  <2>1. \A d \in Data : Users(d) = {}
    BY DEF Users, Caches, Arriving
  <2>2. \A d \in Data : Cardinality(Users(d)) = 0
    BY <2>1, FS_EmptySet
  <2> QED
    BY <2>2 DEF CountInv
<1> QED
  BY <1>1, <1>2, <1>3, <1>4, <1>5 DEF IInv

-----------------------------------------------------------------------------
(* Types of the values the actions work with.                              *)

LEMMA NodeType ==
    ASSUME IInv, NEW t \in Threads, AtNode(t)
    PROVE  /\ Stripe(t) \in Stripes
           /\ cursor[t] \in DOMAIN list[Stripe(t)]
           /\ Node(t) \in Data
           /\ Node(t) \in Listed
<1> USE NoneAssumption, StripeAssumption DEF IInv, TypeOK, SharedOK, CallOK
<1>1. obj[t] \in Objects /\ Stripe(t) \in Stripes
  BY DEF AtNode, SpinInv, Stripe
<1>2. list[Stripe(t)] \in Seq(Data)
  BY <1>1
<1>3. cursor[t] \in 1..Len(list[Stripe(t)])
  BY <1>2 DEF AtNode
<1> QED
  BY <1>1, <1>2, <1>3 DEF Node, Listed

LEMMA SharedStep == IInv /\ [Next]_vars => SharedOK'
<1> SUFFICES ASSUME IInv, [Next]_vars PROVE SharedOK'
  OBVIOUS
<1>a. SharedOK /\ CachesOK /\ CallOK
  BY DEF IInv, TypeOK
<1>1. CASE UNCHANGED shared
  BY <1>a, <1>1 DEF SharedOK, shared
<1>2. ASSUME NEW t \in Threads, Lock(t) PROVE SharedOK'
  BY <1>a, <1>2 DEF SharedOK, Lock
<1>3. ASSUME NEW t \in Threads, Match(t) PROVE SharedOK'
  <2>1. Node(t) \in Data
    BY <1>3, NodeType DEF Match
  <2> QED
    BY <1>a, <1>3, <2>1 DEF SharedOK, Match
<1>4. ASSUME NEW t \in Threads, Reuse(t) PROVE SharedOK'
  BY <1>a, <1>4 DEF SharedOK, CallOK, Reuse
<1>5. ASSUME NEW t \in Threads, Allocate(t) PROVE SharedOK'
  <2>1. PICK d \in Data \ Listed : list' = [list EXCEPT ![Stripe(t)] = <<d>> \o @]
    BY <1>5 DEF Allocate
  <2>2. \A q \in Seq(Data) : <<d>> \o q \in Seq(Data)
    OBVIOUS
  <2>3. list' \in [Stripes -> Seq(Data)]
    BY <1>a, <2>1, <2>2 DEF SharedOK
  <2> QED
    BY <1>a, <1>5, <2>3 DEF SharedOK, CallOK, Allocate
<1>6. ASSUME NEW t \in Threads, Unlock(t) PROVE SharedOK'
  BY <1>a, <1>6 DEF SharedOK, Unlock
<1>7. ASSUME NEW t \in Threads, MutexLock(t) PROVE SharedOK'
  <2>0. result[t] \in Data
    BY <1>7 DEF MutexLock, IInv, CallInv, GoodCall, Listed
  <2>1. recursion' \in [Data -> Nat] /\ owner' \in [Data -> Threads \cup {None}]
    BY <1>a, <1>7, <2>0 DEF SharedOK, MutexLock
  <2> QED
    BY <1>a, <1>7, <2>1 DEF SharedOK, MutexLock
<1>8. ASSUME NEW t \in Threads, MutexTryUnlock(t) PROVE SharedOK'
  <2>1. owner[result[t]] = t /\ result[t] \in Data => recursion[result[t]] # 0
    BY NoneAssumption DEF IInv, MutexInv
  <2> QED
    BY <1>a, <1>8, <2>1 DEF SharedOK, MutexTryUnlock
<1>9. ASSUME NEW t \in Threads, NEW o \in Objects, FastRelease(t, o), Begin(t, o, "RELEASE")
      PROVE  SharedOK'
  <2>1. fast[t] \in Data /\ threadCount[fast[t]] \in Nat \ {0}
    BY <1>a, <1>9 DEF SharedOK, FastRelease, InFast, FastHealthy, CachesOK
  <2>2. \/ threadCount' = threadCount
        \/ threadCount' = [threadCount EXCEPT ![fast[t]] = @ - 1]
    BY <1>9 DEF FastRelease
  <2>3. threadCount \in [Data -> Nat]
    BY <1>a DEF SharedOK
  <2>4. threadCount' \in [Data -> Nat]
    BY <2>1, <2>2, <2>3
  <2> QED
    BY <1>a, <1>9, <2>4 DEF SharedOK, Begin
<1>10. ASSUME NEW t \in Threads, NEW o \in Objects, CacheRelease(t, o), Begin(t, o, "RELEASE")
       PROVE  SharedOK'
  BY <1>a, <1>10 DEF SharedOK, CacheRelease, Hits, CacheHealthy, Begin, CachesOK
<1>11. ASSUME NEW t \in Threads,
              Pass(t) \/ NotFound(t) \/ Store(t) \/ NotOwning(t)
       PROVE  SharedOK'
  BY <1>1, <1>11 DEF Pass, NotFound, Store, NotOwning
<1>12. ASSUME NEW t \in Threads, NEW o \in Objects, NEW w \in {"ACQUIRE", "RELEASE"},
              Begin(t, o, w), FastAcquire(t, o) \/ CacheAcquire(t, o) \/ NotCached(t, o) \/ Buggy(t, o)
       PROVE  SharedOK'
  BY <1>1, <1>12 DEF FastAcquire, CacheAcquire, NotCached, Buggy, Begin, shared
<1>13. UNCHANGED vars => UNCHANGED shared
  BY DEF vars
<1> QED
  BY <1>1, <1>2, <1>3, <1>4, <1>5, <1>6, <1>7, <1>8, <1>9, <1>10, <1>11, <1>12, <1>13
  DEF Next, Internal, Enter, Exit

LEMMA CachesStep == IInv /\ [Next]_vars => CachesOK'
<1> SUFFICES ASSUME IInv, [Next]_vars PROVE CachesOK'
  OBVIOUS
<1>a. CachesOK /\ CallOK
  BY DEF IInv, TypeOK
<1>b. \A t \in Threads : \A c \in BOOLEAN : Opened(t, c) \in Nat
  BY <1>a, BoundAssumption DEF CachesOK, Opened
<1>1. CASE UNCHANGED caches
  BY <1>a, <1>1 DEF CachesOK, caches
<1>2. ASSUME NEW t \in Threads, Store(t) PROVE CachesOK'
  <2>1. result[t] \in Data
    BY <1>2 DEF Store, IInv, CallInv, GoodCall, Listed
  <2>2. fast' \in [Threads -> Data \cup {None}]
    <3>1. fast' = fast \/ fast' = [fast EXCEPT ![t] = result[t]]
      BY <1>2 DEF Store, caches
    <3> QED
      BY <1>a, <2>1, <3>1 DEF CachesOK
  <2>3. fastCount' \in [Threads -> Nat]
    <3>1. fastCount' = fastCount \/ fastCount' = [fastCount EXCEPT ![t] = 1]
      BY <1>2 DEF Store, caches
    <3> QED
      BY <1>a, <3>1 DEF CachesOK
  <2>4. cache' \in [Threads -> SUBSET Data]
    <3>1. cache' = cache \/ cache' = [cache EXCEPT ![t] = @ \cup {result[t]}]
      BY <1>2 DEF Store, caches
    <3> QED
      BY <1>a, <2>1, <3>1 DEF CachesOK
  <2>5. lockCount' \in [Threads -> [Data -> Nat]]
    <3>1. PICK d \in Data : d = result[t]
      BY <2>1
    <3>2. lockCount' = lockCount \/ lockCount' = [lockCount EXCEPT ![t][d] = 1]
      BY <1>2, <3>1 DEF Store, caches
    <3>3. lockCount \in [Threads -> [Data -> Nat]]
      BY <1>a DEF CachesOK
    <3> QED
      BY <3>2, <3>3
  <2>6. allocated' \in [Threads -> Nat]
    <3>1. allocated' = allocated \/ allocated' = [allocated EXCEPT ![t] = Opened(t, TRUE)]
      BY <1>2 DEF Store, caches
    <3> QED
      BY <1>a, <1>b, <3>1 DEF CachesOK
  <2> QED
    BY <2>2, <2>3, <2>4, <2>5, <2>6 DEF CachesOK
<1>3. ASSUME NEW t \in Threads, NEW o \in Objects,
             FastAcquire(t, o) \/ FastRelease(t, o)
      PROVE  CachesOK'
  <2>1. fastCount[t] \in Nat \ {0}
    BY <1>a, <1>3 DEF CachesOK, FastAcquire, FastRelease, FastHealthy
  <2>2. /\ \/ fastCount' = [fastCount EXCEPT ![t] = @ + 1]
           \/ fastCount' = [fastCount EXCEPT ![t] = @ - 1]
        /\ fast' = fast \/ fast' = [fast EXCEPT ![t] = None]
        /\ UNCHANGED <<cache, lockCount, allocated>>
    BY <1>3 DEF FastAcquire, FastRelease
  <2>3. fastCount[t] + 1 \in Nat /\ fastCount[t] - 1 \in Nat
    BY <2>1
  <2>4. fastCount' \in [Threads -> Nat]
    BY <1>a, <2>2, <2>3 DEF CachesOK
  <2> QED
    BY <1>a, <2>2, <2>4 DEF CachesOK
<1>4. ASSUME NEW t \in Threads, NEW o \in Objects, CacheAcquire(t, o)
      PROVE  CachesOK'
  <2>1. PICK d \in Hits(t, o) : lockCount' = [lockCount EXCEPT ![t][d] = @ + 1]
    BY <1>4 DEF CacheAcquire
  <2>2. d \in Data /\ lockCount[t][d] \in Nat
    BY <1>a, <2>1 DEF CachesOK, Hits
  <2>3. lockCount' \in [Threads -> [Data -> Nat]]
    BY <1>a, <2>1, <2>2 DEF CachesOK
  <2> QED
    BY <1>a, <1>b, <1>4, <2>3 DEF CachesOK, CacheAcquire
<1>5. ASSUME NEW t \in Threads, NEW o \in Objects, CacheRelease(t, o)
      PROVE  CachesOK'
  <2>1. PICK d \in Hits(t, o) :
            /\ CacheHealthy(t, d)
            /\ lockCount' = [lockCount EXCEPT ![t][d] = @ - 1]
            /\ cache' = cache \/ cache' = [cache EXCEPT ![t] = @ \ {d}]
    BY <1>5 DEF CacheRelease
  <2>2. d \in Data /\ lockCount[t][d] - 1 \in Nat
    BY <1>a, <2>1 DEF CachesOK, Hits, CacheHealthy
  <2>3. lockCount' \in [Threads -> [Data -> Nat]]
    BY <1>a, <2>1, <2>2 DEF CachesOK
  <2>4. cache' \in [Threads -> SUBSET Data]
    BY <1>a, <2>1 DEF CachesOK
  <2> QED
    BY <1>a, <1>b, <1>5, <2>3, <2>4 DEF CachesOK, CacheRelease
<1>6. ASSUME NEW t \in Threads, NEW o \in Objects, NotCached(t, o) PROVE CachesOK'
  BY <1>a, <1>b, <1>6 DEF CachesOK, NotCached
<1>7. ASSUME NEW t \in Threads, NEW o \in Objects, Buggy(t, o) PROVE CachesOK'
  BY <1>1, <1>7 DEF Buggy
<1>8. ASSUME NEW t \in Threads, Internal(t), ~Store(t) PROVE UNCHANGED caches
  BY <1>8 DEF Internal, Lock, Match, Pass, NotFound, Reuse, Allocate, Unlock,
              MutexLock, MutexTryUnlock, NotOwning
<1>9. UNCHANGED vars => UNCHANGED caches
  BY DEF vars
<1> QED
  BY <1>1, <1>2, <1>3, <1>4, <1>5, <1>6, <1>7, <1>8, <1>9 DEF Next, Enter, Exit

LEMMA CallStep == IInv /\ [Next]_vars => CallOK'
<1> SUFFICES ASSUME IInv, [Next]_vars PROVE CallOK'
  OBVIOUS
<1>a. CachesOK /\ CallOK
  BY DEF IInv, TypeOK
<1>1. CASE UNCHANGED call
  BY <1>a, <1>1 DEF CallOK, call
<1>2. ASSUME NEW t \in Threads, Lock(t) \/ Unlock(t) PROVE CallOK'
  BY <1>a, <1>2 DEF CallOK, Lock, Unlock, Labels
<1>3. ASSUME NEW t \in Threads, Match(t) \/ Pass(t) PROVE CallOK'
  <2>1. Node(t) \in Data
    BY <1>3, NodeType DEF Match, Pass
  <2> QED
    BY <1>a, <1>3, <2>1 DEF CallOK, Match, Pass, Proceed, Labels
<1>4. ASSUME NEW t \in Threads, NotFound(t) \/ Reuse(t) \/ Allocate(t) PROVE CallOK'
  <2>1. PICK d \in Data \cup {None} : Proceed(t, d, "done")
    BY <1>a, <1>4 DEF CallOK, NotFound, Reuse, Allocate
  <2>2. UNCHANGED <<why, obj, cursor, firstUnused>>
    BY <1>4 DEF NotFound, Reuse, Allocate
  <2> QED
    BY <1>a, <2>1, <2>2 DEF CallOK, Proceed, Labels
<1>5. ASSUME NEW t \in Threads, Store(t) PROVE CallOK'
  BY <1>a, <1>5 DEF CallOK, Store, Labels
<1>6. ASSUME NEW t \in Threads, MutexLock(t) \/ MutexTryUnlock(t) \/ NotOwning(t)
      PROVE  CallOK'
  BY <1>a, <1>6 DEF CallOK, MutexLock, MutexTryUnlock, NotOwning, Return, Labels
<1>7. ASSUME NEW t \in Threads, NEW o \in Objects, NEW w \in {"ACQUIRE", "RELEASE"},
             Begin(t, o, w),
             \E d \in Data \cup {None}, l \in {"lock", "unlock", "spin", "fatal"} : Proceed(t, d, l)
      PROVE  CallOK'
  BY <1>a, <1>7 DEF CallOK, Begin, Proceed, Labels
<1>8. ASSUME NEW t \in Threads, NEW o \in Objects,
             \/ FastAcquire(t, o) \/ FastRelease(t, o) \/ CacheAcquire(t, o)
             \/ CacheRelease(t, o) \/ NotCached(t, o) \/ Buggy(t, o)
      PROVE  \E d \in Data \cup {None}, l \in {"lock", "unlock", "spin", "fatal"} : Proceed(t, d, l)
  <2>1. fast[t] \in Data \cup {None} /\ Hits(t, o) \subseteq Data
    BY <1>a DEF CachesOK, Hits
  <2> QED
    BY <1>8, <2>1 DEF FastAcquire, FastRelease, CacheAcquire, CacheRelease, NotCached, Buggy
<1>9. UNCHANGED vars => UNCHANGED call
  BY DEF vars
<1> QED
  BY <1>1, <1>2, <1>3, <1>4, <1>5, <1>6, <1>7, <1>8, <1>9 DEF Next, Internal, Enter, Exit

-----------------------------------------------------------------------------
(* Who moves, and what everybody else keeps.                               *)

LEMMA StripeType ==
    ASSUME IInv, NEW t \in Threads, pc[t] # "idle"
    PROVE  obj[t] \in Objects /\ Stripe(t) \in Stripes
  BY StripeAssumption DEF IInv, SpinInv, Stripe

LEMMA SpinStep == IInv /\ [Next]_vars => SpinInv'
<1> SUFFICES ASSUME IInv, [Next]_vars PROVE SpinInv'
  OBVIOUS
<1>a. CallOK /\ SpinInv /\ spin \in [Stripes -> Threads \cup {None}]
  BY DEF IInv, TypeOK, SharedOK
<1> USE <1>a DEF SpinInv, Stripe, CallOK
<1>1. CASE UNCHANGED vars
  BY <1>1 DEF vars, call, shared
<1>2. ASSUME NEW t \in Threads, Lock(t) PROVE SpinInv'
  BY <1>2, NoneAssumption, StripeAssumption DEF Lock
<1>3. ASSUME NEW t \in Threads, Unlock(t) PROVE SpinInv'
  BY <1>3 DEF Unlock
<1>4. ASSUME NEW t \in Threads, Match(t) \/ NotFound(t) \/ Reuse(t) \/ Allocate(t)
      PROVE  SpinInv'
  <2>1. /\ pc[t] = "walk" /\ pc' = [pc EXCEPT ![t] = "done"]
        /\ UNCHANGED <<obj, spin>>
    BY <1>4 DEF Match, NotFound, Reuse, Allocate, AtNode, AtEnd, Proceed, shared
  <2> QED
    BY <2>1
<1>5. ASSUME NEW t \in Threads, Pass(t) PROVE SpinInv'
  BY <1>5 DEF Pass, shared
<1>6. ASSUME NEW t \in Threads, Store(t) PROVE SpinInv'
  BY <1>6 DEF Store, shared
<1>7. ASSUME NEW t \in Threads, MutexLock(t) \/ NotOwning(t) PROVE SpinInv'
  BY <1>7 DEF MutexLock, NotOwning, Return, shared
<1>8. ASSUME NEW t \in Threads, MutexTryUnlock(t) PROVE SpinInv'
  BY <1>8 DEF MutexTryUnlock, Return
<1>9. ASSUME NEW t \in Threads, NEW o \in Objects, NEW w \in {"ACQUIRE", "RELEASE"}, Begin(t, o, w),
             \/ FastAcquire(t, o) \/ FastRelease(t, o) \/ CacheAcquire(t, o)
             \/ CacheRelease(t, o) \/ NotCached(t, o) \/ Buggy(t, o)
      PROVE  SpinInv'
  <2>1. PICK l \in {"lock", "unlock", "spin", "fatal"} : pc' = [pc EXCEPT ![t] = l]
    BY <1>9 DEF FastAcquire, FastRelease, CacheAcquire, CacheRelease, NotCached, Buggy, Proceed
  <2>2. obj' = [obj EXCEPT ![t] = o] /\ UNCHANGED spin
    BY <1>9 DEF Begin
  <2> QED
    BY <2>1, <2>2
<1> QED
  BY <1>1, <1>2, <1>3, <1>4, <1>5, <1>6, <1>7, <1>8, <1>9 DEF Next, Internal, Enter, Exit

\* A block on the free end of a walk has no user.
LEMMA UnusedBlock ==
    ASSUME IInv, NEW t \in Threads, AtEnd(t), firstUnused[t] # None
    PROVE  /\ firstUnused[t] \in Data
           /\ firstUnused[t] \in Listed
           /\ Users(firstUnused[t]) = {}
           /\ leaked[firstUnused[t]] = 0
           /\ StripeOf[object[firstUnused[t]]] = Stripe(t)
<1>1. firstUnused[t] \in Data
  BY DEF IInv, TypeOK, CallOK
<1>2. /\ threadCount[firstUnused[t]] = 0
      /\ \E i \in DOMAIN list[Stripe(t)] : list[Stripe(t)][i] = firstUnused[t]
  BY DEF IInv, WalkInv, GoodWalk, AtEnd
<1>3. Stripe(t) \in Stripes
  BY StripeType DEF AtEnd
<1>4. firstUnused[t] \in Listed /\ StripeOf[object[firstUnused[t]]] = Stripe(t)
  BY <1>1, <1>2, <1>3 DEF Listed, IInv, ListInv, GoodList
<1>5. leaked[firstUnused[t]] \in Nat /\ Cardinality(Users(firstUnused[t])) \in Nat
  BY <1>1, UsersFinite DEF IInv, TypeOK, SharedOK
<1>6. Cardinality(Users(firstUnused[t])) = 0 /\ leaked[firstUnused[t]] = 0
  BY <1>1, <1>2, <1>5 DEF IInv, CountInv
<1> QED
  BY <1>1, <1>4, <1>6, UsersFinite

\* Every user of a block finds it on a list.
LEMMA UsersListed ==
    ASSUME IInv, NEW d \in Data, Users(d) # {}
    PROVE  d \in Listed
<1>1. PICK t \in Threads : Caches(t, d) \/ Arriving(t, d)
  BY DEF Users
<1>2. CASE Caches(t, d)
  BY <1>2, NoneAssumption DEF IInv, CacheInv, Caches
<1>3. CASE Arriving(t, d)
  BY <1>3 DEF IInv, CallInv, GoodCall, Arriving
<1> QED
  BY <1>1, <1>2, <1>3

\* Blocks never leave their list, and a block somebody uses keeps its object.
LEMMA BlocksStay ==
    ASSUME IInv, [Next]_vars, NEW d \in Listed
    PROVE  /\ d \in Listed'
           /\ Users(d) # {} => object'[d] = object[d]
<1>a. SharedOK
  BY DEF IInv, TypeOK
<1>1. CASE UNCHANGED <<list, object>>
  BY <1>1 DEF Listed
<1>2. ASSUME NEW t \in Threads, Reuse(t)
      PROVE  d \in Listed' /\ (Users(d) # {} => object'[d] = object[d])
  <2>1. Users(firstUnused[t]) = {}
    BY <1>2, UnusedBlock DEF Reuse
  <2> QED
    BY <1>a, <1>2, <2>1 DEF Reuse, Listed, SharedOK
<1>3. ASSUME NEW t \in Threads, Allocate(t)
      PROVE  d \in Listed' /\ (Users(d) # {} => object'[d] = object[d])
  <2>1. PICK e \in Data \ Listed : /\ object' = [object EXCEPT ![e] = obj[t]]
                                   /\ list' = [list EXCEPT ![Stripe(t)] = <<e>> \o @]
    BY <1>3 DEF Allocate
  <2>2. object'[d] = object[d]
    BY <1>a, <2>1 DEF Listed, SharedOK
  <2>s. PICK s \in Stripes : \E i \in DOMAIN list[s] : list[s][i] = d
    BY DEF Listed
  <2>3. PICK i \in DOMAIN list[s] : list[s][i] = d
    BY <2>s
  <2>4. \E j \in DOMAIN list'[s] : list'[s][j] = d
    <3>1. CASE s = Stripe(t)
      <4>1. list'[s] = <<e>> \o list[s]
        BY <1>a, <2>1, <3>1 DEF SharedOK
      <4>2. list[s] \in Seq(Data) /\ i \in 1..Len(list[s])
        BY <1>a, <2>3 DEF SharedOK
      <4>3. i + 1 \in DOMAIN list'[s] /\ list'[s][i + 1] = list[s][i]
        BY <4>1, <4>2
      <4> QED
        BY <2>3, <4>3
    <3>2. CASE s # Stripe(t)
      BY <1>a, <2>1, <2>3, <3>2 DEF SharedOK
    <3> QED
      BY <3>1, <3>2
  <2> QED
    BY <2>2, <2>3, <2>4 DEF Listed
<1>4. ASSUME NEW t \in Threads, Internal(t), ~Reuse(t), ~Allocate(t)
      PROVE  UNCHANGED <<list, object>>
  BY <1>4 DEF Internal, Lock, Match, Pass, NotFound, Unlock, Store, MutexLock,
              MutexTryUnlock, NotOwning, shared
<1> QED
  BY <1>1, <1>2, <1>3, <1>4 DEF Next, Enter, Exit, Begin, vars, shared

LEMMA ListStep == IInv /\ [Next]_vars => ListInv'
<1> SUFFICES ASSUME IInv, [Next]_vars PROVE ListInv'
  OBVIOUS
<1>a. ListInv /\ list \in [Stripes -> Seq(Data)] /\ object \in [Data -> Objects \cup {None}]
  BY DEF IInv, TypeOK, SharedOK
<1>1. CASE UNCHANGED <<list, object>>
  BY <1>a, <1>1 DEF ListInv, GoodList
<1>2. ASSUME NEW t \in Threads, AtEnd(t)
      PROVE  /\ obj[t] \in Objects /\ Stripe(t) \in Stripes
             /\ StripeOf[obj[t]] = Stripe(t)
             /\ \A i \in DOMAIN list[Stripe(t)] : object[list[Stripe(t)][i]] # obj[t]
  <2>1. obj[t] \in Objects /\ Stripe(t) \in Stripes
    BY <1>2, StripeType DEF AtEnd
  <2>2. cursor[t] \in Nat /\ list[Stripe(t)] \in Seq(Data)
    BY <1>a, <2>1 DEF IInv, TypeOK, CallOK
  <2>3. \A i \in DOMAIN list[Stripe(t)] : i < cursor[t]
    BY <1>2, <2>2 DEF AtEnd
  <2> QED
    BY <1>2, <2>1, <2>3 DEF IInv, WalkInv, GoodWalk, AtEnd, Stripe
<1>3. ASSUME NEW t \in Threads, Reuse(t) PROVE ListInv'
  <2>1. AtEnd(t) /\ list' = list /\ object' = [object EXCEPT ![firstUnused[t]] = obj[t]]
    BY <1>3 DEF Reuse
  <2>2. firstUnused[t] \in Data /\ StripeOf[object[firstUnused[t]]] = Stripe(t)
    BY <1>3, UnusedBlock DEF Reuse
  <2>3. ASSUME NEW s \in Stripes, NEW i \in DOMAIN list[s]
        PROVE  /\ list[s][i] \in Data
               /\ object'[list[s][i]] = IF list[s][i] = firstUnused[t] THEN obj[t]
                                        ELSE object[list[s][i]]
               /\ list[s][i] = firstUnused[t] => s = Stripe(t)
    <3>1. list[s][i] \in Data
      BY <1>a
    <3> QED
      BY <1>a, <2>1, <2>2, <3>1 DEF ListInv, GoodList
  <2> QED
    BY <1>a, <1>2, <2>1, <2>3 DEF ListInv, GoodList
<1>4. ASSUME NEW t \in Threads, Allocate(t) PROVE ListInv'
  <2>1. PICK e \in Data \ Listed : /\ AtEnd(t)
                                   /\ object' = [object EXCEPT ![e] = obj[t]]
                                   /\ list' = [list EXCEPT ![Stripe(t)] = <<e>> \o @]
    BY <1>4 DEF Allocate
  <2>2. PICK s \in Stripes : s = Stripe(t)
    BY <1>2, <2>1
  <2>3. ASSUME NEW r \in Stripes, NEW i \in DOMAIN list[r]
        PROVE  object'[list[r][i]] = object[list[r][i]]
    <3>1. list[r][i] \in Data /\ list[r][i] # e
      BY <1>a, <2>1 DEF Listed
    <3> QED
      BY <1>a, <2>1, <3>1
  <2>4. object'[e] = obj[t]
    BY <1>a, <2>1
  <2>5. /\ list[s] \in Seq(Data)
        /\ list'[s] = <<e>> \o list[s]
    BY <1>a, <2>1, <2>2
  <2>6. /\ list'[s][1] = e
        /\ \A i \in DOMAIN list'[s] :
              i # 1 => /\ i - 1 \in DOMAIN list[s]
                       /\ list'[s][i] = list[s][i - 1]
        /\ DOMAIN list'[s] \subseteq Nat
    BY <2>5
  <2>7. ASSUME NEW r \in Stripes, r # s PROVE GoodList(r)'
    <3>1. list'[r] = list[r]
      BY <1>a, <2>1, <2>2, <2>7
    <3> QED
      BY <1>a, <2>3, <3>1 DEF ListInv, GoodList
  <2>8. \A i \in DOMAIN list'[s] :
              object'[list'[s][i]] = IF i = 1 THEN obj[t] ELSE object[list[s][i - 1]]
    BY <2>3, <2>4, <2>6
  <2>9. GoodList(s)
    BY <1>a DEF ListInv
  <2>10. GoodList(s)'
    <3>1. \A i \in DOMAIN list[s] : object[list[s][i]] # obj[t]
      BY <1>2, <2>1, <2>2
    <3>2. obj[t] \in Objects /\ StripeOf[obj[t]] = s
      BY <1>2, <2>1, <2>2
    <3> QED
      BY <2>6, <2>8, <2>9, <3>1, <3>2 DEF GoodList
  <2> QED
    BY <2>7, <2>10 DEF ListInv
<1>5. ASSUME NEW t \in Threads, Internal(t), ~Reuse(t), ~Allocate(t)
      PROVE  UNCHANGED <<list, object>>
  BY <1>5 DEF Internal, Lock, Match, Pass, NotFound, Unlock, Store, MutexLock,
              MutexTryUnlock, NotOwning, shared
<1> QED
  BY <1>1, <1>3, <1>4, <1>5 DEF Next, Enter, Exit, Begin, vars, shared

-----------------------------------------------------------------------------
(* The caches.                                                             *)

\* What one step does to the caches of thread t.
LEMMA CacheStep == IInv /\ [Next]_vars => CacheInv'
<1> SUFFICES ASSUME IInv, [Next]_vars PROVE CacheInv'
  OBVIOUS
<1>a. CacheInv /\ CachesOK
  BY DEF IInv, TypeOK
<1>b. \A d \in Listed : d \in Listed'
  BY BlocksStay
<1>c. Listed \subseteq Data
  BY DEF Listed
<1>1. CASE UNCHANGED caches
  BY <1>a, <1>b, <1>1 DEF CacheInv, caches
<1>2. ASSUME NEW t \in Threads, Store(t) PROVE CacheInv'
  <2>1. PICK d \in Listed : d = result[t] /\ ~Caches(t, d)
    BY <1>2 DEF Store, IInv, CallInv, GoodCall
  <2>2. CASE fast[t] = None /\ ~UNCHANGED caches
    <3>1. /\ fast' = [fast EXCEPT ![t] = d]
          /\ fastCount' = [fastCount EXCEPT ![t] = 1]
          /\ UNCHANGED <<cache, lockCount>>
      BY <1>2, <2>1, <2>2 DEF Store
    <3> QED
      BY <1>a, <1>b, <1>c, <2>1, <3>1 DEF CacheInv, CachesOK, Caches
  <2>3. CASE fast[t] # None /\ ~UNCHANGED caches
    <3>1. /\ cache' = [cache EXCEPT ![t] = @ \cup {d}]
          /\ lockCount' = [lockCount EXCEPT ![t][d] = 1]
          /\ UNCHANGED <<fast, fastCount>>
      BY <1>2, <2>1, <2>3 DEF Store
    <3> QED
      BY <1>a, <1>b, <1>c, <2>1, <3>1 DEF CacheInv, CachesOK, Caches
  <2> QED
    BY <1>1, <2>2, <2>3
<1>3. ASSUME NEW t \in Threads, NEW o \in Objects,
             FastAcquire(t, o) \/ FastRelease(t, o)
      PROVE  CacheInv'
  <2>1. /\ fastCount[t] \in Nat \ {0} /\ fast[t] # None
        /\ \/ fastCount' = [fastCount EXCEPT ![t] = @ + 1] /\ fast' = fast
           \/ fastCount' = [fastCount EXCEPT ![t] = @ - 1] /\ fastCount[t] # 1 /\ fast' = fast
           \/ fast' = [fast EXCEPT ![t] = None] /\ \A u \in Threads \ {t} : fastCount'[u] = fastCount[u]
        /\ UNCHANGED <<cache, lockCount>>
    BY <1>a, <1>3 DEF FastAcquire, FastRelease, InFast, FastHealthy, CachesOK
  <2>2. \A u \in Threads : fast[u] # None => fastCount[u] \in Nat \ {0} /\ fast[u] \in Listed'
    BY <1>a, <1>b DEF CacheInv, CachesOK
  <2>3. ASSUME NEW u \in Threads, fast'[u] # None
        PROVE  fast'[u] = fast[u] /\ fastCount'[u] > 0
    <3>1. fast'[u] = fast[u]
      BY <1>a, <2>1, <2>3 DEF CachesOK
    <3>2. fastCount \in [Threads -> Nat]
      BY <1>a DEF CachesOK
    <3>3. CASE u # t
      <4>1. fastCount'[u] = fastCount[u]
        BY <2>1, <3>2, <3>3
      <4> QED
        BY <2>2, <2>3, <3>1, <4>1
    <3>4. CASE u = t
      <4>1. fast'[t] # None /\ fast \in [Threads -> Data \cup {None}]
        BY <1>a, <2>3, <3>4 DEF CachesOK
      <4>2. \/ fastCount' = [fastCount EXCEPT ![t] = @ + 1]
            \/ fastCount' = [fastCount EXCEPT ![t] = @ - 1] /\ fastCount[t] # 1
        BY <2>1, <4>1
      <4> QED
        BY <2>1, <3>1, <3>2, <3>4, <4>2
    <3> QED
      BY <3>3, <3>4
  <2>4. \A u \in Threads : \A d \in cache[u] : d # None
    BY <1>a, NoneAssumption DEF CachesOK
  <2> QED
    BY <1>a, <1>b, <2>1, <2>2, <2>3, <2>4 DEF CacheInv, CachesOK
<1>4. ASSUME NEW t \in Threads, NEW o \in Objects, CacheAcquire(t, o) PROVE CacheInv'
  <2>1. PICK d \in Hits(t, o) : lockCount' = [lockCount EXCEPT ![t][d] = @ + 1]
    BY <1>4 DEF CacheAcquire
  <2>2. d \in cache[t] /\ lockCount[t][d] \in Nat /\ UNCHANGED <<fast, fastCount, cache>>
    BY <1>a, <1>4, <2>1 DEF Hits, CachesOK, CacheAcquire
  <2> QED
    BY <1>a, <1>b, <2>1, <2>2 DEF CacheInv, CachesOK
<1>5. ASSUME NEW t \in Threads, NEW o \in Objects, CacheRelease(t, o) PROVE CacheInv'
  <2>1. PICK d \in Hits(t, o) :
            /\ CacheHealthy(t, d)
            /\ lockCount' = [lockCount EXCEPT ![t][d] = @ - 1]
            /\ IF lockCount[t][d] = 1
               THEN cache' = [cache EXCEPT ![t] = @ \ {d}]
               ELSE cache' = cache
    BY <1>5 DEF CacheRelease
  <2>2. d \in cache[t] /\ lockCount[t][d] \in Nat \ {0} /\ UNCHANGED <<fast, fastCount>>
    BY <1>a, <1>5, <2>1 DEF Hits, CachesOK, CacheRelease, CacheHealthy
  <2>3. \A u \in Threads : \A e \in Data :
            lockCount'[u][e] = IF u = t /\ e = d THEN lockCount[t][d] - 1 ELSE lockCount[u][e]
    BY <1>a, <2>1 DEF CachesOK
  <2>4. \A u \in Threads : cache'[u] \subseteq cache[u]
    BY <1>a, <2>1 DEF CachesOK
  <2>5. \A u \in Threads : \A e \in cache[u] : e \in cache'[u] \/ (u = t /\ e = d /\ lockCount[t][d] = 1)
    BY <1>a, <2>1 DEF CachesOK
  <2>6. d \in cache'[t] => lockCount[t][d] # 1
    BY <1>a, <2>1 DEF CachesOK
  <2>7. ASSUME NEW u \in Threads, NEW e \in cache'[u] PROVE lockCount'[u][e] > 0
    <3>1. e \in cache[u] /\ e \in Data /\ lockCount[u][e] > 0
      BY <1>a, <2>4 DEF CacheInv, CachesOK
    <3>2. u = t /\ e = d => lockCount[t][d] - 1 > 0
      BY <2>2, <2>6
    <3> QED
      BY <2>3, <3>1, <3>2
  <2>8. \A u \in Threads : \A e \in Data \ cache'[u] : lockCount'[u][e] = 0
    BY <1>a, <2>2, <2>3, <2>5 DEF CacheInv, CachesOK
  <2> QED
    BY <1>a, <1>b, <2>2, <2>4, <2>7, <2>8 DEF CacheInv
<1>6. ASSUME NEW t \in Threads, NEW o \in Objects, NotCached(t, o) \/ Buggy(t, o)
      PROVE  CacheInv'
  BY <1>a, <1>b, <1>6 DEF CacheInv, NotCached, Buggy, caches
<1>7. ASSUME NEW t \in Threads, Internal(t), ~Store(t) PROVE UNCHANGED caches
  BY <1>7 DEF Internal, Lock, Match, Pass, NotFound, Reuse, Allocate, Unlock,
              MutexLock, MutexTryUnlock, NotOwning
<1>8. UNCHANGED vars => UNCHANGED caches
  BY DEF vars
<1> QED
  BY <1>1, <1>2, <1>3, <1>4, <1>5, <1>6, <1>7, <1>8 DEF Next, Enter, Exit

-----------------------------------------------------------------------------
(* A step of one thread leaves the locals and the caches of the others     *)
(* alone.                                                                  *)

Step(t) == Internal(t) \/ \E o \in Objects : Enter(t, o) \/ Exit(t, o)

LEMMA NextIsStep == Next <=> \E t \in Threads : Step(t)
  BY DEF Next, Step

LEMMA OthersKeep ==
    ASSUME IInv, NEW t \in Threads, Step(t), NEW u \in Threads \ {t}
    PROVE  /\ pc'[u] = pc[u] /\ why'[u] = why[u] /\ obj'[u] = obj[u]
           /\ result'[u] = result[u] /\ cursor'[u] = cursor[u]
           /\ firstUnused'[u] = firstUnused[u]
           /\ fast'[u] = fast[u] /\ fastCount'[u] = fastCount[u]
           /\ cache'[u] = cache[u] /\ lockCount'[u] = lockCount[u]
<1>a. CachesOK /\ CallOK
  BY DEF IInv, TypeOK
<1>1. CASE Internal(t)
  <2>1. pc'[u] = pc[u] /\ why'[u] = why[u] /\ obj'[u] = obj[u] /\ result'[u] = result[u]
    BY <1>a, <1>1 DEF CallOK, Internal, Lock, Match, Pass, NotFound, Reuse, Allocate, Unlock, Store,
                MutexLock, MutexTryUnlock, NotOwning, Proceed, Return
  <2>2. cursor'[u] = cursor[u] /\ firstUnused'[u] = firstUnused[u]
    BY <1>a, <1>1 DEF CallOK, Internal, Lock, Match, Pass, NotFound, Reuse, Allocate, Unlock, Store,
                MutexLock, MutexTryUnlock, NotOwning
  <2>3. fast'[u] = fast[u] /\ fastCount'[u] = fastCount[u] /\ cache'[u] = cache[u] /\ lockCount'[u] = lockCount[u]
    BY <1>a, <1>1 DEF CachesOK, Internal, Lock, Match, Pass, NotFound, Reuse, Allocate, Unlock, Store,
                MutexLock, MutexTryUnlock, NotOwning, caches
  <2> QED
    BY <2>1, <2>2, <2>3
<1>2. ASSUME NEW o \in Objects, NEW w \in {"ACQUIRE", "RELEASE"}, Begin(t, o, w),
             \/ FastAcquire(t, o) \/ FastRelease(t, o) \/ CacheAcquire(t, o)
             \/ CacheRelease(t, o) \/ NotCached(t, o) \/ Buggy(t, o)
      PROVE  /\ pc'[u] = pc[u] /\ why'[u] = why[u] /\ obj'[u] = obj[u]
             /\ result'[u] = result[u] /\ cursor'[u] = cursor[u]
             /\ firstUnused'[u] = firstUnused[u]
             /\ fast'[u] = fast[u] /\ fastCount'[u] = fastCount[u]
             /\ cache'[u] = cache[u] /\ lockCount'[u] = lockCount[u]
  <2>1. why'[u] = why[u] /\ obj'[u] = obj[u] /\ cursor'[u] = cursor[u] /\ firstUnused'[u] = firstUnused[u]
    BY <1>a, <1>2 DEF CallOK, Begin
  <2>2. pc'[u] = pc[u] /\ result'[u] = result[u]
    BY <1>a, <1>2 DEF CallOK, FastAcquire, FastRelease, CacheAcquire, CacheRelease, NotCached, Buggy, Proceed
  <2>3. fast'[u] = fast[u] /\ fastCount'[u] = fastCount[u]
    BY <1>a, <1>2 DEF CachesOK, FastAcquire, FastRelease, CacheAcquire, CacheRelease, NotCached, Buggy, caches
  <2>4. cache'[u] = cache[u] /\ lockCount'[u] = lockCount[u]
    BY <1>a, <1>2 DEF CachesOK, FastAcquire, FastRelease, CacheAcquire, CacheRelease, NotCached, Buggy, caches
  <2> QED
    BY <2>1, <2>2, <2>3, <2>4
<1> QED
  BY <1>1, <1>2 DEF Step, Enter, Exit

LEMMA CallInvStep == IInv /\ [Next]_vars => CallInv'
<1> SUFFICES ASSUME IInv, [Next]_vars PROVE CallInv'
  OBVIOUS
<1>a. CallInv /\ CachesOK /\ CallOK
  BY DEF IInv, TypeOK
<1>b. \A d \in Listed : d \in Listed' /\ (Users(d) # {} => object'[d] = object[d])
  BY BlocksStay
<1>c. \A t \in Threads, d \in Data :
          Caches(t, d) \/ Arriving(t, d) => d \in Listed /\ object'[d] = object[d]
  <2>1. \A t \in Threads, d \in Data : Caches(t, d) \/ Arriving(t, d) => Users(d) # {}
    BY DEF Users
  <2> QED
    BY <1>b, <2>1, UsersListed
<1>d. Listed \subseteq Data
  BY DEF Listed
<1>1. CASE UNCHANGED vars
  BY <1>a, <1>1 DEF vars, call, caches, shared, CallInv, GoodCall, Caches, Listed
<1>2. ASSUME NEW t \in Threads, Step(t), NEW u \in Threads \ {t} PROVE GoodCall(u)'
  <2>1. /\ pc'[u] = pc[u] /\ why'[u] = why[u] /\ obj'[u] = obj[u] /\ result'[u] = result[u]
        /\ fast'[u] = fast[u] /\ cache'[u] = cache[u]
    BY <1>2, OthersKeep
  <2>2. \A d : Caches(u, d)' <=> Caches(u, d)
    BY <2>1 DEF Caches
  <2>3. GoodCall(u)
    BY <1>a DEF CallInv
  <2>4. pc[u] \in {"done", "store"} /\ why[u] = "ACQUIRE" => Arriving(u, result[u])
    BY DEF Arriving
  <2> QED
    BY <1>b, <1>c, <1>d, <2>1, <2>2, <2>3, <2>4 DEF GoodCall
<1>3. ASSUME NEW t \in Threads, Step(t) PROVE GoodCall(t)'
  <2>a. GoodCall(t)
    BY <1>a DEF CallInv
  <2>1. CASE Lock(t)
    BY <1>a, <2>a, <2>1 DEF Lock, GoodCall, CallOK, Caches, caches
  <2>2. CASE Match(t)
    <3>1. Node(t) \in Listed /\ Node(t) \in Data
      BY <2>2, NodeType DEF Match
    <3> QED
      BY <1>a, <1>b, <2>a, <2>2, <3>1 DEF Match, AtNode, Proceed, GoodCall, CallOK, Caches, caches
  <2>3. CASE Pass(t)
    BY <1>a, <2>a, <2>3 DEF Pass, AtNode, GoodCall, CallOK, Caches, caches, shared
  <2>4. CASE NotFound(t)
    BY <1>a, <2>a, <2>4 DEF NotFound, AtEnd, Proceed, GoodCall, CallOK
  <2>5. CASE Reuse(t)
    <3>1. PICK f \in Listed : f = firstUnused[t] /\ Users(f) = {}
      BY <2>5, UnusedBlock DEF Reuse
    <3>2. ~Caches(t, f)
      BY <3>1 DEF Users
    <3>3. object'[f] = obj[t] /\ f \in Listed'
      BY <1>b, <1>d, <2>5, <3>1 DEF Reuse, IInv, TypeOK, SharedOK
    <3> QED
      BY <1>a, <2>5, <3>1, <3>2, <3>3 DEF Reuse, Proceed, GoodCall, CallOK, Caches, caches
  <2>6. CASE Allocate(t)
    <3>1. PICK d \in Data \ Listed : /\ object' = [object EXCEPT ![d] = obj[t]]
                                     /\ list' = [list EXCEPT ![Stripe(t)] = <<d>> \o @]
                                     /\ Proceed(t, d, "done")
                                     /\ UNCHANGED <<obj, caches>>
      BY <2>6 DEF Allocate
    <3>2. ~Caches(t, d)
      BY <1>c, <3>1
    <3>3. object'[d] = obj[t]
      BY <3>1 DEF IInv, TypeOK, SharedOK
    <3>4. d \in Listed'
      <4>1. Stripe(t) \in Stripes /\ list[Stripe(t)] \in Seq(Data)
        BY <2>6, StripeType DEF Allocate, AtEnd, IInv, TypeOK, SharedOK
      <4>2. list'[Stripe(t)] = <<d>> \o list[Stripe(t)]
        BY <3>1, <4>1 DEF IInv, TypeOK, SharedOK
      <4>3. 1 \in DOMAIN list'[Stripe(t)] /\ list'[Stripe(t)][1] = d
        BY <4>1, <4>2
      <4> QED
        BY <4>1, <4>3 DEF Listed
    <3> QED
      BY <1>a, <3>1, <3>2, <3>3, <3>4 DEF Proceed, GoodCall, CallOK, Caches, caches
  <2>7. CASE Unlock(t)
    BY <1>a, <1>b, <1>c, <2>a, <2>7 DEF Unlock, GoodCall, CallOK, Caches, caches, Listed
  <2>8. CASE Store(t)
    <3>1. /\ result[t] \in Listed /\ result[t] \in Listed' /\ object[result[t]] = obj[t]
          /\ object' = object /\ obj' = obj /\ result' = result
      BY <1>b, <2>a, <2>8 DEF Store, GoodCall, shared
    <3>2. pc' = [pc EXCEPT ![t] = "lock"]
      BY <2>8, <3>1 DEF Store
    <3>3. fast' = [fast EXCEPT ![t] = result[t]] \/ cache' = [cache EXCEPT ![t] = @ \cup {result[t]}]
      BY <2>8, <3>1 DEF Store
    <3>4. Caches(t, result[t])'
      BY <1>a, <3>1, <3>3 DEF Caches, CachesOK
    <3> QED
      BY <1>a, <3>1, <3>2, <3>4 DEF GoodCall, CallOK
  <2>9. CASE MutexLock(t)
    BY <1>a, <2>9 DEF MutexLock, Return, GoodCall, CallOK
  <2>10. CASE MutexTryUnlock(t)
    BY <1>a, <2>10 DEF MutexTryUnlock, Return, GoodCall, CallOK
  <2>11. CASE NotOwning(t)
    BY <1>a, <2>11 DEF NotOwning, Return, GoodCall, CallOK
  <2>12. ASSUME NEW o \in Objects, NEW w \in {"ACQUIRE", "RELEASE"}, Begin(t, o, w),
                FastAcquire(t, o) \/ FastRelease(t, o)
         PROVE  GoodCall(t)'
    <3>1. fast[t] \in Listed /\ object[fast[t]] = o
      BY <2>12 DEF FastAcquire, FastRelease, InFast, IInv, CacheInv
    <3>2. FastAcquire(t, o) => fast'[t] = fast[t]
      BY DEF FastAcquire
    <3> QED
      BY <1>a, <1>b, <2>12, <3>1, <3>2
      DEF FastAcquire, FastRelease, Begin, Proceed, GoodCall, CallOK, Caches
  <2>13. ASSUME NEW o \in Objects, NEW w \in {"ACQUIRE", "RELEASE"}, Begin(t, o, w),
                CacheAcquire(t, o) \/ CacheRelease(t, o)
         PROVE  GoodCall(t)'
    <3>1. PICK d \in Hits(t, o) : \/ Proceed(t, d, "lock") /\ cache' = cache
                                  \/ Proceed(t, d, "unlock")
      BY <2>13 DEF CacheAcquire, CacheRelease
    <3>2. d \in Listed /\ d \in cache[t] /\ object[d] = o
      BY <3>1 DEF Hits, IInv, CacheInv
    <3> QED
      BY <1>a, <1>b, <2>13, <3>1, <3>2 DEF Begin, Proceed, GoodCall, CallOK, Caches
  <2>14. ASSUME NEW o \in Objects, NEW w \in {"ACQUIRE", "RELEASE"}, Begin(t, o, w),
                NotCached(t, o)
         PROVE  GoodCall(t)'
    <3>1. \A d \in Data : Caches(t, d) => object[d] # o
      BY <2>14, NoneAssumption DEF NotCached, InFast, Hits, Caches
    <3> QED
      BY <1>a, <2>14, <3>1 DEF NotCached, Begin, Proceed, GoodCall, CallOK, Caches
  <2>15. ASSUME NEW o \in Objects PROVE ~Buggy(t, o)
    <3>1. \A d \in Data : Caches(t, d) => threadCount[d] > 0
      <4>1. ASSUME NEW d \in Data, Caches(t, d) PROVE threadCount[d] > 0
        <5>1. Users(d) # {}
          BY <4>1 DEF Users
        <5>2. Cardinality(Users(d)) \in Nat \ {0}
          BY <5>1, UsersFinite
        <5>3. leaked[d] \in Nat /\ threadCount[d] = Cardinality(Users(d)) + leaked[d]
          BY DEF IInv, TypeOK, SharedOK, CountInv
        <5> QED
          BY <5>2, <5>3
      <4> QED
        BY <4>1
    <3> QED
      BY <1>a, <3>1 DEF Buggy, InFast, Hits, FastHealthy, CacheHealthy, Caches, CachesOK, IInv, CacheInv
  <2> QED
    BY <1>3, <2>1, <2>2, <2>3, <2>4, <2>5, <2>6, <2>7, <2>8, <2>9, <2>10, <2>11, <2>12, <2>13, <2>14, <2>15
    DEF Step, Internal, Enter, Exit
<1> QED
  BY <1>1, <1>2, <1>3, NextIsStep DEF CallInv

LEMMA WalkStep == IInv /\ [Next]_vars => WalkInv'
<1> SUFFICES ASSUME IInv, [Next]_vars PROVE WalkInv'
  OBVIOUS
<1>a. WalkInv /\ CallOK
  BY DEF IInv, TypeOK
<1>1. CASE UNCHANGED vars
  BY <1>a, <1>1 DEF vars, call, shared, WalkInv, GoodWalk, Stripe
\* Another thread works on other lists, because the spinlock of this one is taken.
<1>2. ASSUME NEW t \in Threads, Step(t), NEW u \in Threads \ {t}, pc'[u] = "walk"
      PROVE  GoodWalk(u)'
  <2>1. pc[u] = "walk" /\ obj'[u] = obj[u] /\ cursor'[u] = cursor[u] /\ firstUnused'[u] = firstUnused[u]
    BY <1>2, OthersKeep
  <2>2. PICK s \in Stripes : s = Stripe(u) /\ s = Stripe(u)' /\ spin[s] = u
    BY <2>1, StripeType DEF Stripe, IInv, SpinInv
  <2>3. list[s] \in Seq(Data) /\ GoodList(s)
    BY DEF IInv, TypeOK, SharedOK, ListInv
  <2>4. pc[t] \in {"walk", "done"} => Stripe(t) # s
    BY <1>2, <2>2 DEF IInv, SpinInv
  <2>5. list'[s] = list[s]
    <3>1. CASE Allocate(t)
      BY <2>4, <3>1 DEF Allocate, AtEnd, IInv, TypeOK, SharedOK
    <3>2. CASE list' = list
      BY <3>2
    <3> QED
      BY <1>2, <3>1, <3>2 DEF Step, Internal, Enter, Exit, Begin, Lock, Match, Pass, NotFound, Reuse,
                 Unlock, Store, MutexLock, MutexTryUnlock, NotOwning, shared
  <2>6. \A i \in DOMAIN list[s] : object'[list[s][i]] = object[list[s][i]]
    <3>1. CASE Allocate(t)
      <4>1. \A i \in DOMAIN list[s] : list[s][i] \in Listed
        BY <2>3 DEF Listed
      <4> QED
        BY <3>1, <4>1 DEF Allocate, IInv, TypeOK, SharedOK
    <3>2. CASE Reuse(t)
      <4>1. StripeOf[object[firstUnused[t]]] # s /\ firstUnused[t] \in Data
        BY <2>4, <3>2, UnusedBlock DEF Reuse, AtEnd
      <4>2. \A i \in DOMAIN list[s] : list[s][i] # firstUnused[t]
        BY <2>3, <4>1 DEF GoodList
      <4> QED
        BY <3>2, <4>2 DEF Reuse, IInv, TypeOK, SharedOK
    <3>3. CASE object' = object
      BY <3>3
    <3> QED
      BY <1>2, <3>1, <3>2, <3>3 DEF Step, Internal, Enter, Exit, Begin, Lock, Match, Pass, NotFound,
                 Unlock, Store, MutexLock, MutexTryUnlock, NotOwning, shared
  <2>7. ASSUME NEW i \in DOMAIN list[s], threadCount[list[s][i]] = 0
        PROVE  threadCount'[list[s][i]] = 0
    <3>a. threadCount \in [Data -> Nat] /\ list[s][i] \in Data /\ list[s][i] \in Listed
      BY <2>3 DEF IInv, TypeOK, SharedOK, Listed
    <3>1. CASE Match(t)
      <4>1. PICK r \in Stripes : r = Stripe(t) /\ r # s
        BY <2>4, <3>1, NodeType DEF Match, AtNode
      <4>2. cursor[t] \in DOMAIN list[r] /\ Node(t) = list[r][cursor[t]] /\ GoodList(r)
        BY <3>1, <4>1, NodeType DEF Match, Node, IInv, ListInv
      <4>3. Node(t) # list[s][i]
        BY <2>3, <4>1, <4>2 DEF GoodList
      <4> QED
        BY <2>7, <3>a, <3>1, <4>3 DEF Match
    <3>2. CASE Reuse(t)
      <4>1. StripeOf[object[firstUnused[t]]] # s
        BY <2>4, <3>2, UnusedBlock DEF Reuse, AtEnd
      <4>2. list[s][i] # firstUnused[t]
        BY <2>3, <4>1 DEF GoodList
      <4> QED
        BY <2>7, <3>a, <3>2, <4>2 DEF Reuse
    <3>3. CASE Allocate(t)
      BY <2>7, <3>a, <3>3 DEF Allocate
    <3>4. ASSUME NEW o \in Objects, FastRelease(t, o) PROVE threadCount'[list[s][i]] = 0
      <4>1. fast[t] # list[s][i]
        BY <2>7, <3>4 DEF FastRelease, FastHealthy
      <4> QED
        BY <2>7, <3>a, <3>4, <4>1 DEF FastRelease
    <3>5. ASSUME NEW o \in Objects, CacheRelease(t, o) PROVE threadCount'[list[s][i]] = 0
      <4>1. PICK d \in Hits(t, o) :
                /\ CacheHealthy(t, d)
                /\ threadCount' = threadCount \/ threadCount' = [threadCount EXCEPT ![d] = @ - 1]
        BY <3>5 DEF CacheRelease
      <4>2. d # list[s][i]
        BY <2>7, <4>1 DEF CacheHealthy
      <4> QED
        BY <2>7, <3>a, <4>1, <4>2
    <3>6. CASE threadCount' = threadCount
      BY <2>7, <3>6
    <3> QED
      BY <1>2, <3>1, <3>2, <3>3, <3>4, <3>5, <3>6
      DEF Step, Internal, Enter, Exit, Lock, Pass, NotFound, Unlock, Store, MutexLock,
          MutexTryUnlock, NotOwning, shared, FastAcquire, CacheAcquire, NotCached, Buggy
  <2>8. GoodWalk(u)
    BY <1>a, <2>1 DEF WalkInv
  <2>9. firstUnused[u] # None => \E i \in DOMAIN list[s] :
                                    list[s][i] = firstUnused[u] /\ threadCount[list[s][i]] = 0
    BY <2>2, <2>8 DEF GoodWalk
  <2> QED
    BY <2>1, <2>2, <2>5, <2>6, <2>7, <2>8, <2>9 DEF GoodWalk
<1>3. ASSUME NEW t \in Threads, Step(t), pc'[t] = "walk" PROVE GoodWalk(t)'
  <2>1. CASE Lock(t)
    <3>1. PICK s \in Stripes : s = Stripe(t) /\ s = Stripe(t)'
      BY <2>1, StripeType DEF Lock, Stripe
    <3>2. \A i \in DOMAIN list[s] : ~(i < 1)
      BY DEF IInv, TypeOK, SharedOK
    <3>3. cursor'[t] = 1 /\ firstUnused'[t] = None /\ list' = list
      BY <1>a, <2>1 DEF Lock, CallOK
    <3> QED
      BY <3>1, <3>2, <3>3 DEF GoodWalk
  <2>2. CASE Pass(t)
    <3>1. PICK s \in Stripes : s = Stripe(t) /\ s = Stripe(t)'
      BY <2>2, NodeType DEF Pass, Stripe
    <3>2. /\ cursor[t] \in DOMAIN list[s] /\ Node(t) = list[s][cursor[t]]
          /\ object[Node(t)] # obj[t]
      BY <2>2, <3>1, NodeType DEF Pass, Node
    <3>3. cursor'[t] = cursor[t] + 1 /\ cursor[t] \in Nat /\ obj'[t] = obj[t]
          /\ list' = list /\ object' = object /\ threadCount' = threadCount
      BY <1>a, <2>2 DEF Pass, CallOK, shared
    <3>4. GoodWalk(t)
      BY <1>a, <2>2 DEF WalkInv, Pass, AtNode
    <3>5. \A i \in DOMAIN list[s] : i < cursor[t] + 1 => object[list[s][i]] # obj[t]
      <4>1. list[s] \in Seq(Data)
        BY DEF IInv, TypeOK, SharedOK
      <4>2. \A i \in DOMAIN list[s] : i < cursor[t] + 1 => i < cursor[t] \/ i = cursor[t]
        BY <3>3, <4>1
      <4> QED
        BY <3>1, <3>2, <3>4, <4>2 DEF GoodWalk
    <3>6. firstUnused'[t] = firstUnused[t] \/
             (firstUnused'[t] = Node(t) /\ threadCount[Node(t)] = 0)
      BY <1>a, <2>2 DEF Pass, CallOK
    <3> QED
      BY <3>1, <3>2, <3>3, <3>4, <3>5, <3>6 DEF GoodWalk
  <2>3. ASSUME NEW o \in Objects, NEW w \in {"ACQUIRE", "RELEASE"}, Begin(t, o, w),
               \/ FastAcquire(t, o) \/ FastRelease(t, o) \/ CacheAcquire(t, o)
               \/ CacheRelease(t, o) \/ NotCached(t, o) \/ Buggy(t, o)
        PROVE  FALSE
    BY <1>a, <1>3, <2>3 DEF CallOK, FastAcquire, FastRelease, CacheAcquire, CacheRelease,
                            NotCached, Buggy, Proceed
  <2>4. ASSUME Internal(t), ~Lock(t), ~Pass(t) PROVE FALSE
    BY <1>a, <1>3, <2>4 DEF CallOK, Internal, Match, NotFound, Reuse, Allocate, Unlock, Store,
                            MutexLock, MutexTryUnlock, NotOwning, Proceed, Return
  <2> QED
    BY <1>3, <2>1, <2>2, <2>3, <2>4 DEF Step, Enter, Exit
<1> QED
  BY <1>1, <1>2, <1>3, NextIsStep DEF WalkInv

-----------------------------------------------------------------------------
(* The mutexes: who has locked what how often is what the caches say.      *)

\* One mutex and one thread.
Consistent(t, d) ==
    IF Held(t, d) = 0 THEN owner[d] # t
    ELSE owner[d] = t /\ recursion[d] = Held(t, d)

LEMMA HeldType ==
    ASSUME IInv, NEW t \in Threads, NEW d \in Data
    PROVE  /\ Count(t, d) \in Nat
           /\ Held(t, d) \in Nat
           /\ Caches(t, d) <=> Count(t, d) # 0
<1>1. /\ lockCount[t][d] \in Nat /\ fastCount[t] \in Nat
      /\ d \in cache[t] <=> lockCount[t][d] # 0
      /\ fast[t] = d => fastCount[t] # 0 /\ d \notin cache[t]
  BY NoneAssumption DEF IInv, TypeOK, CachesOK, CacheInv
<1>2. Count(t, d) \in Nat /\ (Caches(t, d) <=> Count(t, d) # 0)
  BY <1>1 DEF Count, Caches
<1>3. pc[t] = "lock" /\ result[t] = d => Count(t, d) # 0
  BY <1>2 DEF IInv, CallInv, GoodCall
<1> QED
  BY <1>2, <1>3 DEF Held

\* An acquire that hits a cache counts one more, and waits for the mutex.
LEMMA AcquireCounts ==
    ASSUME IInv, NEW t \in Threads, NEW o \in Objects, FastAcquire(t, o) \/ CacheAcquire(t, o)
    PROVE  \E e \in Data :
              /\ object[e] = o /\ Caches(t, e)
              /\ pc'[t] = "lock" /\ result'[t] = e
              /\ \A d \in Data : Count(t, d)' = IF d = e THEN Count(t, d) + 1 ELSE Count(t, d)
<1>a. /\ CallOK /\ CachesOK /\ \A d \in Data : Count(t, d) \in Nat
      /\ lockCount \in [Threads -> [Data -> Nat]] /\ fastCount \in [Threads -> Nat]
      /\ fast \in [Threads -> Data \cup {None}]
  BY HeldType DEF IInv, TypeOK, CachesOK
<1>1. CASE FastAcquire(t, o)
  <2>1. /\ fast[t] \in Data /\ object[fast[t]] = o /\ Caches(t, fast[t])
        /\ pc'[t] = "lock" /\ result'[t] = fast[t]
    BY <1>a, <1>1 DEF FastAcquire, InFast, Proceed, CallOK, Caches
  <2>2. \A d \in Data : Count(t, d)' = IF d = fast[t] THEN Count(t, d) + 1 ELSE Count(t, d)
    BY <1>a, <1>1 DEF FastAcquire, Count
  <2> QED
    BY <2>1, <2>2
<1>2. CASE CacheAcquire(t, o)
  <2>1. PICK e \in Hits(t, o) : lockCount' = [lockCount EXCEPT ![t][e] = @ + 1] /\ Proceed(t, e, "lock")
    BY <1>2 DEF CacheAcquire
  <2>2. /\ e \in Data /\ object[e] = o /\ Caches(t, e)
        /\ pc'[t] = "lock" /\ result'[t] = e
    BY <1>a, <2>1 DEF Hits, Proceed, CachesOK, CallOK, Caches
  <2>3. \A d \in Data : lockCount'[t][d] = IF d = e THEN lockCount[t][d] + 1 ELSE lockCount[t][d]
    BY <1>a, <2>1, <2>2
  <2>4. fast' = fast /\ fastCount' = fastCount
    BY <1>2 DEF CacheAcquire
  <2>5. \A d \in Data : Count(t, d)' = IF d = e THEN Count(t, d) + 1 ELSE Count(t, d)
    BY <1>a, <2>3, <2>4 DEF Count
  <2> QED
    BY <2>2, <2>5
<1> QED
  BY <1>1, <1>2

\* A release that hits a cache counts one less, and is about to unlock.
LEMMA ReleaseCounts ==
    ASSUME IInv, NEW t \in Threads, NEW o \in Objects, FastRelease(t, o) \/ CacheRelease(t, o)
    PROVE  \E e \in Data :
              /\ object[e] = o /\ Caches(t, e)
              /\ pc'[t] = "unlock" /\ result'[t] = e
              /\ \A d \in Data : Count(t, d)' = IF d = e THEN Count(t, d) - 1 ELSE Count(t, d)
<1>a. /\ CallOK /\ CachesOK /\ \A d \in Data : Count(t, d) \in Nat
      /\ lockCount \in [Threads -> [Data -> Nat]] /\ fastCount \in [Threads -> Nat]
      /\ fast \in [Threads -> Data \cup {None}]
  BY HeldType DEF IInv, TypeOK, CachesOK
<1>1. CASE FastRelease(t, o)
  <2>1. /\ fast[t] \in Data /\ fast[t] # None /\ object[fast[t]] = o /\ Caches(t, fast[t])
        /\ pc'[t] = "unlock" /\ result'[t] = fast[t]
        /\ fastCount[t] \in Nat \ {0} /\ lockCount' = lockCount
    BY <1>a, <1>1 DEF FastRelease, InFast, FastHealthy, Proceed, CallOK, Caches
  <2>2. ASSUME NEW d \in Data
        PROVE  Count(t, d)' = IF d = fast[t] THEN Count(t, d) - 1 ELSE Count(t, d)
    <3>1. CASE fastCount[t] = 1
      <4>1. fast'[t] = None
        BY <1>a, <1>1, <3>1 DEF FastRelease
      <4> QED
        BY <1>a, <2>1, <3>1, <4>1, NoneAssumption DEF Count
    <3>2. CASE fastCount[t] # 1
      <4>1. fast' = fast /\ fastCount'[t] = fastCount[t] - 1
        BY <1>a, <1>1, <3>2 DEF FastRelease
      <4> QED
        BY <1>a, <2>1, <4>1 DEF Count
    <3> QED
      BY <3>1, <3>2
  <2> QED
    BY <2>1, <2>2
<1>2. CASE CacheRelease(t, o)
  <2>1. PICK e \in Hits(t, o) : /\ CacheHealthy(t, e)
                                /\ lockCount' = [lockCount EXCEPT ![t][e] = @ - 1]
                                /\ Proceed(t, e, "unlock")
    BY <1>2 DEF CacheRelease
  <2>2. /\ e \in Data /\ object[e] = o /\ Caches(t, e)
        /\ pc'[t] = "unlock" /\ result'[t] = e
    BY <1>a, <2>1 DEF Hits, Proceed, CachesOK, CallOK, Caches
  <2>3. \A d \in Data : lockCount'[t][d] = IF d = e THEN lockCount[t][d] - 1 ELSE lockCount[t][d]
    BY <1>a, <2>1, <2>2
  <2>4. fast' = fast /\ fastCount' = fastCount
    BY <1>2 DEF CacheRelease
  <2>5. \A d \in Data : Count(t, d)' = IF d = e THEN Count(t, d) - 1 ELSE Count(t, d)
    BY <1>a, <2>3, <2>4 DEF Count
  <2> QED
    BY <2>2, <2>5
<1> QED
  BY <1>1, <1>2

\* The block an acquire has found enters a cache with count one.
LEMMA StoreCounts ==
    ASSUME IInv, NEW t \in Threads, Store(t)
    PROVE  \E e \in Data :
              /\ ~Caches(t, e) /\ object[e] = obj[t] /\ result[t] = e
              /\ pc'[t] = "lock" /\ result'[t] = e
              /\ \A d \in Data : Count(t, d)' = IF d = e THEN 1 ELSE Count(t, d)
<1>a. /\ CallOK /\ CachesOK
  BY DEF IInv, TypeOK
<1>1. PICK e \in Data : e = result[t] /\ ~Caches(t, e) /\ object[e] = obj[t]
  BY DEF Store, IInv, CallInv, GoodCall, Listed
<1>2. pc' = [pc EXCEPT ![t] = "lock"] /\ result' = result
  BY <1>1 DEF Store
<1>3. pc'[t] = "lock" /\ result'[t] = e
  BY <1>a, <1>1, <1>2 DEF CallOK
<1>4. ASSUME NEW d \in Data PROVE Count(t, d)' = IF d = e THEN 1 ELSE Count(t, d)
  <2>1. Count(t, e) = 0 /\ lockCount[t] \in [Data -> Nat] /\ fastCount[t] \in Nat
        /\ lockCount[t][e] = 0 /\ fast[t] # e
    BY <1>a, <1>1, HeldType DEF CachesOK, IInv, CacheInv, Caches
  <2>2. CASE fast[t] = None
    <3>1. lockCount' = lockCount /\ fast'[t] = e /\ fastCount'[t] = 1
      BY <1>a, <1>1, <2>2 DEF Store, CachesOK
    <3> QED
      BY <2>1, <2>2, <3>1, NoneAssumption DEF Count
  <2>3. CASE fast[t] # None
    <3>1. /\ lockCount' = [lockCount EXCEPT ![t][e] = 1]
          /\ fast' = fast /\ fastCount' = fastCount
      BY <1>1, <2>3 DEF Store
    <3>2. lockCount'[t][d] = IF d = e THEN 1 ELSE lockCount[t][d]
      BY <1>a, <3>1 DEF CachesOK
    <3> QED
      BY <2>1, <3>1, <3>2 DEF Count
  <2> QED
    BY <2>2, <2>3
<1> QED
  BY <1>1, <1>3, <1>4

LEMMA MutexStep == IInv /\ [Next]_vars => MutexInv'
<1> SUFFICES ASSUME IInv, [Next]_vars PROVE MutexInv'
  OBVIOUS
<1>a. /\ CachesOK /\ CallOK
      /\ owner \in [Data -> Threads \cup {None}] /\ recursion \in [Data -> Nat]
  BY DEF IInv, TypeOK, SharedOK
<1>b. \A d \in Data : /\ owner[d] = None <=> recursion[d] = 0
                      /\ \A t \in Threads : Consistent(t, d)
  BY DEF IInv, MutexInv, Consistent
<1>1. CASE UNCHANGED vars
  BY <1>b, <1>1 DEF vars, call, caches, shared, MutexInv, Consistent, Held, Count
<1>2. ASSUME NEW t \in Threads, Step(t), NEW u \in Threads \ {t}, NEW d \in Data
      PROVE  Held(u, d)' = Held(u, d)
  BY <1>2, OthersKeep DEF Held, Count
\* A step that leaves the mutexes and everybody's share in them alone.
<1>3. ASSUME NEW t \in Threads, Step(t), UNCHANGED <<owner, recursion>>,
             \A d \in Data : Held(t, d)' = Held(t, d)
      PROVE  MutexInv'
  <2>1. \A u \in Threads, d \in Data : Held(u, d)' = Held(u, d)
    BY <1>2, <1>3
  <2> QED
    BY <1>b, <1>3, <2>1 DEF MutexInv, Consistent
<1>4. ASSUME NEW t \in Threads, Internal(t), ~Allocate(t), ~Store(t), ~MutexLock(t), ~MutexTryUnlock(t)
      PROVE  UNCHANGED <<owner, recursion>> /\ \A d \in Data : Held(t, d)' = Held(t, d)
  <2>1. UNCHANGED <<owner, recursion, fast, fastCount, cache, lockCount>>
    BY <1>4 DEF Internal, Lock, Match, Pass, NotFound, Reuse, Unlock, NotOwning, shared, caches
  <2>2. pc[t] \notin {"lock", "unlock"} /\ pc'[t] \notin {"lock", "unlock"}
    BY <1>a, <1>4 DEF CallOK, Internal, Lock, Match, Pass, NotFound, Reuse, Unlock, NotOwning,
                AtNode, AtEnd, Proceed, Return
  <2> QED
    BY <2>1, <2>2 DEF Held, Count
<1>5. ASSUME NEW t \in Threads, Allocate(t) PROVE MutexInv'
  <2>1. PICK e \in Data \ Listed : /\ owner' = [owner EXCEPT ![e] = None]
                                   /\ recursion' = [recursion EXCEPT ![e] = 0]
                                   /\ Proceed(t, e, "done")
                                   /\ UNCHANGED caches
    BY <1>5 DEF Allocate
  <2>2. pc[t] = "walk" /\ pc'[t] = "done"
    BY <1>a, <1>5, <2>1 DEF Allocate, AtEnd, Proceed, CallOK
  <2>3. \A d \in Data : Held(t, d)' = Held(t, d)
    BY <2>1, <2>2 DEF Held, Count, caches
  <2>4. Step(t)
    BY <1>5 DEF Step, Internal
  <2>5. \A u \in Threads, d \in Data : Held(u, d)' = Held(u, d)
    BY <1>2, <2>3, <2>4
  <2>6. ASSUME NEW u \in Threads PROVE Held(u, e) = 0
    <3>1. ~Caches(u, e)
      BY <2>1, UsersListed DEF Users
    <3>2. Count(u, e) = 0
      BY <3>1, HeldType
    <3>3. ~(pc[u] \in {"lock", "unlock"} /\ result[u] = e)
      BY <2>1 DEF IInv, CallInv, GoodCall
    <3> QED
      BY <3>2, <3>3 DEF Held
  <2>7. \A d \in Data : owner'[d] = (IF d = e THEN None ELSE owner[d])
                        /\ recursion'[d] = (IF d = e THEN 0 ELSE recursion[d])
    BY <1>a, <2>1
  <2> QED
    BY <1>b, <2>5, <2>6, <2>7, NoneAssumption DEF MutexInv, Consistent
<1>6. ASSUME NEW t \in Threads, Store(t) PROVE MutexInv'
  <2>1. PICK e \in Data :
            /\ ~Caches(t, e) /\ result[t] = e /\ pc'[t] = "lock" /\ result'[t] = e
            /\ \A d \in Data : Count(t, d)' = IF d = e THEN 1 ELSE Count(t, d)
    BY <1>6, StoreCounts
  <2>2. UNCHANGED <<owner, recursion>> /\ pc[t] = "store"
    BY <1>6 DEF Store, shared
  <2>3. Count(t, e) = 0 /\ \A d \in Data : Count(t, d) \in Nat
    BY <2>1, HeldType
  <2>4. \A d \in Data : Held(t, d)' = Held(t, d)
    BY <2>1, <2>2, <2>3 DEF Held
  <2> QED
    BY <1>3, <1>6, <2>2, <2>4 DEF Step, Internal
<1>7. ASSUME NEW t \in Threads, MutexLock(t) PROVE MutexInv'
  <2>1. PICK e \in Data : e = result[t]
    BY <1>7 DEF MutexLock, IInv, CallInv, GoodCall, Listed
  <2>2. /\ owner' = [owner EXCEPT ![e] = t] /\ recursion' = [recursion EXCEPT ![e] = @ + 1]
        /\ owner[e] \in {None, t} /\ UNCHANGED <<fast, fastCount, lockCount>>
        /\ pc[t] = "lock" /\ pc'[t] = "idle"
    BY <1>a, <1>7, <2>1 DEF MutexLock, Return, caches, CallOK
  <2>3. \A d \in Data : Held(t, d)' = IF d = e THEN Held(t, d) + 1 ELSE Held(t, d)
    <3>1. \A d \in Data : Count(t, d)' = Count(t, d) /\ Count(t, d) \in Nat
      BY <2>2, HeldType DEF Count
    <3> QED
      BY <2>1, <2>2, <3>1 DEF Held
  <2>4. \A u \in Threads \ {t}, d \in Data : Held(u, d)' = Held(u, d)
    BY <1>2, <1>7 DEF Step, Internal
  <2>5. \A d \in Data : owner'[d] = (IF d = e THEN t ELSE owner[d])
                        /\ recursion'[d] = (IF d = e THEN recursion[d] + 1 ELSE recursion[d])
    BY <1>a, <2>2
  <2>6. \A u \in Threads, d \in Data : Held(u, d) \in Nat
    BY HeldType
  <2>7. ASSUME NEW d \in Data, NEW u \in Threads PROVE Consistent(u, d)'
    <3>1. CASE d # e
      BY <1>b, <2>3, <2>4, <2>5, <3>1 DEF Consistent
    <3>2. CASE d = e /\ u = t
      <4>1. Held(t, e) = recursion[e]
        BY <1>b, <2>2, NoneAssumption DEF Consistent
      <4>2. Held(t, e)' = Held(t, e) + 1 /\ recursion'[e] = recursion[e] + 1 /\ owner'[e] = t
        BY <2>3, <2>5
      <4> QED
        BY <2>6, <3>2, <4>1, <4>2 DEF Consistent
    <3>3. CASE d = e /\ u # t
      <4>1. Held(u, e) = 0
        BY <1>b, <2>2, <3>3, NoneAssumption DEF Consistent
      <4> QED
        BY <2>4, <2>5, <3>3, <4>1 DEF Consistent
    <3> QED
      BY <3>1, <3>2, <3>3
  <2>8. \A d \in Data : owner'[d] = None <=> recursion'[d] = 0
    BY <1>a, <1>b, <2>5, NoneAssumption
  <2> QED
    BY <2>7, <2>8 DEF MutexInv, Consistent
<1>8. ASSUME NEW t \in Threads, MutexTryUnlock(t) PROVE MutexInv'
  <2>1. PICK e \in Data : e = result[t]
    BY <1>8 DEF MutexTryUnlock, IInv, CallInv, GoodCall, Listed
  <2>2. \A u \in Threads, d \in Data : Held(u, d) \in Nat /\ Count(u, d) \in Nat
    BY HeldType
  <2>3. pc[t] = "unlock" /\ Held(t, e) # 0
    BY <1>8, <2>1, <2>2 DEF MutexTryUnlock, Held
  <2>4. owner[e] = t /\ recursion[e] = Held(t, e)
    BY <1>b, <2>3 DEF Consistent
  <2>5. /\ recursion' = [recursion EXCEPT ![e] = @ - 1]
        /\ owner' = IF recursion[e] = 1 THEN [owner EXCEPT ![e] = None] ELSE owner
        /\ pc'[t] = "idle" /\ UNCHANGED <<fast, fastCount, lockCount>>
    BY <1>a, <1>8, <2>1, <2>4 DEF MutexTryUnlock, Return, caches, CallOK
  <2>6. \A d \in Data : Held(t, d)' = IF d = e THEN Held(t, d) - 1 ELSE Held(t, d)
    <3>1. \A d \in Data : Count(t, d)' = Count(t, d)
      BY <2>5 DEF Count
    <3> QED
      BY <2>1, <2>2, <2>3, <2>5, <3>1 DEF Held
  <2>7. \A u \in Threads \ {t}, d \in Data : Held(u, d)' = Held(u, d)
    BY <1>2, <1>8 DEF Step, Internal
  <2>8. /\ \A d \in Data \ {e} : owner'[d] = owner[d] /\ recursion'[d] = recursion[d]
        /\ recursion'[e] = recursion[e] - 1
        /\ owner'[e] = IF recursion[e] = 1 THEN None ELSE t
    BY <1>a, <2>4, <2>5
  <2>9. ASSUME NEW d \in Data, NEW u \in Threads PROVE Consistent(u, d)'
    <3>1. CASE d # e
      BY <1>b, <2>6, <2>7, <2>8, <3>1 DEF Consistent
    <3>2. CASE d = e /\ u = t
      <4>1. Held(t, e)' = recursion[e] - 1 /\ recursion'[e] = recursion[e] - 1
        BY <2>4, <2>6, <2>8
      <4>2. recursion[e] \in Nat \ {0}
        BY <2>2, <2>3, <2>4
      <4> QED
        BY <2>8, <3>2, <4>1, <4>2, NoneAssumption DEF Consistent
    <3>3. CASE d = e /\ u # t
      <4>1. Held(u, e) = 0
        BY <1>b, <2>4, <3>3 DEF Consistent
      <4> QED
        BY <2>7, <2>8, <3>3, <4>1, NoneAssumption DEF Consistent
    <3> QED
      BY <3>1, <3>2, <3>3
  <2>10. \A d \in Data : owner'[d] = None <=> recursion'[d] = 0
    <3>1. recursion[e] \in Nat \ {0}
      BY <2>2, <2>3, <2>4
    <3> QED
      BY <1>b, <2>8, <3>1, NoneAssumption
  <2> QED
    BY <2>9, <2>10 DEF MutexInv, Consistent
<1>9. ASSUME NEW t \in Threads, NEW o \in Objects, NEW w \in {"ACQUIRE", "RELEASE"}, Begin(t, o, w),
             \/ FastAcquire(t, o) \/ FastRelease(t, o) \/ CacheAcquire(t, o)
             \/ CacheRelease(t, o) \/ NotCached(t, o) \/ Buggy(t, o)
      PROVE  UNCHANGED <<owner, recursion>> /\ \A d \in Data : Held(t, d)' = Held(t, d)
  <2>1. UNCHANGED <<owner, recursion>> /\ pc[t] = "idle"
    BY <1>9 DEF Begin
  <2>2. \A d \in Data : Count(t, d) \in Nat /\ Held(t, d) = Count(t, d)
    BY <2>1, HeldType DEF Held
  <2>3. CASE FastAcquire(t, o) \/ CacheAcquire(t, o)
    <3>1. PICK e \in Data :
              /\ pc'[t] = "lock" /\ result'[t] = e
              /\ \A d \in Data : Count(t, d)' = IF d = e THEN Count(t, d) + 1 ELSE Count(t, d)
      BY <2>3, AcquireCounts
    <3> QED
      BY <2>1, <2>2, <3>1 DEF Held
  <2>4. CASE FastRelease(t, o) \/ CacheRelease(t, o)
    <3>1. PICK e \in Data :
              /\ pc'[t] = "unlock" /\ result'[t] = e
              /\ \A d \in Data : Count(t, d)' = IF d = e THEN Count(t, d) - 1 ELSE Count(t, d)
      BY <2>4, ReleaseCounts
    <3> QED
      BY <2>1, <2>2, <3>1 DEF Held
  <2>5. CASE NotCached(t, o) \/ Buggy(t, o)
    <3>1. pc'[t] \in {"spin", "fatal"} /\ UNCHANGED <<fast, fastCount, lockCount>>
      BY <1>a, <2>5 DEF NotCached, Buggy, Proceed, CallOK, caches
    <3> QED
      BY <2>1, <2>2, <3>1 DEF Held, Count
  <2> QED
    BY <1>9, <2>3, <2>4, <2>5
<1>10. ASSUME NEW t \in Threads, Step(t) PROVE MutexInv'
  BY <1>3, <1>4, <1>5, <1>6, <1>7, <1>8, <1>9, <1>10 DEF Step, Internal, Enter, Exit
<1> QED
  BY <1>1, <1>10, NextIsStep

-----------------------------------------------------------------------------
(* threadCount and the users of a block.                                   *)

Uses(t, d) == Caches(t, d) \/ Arriving(t, d)

\* The users of a block change by the thread that moves, and only when it
\* arrives at the block or drops its last entry for it.
LEMMA UsersMove ==
    ASSUME IInv, NEW t \in Threads, Step(t), NEW d \in Data
    PROVE  /\ (Uses(t, d) <=> Uses(t, d)') => Users(d)' = Users(d)
           /\ ~Uses(t, d) /\ Uses(t, d)' => t \notin Users(d) /\ Users(d)' = Users(d) \cup {t}
           /\ Uses(t, d) /\ ~Uses(t, d)' => t \in Users(d) /\ Users(d)' = Users(d) \ {t}
<1>1. \A u \in Threads \ {t} : Uses(u, d)' <=> Uses(u, d)
  BY OthersKeep DEF Uses, Caches, Arriving
<1>2. /\ \A u : u \in Users(d) <=> u \in Threads /\ Uses(u, d)
      /\ \A u : u \in Users(d)' <=> u \in Threads /\ Uses(u, d)'
  BY DEF Users, Uses
<1> QED
  BY <1>1, <1>2

\* How threadCount must move along.
CountMoves(t, d) ==
    /\ (Uses(t, d) <=> Uses(t, d)') => threadCount'[d] - leaked'[d] = threadCount[d] - leaked[d]
    /\ ~Uses(t, d) /\ Uses(t, d)' => threadCount'[d] - leaked'[d] = threadCount[d] - leaked[d] + 1
    /\ Uses(t, d) /\ ~Uses(t, d)' => threadCount'[d] - leaked'[d] = threadCount[d] - leaked[d] - 1

LEMMA CountFollows ==
    ASSUME IInv, SharedOK', NEW t \in Threads, Step(t), NEW d \in Data, CountMoves(t, d)
    PROVE  threadCount'[d] = Cardinality(Users(d)') + leaked'[d]
<1>1. /\ threadCount[d] = Cardinality(Users(d)) + leaked[d]
      /\ Cardinality(Users(d)) \in Nat
      /\ threadCount[d] \in Nat /\ leaked[d] \in Nat
      /\ threadCount'[d] \in Nat /\ leaked'[d] \in Nat
  BY UsersFinite DEF IInv, CountInv, TypeOK, SharedOK
<1>2. CASE Uses(t, d) <=> Uses(t, d)'
  <2>1. Cardinality(Users(d)') = Cardinality(Users(d))
    BY <1>2, UsersMove
  <2> QED
    BY <1>1, <1>2, <2>1 DEF CountMoves
<1>3. CASE ~Uses(t, d) /\ Uses(t, d)'
  <2>1. Cardinality(Users(d)') = Cardinality(Users(d)) + 1
    BY <1>3, UsersMove, UserJoins
  <2> QED
    BY <1>1, <1>3, <2>1 DEF CountMoves
<1>4. CASE Uses(t, d) /\ ~Uses(t, d)'
  <2>1. Cardinality(Users(d)') = Cardinality(Users(d)) - 1
    BY <1>4, UsersMove, UserLeaves
  <2> QED
    BY <1>1, <1>4, <2>1 DEF CountMoves
<1> QED
  BY <1>2, <1>3, <1>4

LEMMA CountStep == IInv /\ [Next]_vars /\ SharedOK' => CountInv'
<1> SUFFICES ASSUME IInv, [Next]_vars, SharedOK' PROVE CountInv'
  OBVIOUS
<1>a. /\ CachesOK /\ CallOK
      /\ threadCount \in [Data -> Nat] /\ leaked \in [Data -> Nat]
  BY DEF IInv, TypeOK, SharedOK
<1>b. Listed \subseteq Data
  BY DEF Listed
<1>1. CASE UNCHANGED vars
  <2>1. \A d \in Data : Users(d)' = Users(d)
    BY <1>1 DEF vars, call, caches, Users, Caches, Arriving
  <2>2. \A d \in Data : Cardinality(Users(d)') = Cardinality(Users(d))
    BY <2>1
  <2>3. UNCHANGED <<list, threadCount, leaked>>
    BY <1>1 DEF vars, shared
  <2> QED
    BY <2>2, <2>3 DEF IInv, CountInv, Listed
\* A block that is not listed has no leaks.
<1>2. ASSUME NEW t \in Threads, Step(t), NEW d \in Data \ Listed' PROVE leaked'[d] = 0
  <2>1. d \notin Listed
    BY <1>2, BlocksStay
  <2>2. leaked[d] = 0
    BY <2>1 DEF IInv, CountInv
  <2>3. CASE Match(t)
    <3>1. Node(t) # d
      BY <2>1, <2>3, NodeType DEF Match
    <3> QED
      BY <1>a, <2>2, <2>3, <3>1 DEF Match
  <2>4. CASE ~Match(t)
    <3>1. leaked' = leaked
      BY <1>2, <2>4 DEF Step, Internal, Enter, Exit, Begin, Lock, Pass, NotFound, Reuse, Allocate,
              Unlock, Store, MutexLock, MutexTryUnlock, NotOwning, shared
    <3> QED
      BY <2>2, <3>1
  <2> QED
    BY <2>3, <2>4
\* Steps that neither count nor change who uses what.
<1>3. ASSUME NEW t \in Threads, UNCHANGED <<threadCount, leaked>>, NEW d \in Data,
             Uses(t, d) <=> Uses(t, d)'
      PROVE  CountMoves(t, d)
  BY <1>3 DEF CountMoves
<1>4. ASSUME NEW t \in Threads,
             Lock(t) \/ Pass(t) \/ NotFound(t) \/ MutexLock(t) \/ MutexTryUnlock(t) \/ NotOwning(t),
             NEW d \in Data
      PROVE  CountMoves(t, d)
  <2>1. UNCHANGED <<threadCount, leaked, fast, cache>>
    BY <1>4 DEF Lock, Pass, NotFound, MutexLock, MutexTryUnlock, NotOwning, shared, caches
  <2>2. ~Arriving(t, d) /\ ~Arriving(t, d)'
    BY <1>a, <1>4 DEF Lock, Pass, NotFound, MutexLock, MutexTryUnlock, NotOwning, Arriving,
                AtNode, AtEnd, Proceed, Return, CallOK
  <2> QED
    BY <1>3, <2>1, <2>2 DEF Uses, Caches
<1>5. ASSUME NEW t \in Threads, Unlock(t) \/ Store(t), NEW d \in Data
      PROVE  CountMoves(t, d)
  <2>1. UNCHANGED <<threadCount, leaked>>
    BY <1>5 DEF Unlock, Store, shared
  <2>2. GoodCall(t)
    BY DEF IInv, CallInv
  <2>3. CASE Unlock(t)
    <3>1. (Caches(t, d) <=> Caches(t, d)') /\ result' = result /\ why' = why /\ pc[t] = "done"
      BY <2>3 DEF Unlock, Caches, caches
    <3>2. why[t] = "ACQUIRE" => pc'[t] = "store"
      BY <1>a, <2>2, <2>3, <1>b, NoneAssumption DEF Unlock, CallOK, GoodCall
    <3> QED
      BY <1>3, <2>1, <3>1, <3>2 DEF Uses, Arriving
  <2>4. CASE Store(t)
    <3>1. result[t] \in Data /\ object[result[t]] = obj[t] /\ pc[t] = "store" /\ why[t] = "ACQUIRE"
      BY <1>b, <2>2, <2>4 DEF Store, GoodCall
    <3>2. pc' = [pc EXCEPT ![t] = "lock"]
      BY <2>4, <3>1 DEF Store
    <3>3. Caches(t, d)' <=> (Caches(t, d) \/ d = result[t])
      <4>1. CASE fast[t] = None
        <5>1. fast'[t] = result[t] /\ cache' = cache
          BY <1>a, <2>4, <3>1, <4>1 DEF Store, CachesOK
        <5> QED
          BY <4>1, <5>1, NoneAssumption DEF Caches
      <4>2. CASE fast[t] # None
        <5>1. fast' = fast /\ cache'[t] = cache[t] \cup {result[t]}
          BY <1>a, <2>4, <3>1, <4>2 DEF Store, CachesOK
        <5> QED
          BY <5>1 DEF Caches
      <4> QED
        BY <4>1, <4>2
    <3>4. pc'[t] = "lock"
      BY <1>a, <3>2 DEF CallOK
    <3>5. Uses(t, d) <=> Uses(t, d)'
      BY <3>1, <3>3, <3>4 DEF Uses, Arriving
    <3> QED
      BY <1>3, <2>1, <3>5
  <2> QED
    BY <1>5, <2>3, <2>4
<1>6. ASSUME NEW t \in Threads, Match(t), NEW d \in Data PROVE CountMoves(t, d)
  <2>1. PICK n \in Data : n = Node(t)
    BY <1>6, NodeType DEF Match
  <2>2. /\ pc[t] = "walk" /\ pc'[t] = "done" /\ result'[t] = n /\ why' = why
        /\ UNCHANGED <<fast, cache>> /\ object[n] = obj[t]
    BY <1>a, <1>6, <2>1 DEF Match, AtNode, Proceed, CallOK, caches
  <2>3. ~Caches(t, n)
    BY <2>2 DEF IInv, CallInv, GoodCall
  <2>4. threadCount'[d] = IF d = n THEN threadCount[d] + 1 ELSE threadCount[d]
    BY <1>a, <1>6, <2>1 DEF Match
  <2>5. leaked'[d] = IF d = n /\ why[t] = "RELEASE" THEN leaked[d] + 1 ELSE leaked[d]
    BY <1>a, <1>6, <2>1 DEF Match
  <2>6. why[t] \in {"ACQUIRE", "RELEASE"} /\ threadCount[d] \in Nat /\ leaked[d] \in Nat
    BY <1>a DEF CallOK
  <2>7. Uses(t, d) <=> Caches(t, d)
    BY <2>2 DEF Uses, Arriving
  <2>8. Uses(t, d)' <=> Caches(t, d) \/ (d = n /\ why[t] = "ACQUIRE")
    BY <2>2 DEF Uses, Arriving, Caches
  <2> QED
    BY <2>3, <2>4, <2>5, <2>6, <2>7, <2>8 DEF CountMoves
<1>7. ASSUME NEW t \in Threads, Reuse(t) \/ Allocate(t), NEW d \in Data PROVE CountMoves(t, d)
  <2>1. PICK n \in Data : /\ Proceed(t, n, "done") /\ threadCount' = [threadCount EXCEPT ![n] = 1]
                          /\ Users(n) = {} /\ leaked[n] = 0
    <3>1. CASE Reuse(t)
      BY <3>1, UnusedBlock DEF Reuse
    <3>2. CASE Allocate(t)
      <4>1. PICK n \in Data \ Listed : Proceed(t, n, "done") /\ threadCount' = [threadCount EXCEPT ![n] = 1]
        BY <3>2 DEF Allocate
      <4>2. Users(n) = {}
        BY <4>1, UsersListed
      <4>3. leaked[n] = 0
        BY <4>1 DEF IInv, CountInv
      <4> QED
        BY <4>1, <4>2, <4>3
    <3> QED
      BY <1>7, <3>1, <3>2
  <2>2. /\ pc[t] = "walk" /\ pc'[t] = "done" /\ result'[t] = n /\ why'[t] = "ACQUIRE" /\ why' = why
        /\ UNCHANGED <<fast, cache, leaked>>
    BY <1>a, <1>7, <2>1 DEF Reuse, Allocate, AtEnd, Proceed, CallOK, caches
  <2>3. threadCount[n] = 0
    <3>1. Cardinality(Users(n)) = 0
      BY <2>1, UsersFinite
    <3> QED
      BY <2>1, <3>1 DEF IInv, CountInv
  <2>4. ~Uses(t, n)
    BY <2>1 DEF Users, Uses
  <2>5. Uses(t, d)' <=> Uses(t, d) \/ d = n
    BY <2>2 DEF Uses, Arriving, Caches
  <2>6. threadCount'[d] = IF d = n THEN threadCount[d] + 1 ELSE threadCount[d]
    BY <1>a, <2>1, <2>3
  <2>7. threadCount[d] \in Nat /\ leaked[d] \in Nat /\ leaked'[d] = leaked[d]
    BY <1>a, <2>2
  <2> QED
    BY <2>4, <2>5, <2>6, <2>7 DEF CountMoves
<1>8. ASSUME NEW t \in Threads, NEW o \in Objects, NEW w \in {"ACQUIRE", "RELEASE"}, Begin(t, o, w),
             \/ FastAcquire(t, o) \/ FastRelease(t, o) \/ CacheAcquire(t, o)
             \/ CacheRelease(t, o) \/ NotCached(t, o) \/ Buggy(t, o),
             NEW d \in Data
      PROVE  CountMoves(t, d)
  <2>1. pc[t] = "idle" /\ leaked' = leaked
    BY <1>8 DEF Begin
  <2>2. pc'[t] \in {"lock", "unlock", "spin", "fatal"}
    BY <1>a, <1>8 DEF FastAcquire, FastRelease, CacheAcquire, CacheRelease, NotCached, Buggy, Proceed, CallOK
  <2>3. (Uses(t, d) <=> Caches(t, d)) /\ (Uses(t, d)' <=> Caches(t, d)')
    BY <2>1, <2>2 DEF Uses, Arriving
  <2>4. /\ threadCount[d] \in Nat /\ leaked[d] \in Nat
        /\ fast[t] \in Data \cup {None} /\ cache[t] \subseteq Data
        /\ fast[t] = d => d \notin cache[t]
    BY <1>a DEF CachesOK, IInv, CacheInv
  <2>5. CASE UNCHANGED <<fast, cache, threadCount>>
    BY <1>3, <2>1, <2>3, <2>5 DEF Caches
  <2>6. CASE FastRelease(t, o) /\ fastCount[t] = 1
    <3>1. /\ fast[t] # None /\ fast'[t] = None /\ cache' = cache
          /\ threadCount' = [threadCount EXCEPT ![fast[t]] = @ - 1]
      BY <1>a, <2>6 DEF FastRelease, InFast, CachesOK
    <3>2. threadCount'[d] = IF d = fast[t] THEN threadCount[d] - 1 ELSE threadCount[d]
      BY <1>a, <2>4, <3>1
    <3>3. Caches(t, d)' <=> Caches(t, d) /\ d # fast[t]
      BY <2>4, <3>1, NoneAssumption DEF Caches
    <3>4. d = fast[t] => Caches(t, d)
      BY DEF Caches
    <3> QED
      BY <2>1, <2>3, <2>4, <3>2, <3>3, <3>4 DEF CountMoves
  <2>7. CASE CacheRelease(t, o) /\ ~UNCHANGED <<cache, threadCount>>
    <3>1. PICK e \in Hits(t, o) : /\ cache' = [cache EXCEPT ![t] = @ \ {e}]
                                  /\ threadCount' = [threadCount EXCEPT ![e] = @ - 1]
                                  /\ fast' = fast
      BY <2>7 DEF CacheRelease
    <3>2. e \in cache[t] /\ e # fast[t] /\ e \in Data
      BY <2>4, <3>1 DEF Hits, IInv, CacheInv
    <3>3. threadCount'[d] = IF d = e THEN threadCount[d] - 1 ELSE threadCount[d]
      BY <1>a, <3>1, <3>2
    <3>4. Caches(t, d)' <=> Caches(t, d) /\ d # e
      BY <1>a, <3>1, <3>2 DEF Caches, CachesOK
    <3>5. d = e => Caches(t, d)
      BY <3>2 DEF Caches
    <3> QED
      BY <2>1, <2>3, <2>4, <3>3, <3>4, <3>5 DEF CountMoves
  <2> QED
    BY <1>8, <2>5, <2>6, <2>7
    DEF FastAcquire, FastRelease, CacheAcquire, CacheRelease, NotCached, Buggy, caches
<1>9. ASSUME NEW t \in Threads, Step(t), NEW d \in Data PROVE CountMoves(t, d)
  BY <1>4, <1>5, <1>6, <1>7, <1>8, <1>9 DEF Step, Internal, Enter, Exit
<1>10. ASSUME NEW t \in Threads, Step(t) PROVE CountInv'
  <2>1. \A d \in Data : threadCount'[d] = Cardinality(Users(d)') + leaked'[d]
    BY <1>9, <1>10, CountFollows
  <2> QED
    BY <1>2, <1>10, <2>1 DEF CountInv
<1> QED
  BY <1>1, <1>10, NextIsStep

-----------------------------------------------------------------------------
(* The theorems.                                                           *)

\* The inductive invariant holds in every state.
THEOREM Invariance == Spec => []IInv
<1>1. Init => IInv
  BY InitIInv
<1>2. IInv /\ [Next]_vars => IInv'
  BY SharedStep, CachesStep, CallStep, SpinStep, ListStep, CacheStep, CallInvStep, WalkStep,
     MutexStep, CountStep DEF IInv, TypeOK
<1> QED
  BY <1>1, <1>2, PTL DEF Spec

\* Type correctness of the whole state of objc-sync.mm.
THEOREM TypeCorrect == Spec => []TypeOK
  BY Invariance, PTL DEF IInv

\* Blocks of the same object are the same block: the search of id2data and
\* the retargeting of unused blocks never leave two mutexes for one object.
LEMMA DistinctBlocks == IInv => OneBlockPerObject
<1> SUFFICES ASSUME IInv, NEW d \in Listed, NEW e \in Listed, object[d] = object[e]
             PROVE  d = e
  BY DEF OneBlockPerObject
<1>1. PICK r \in Stripes : \E i \in DOMAIN list[r] : list[r][i] = d
  BY DEF Listed
<1>2. PICK s \in Stripes : \E i \in DOMAIN list[s] : list[s][i] = e
  BY DEF Listed
<1>3. GoodList(r) /\ GoodList(s)
  BY DEF IInv, ListInv
<1>4. r = s
  BY <1>1, <1>2, <1>3 DEF GoodList
<1> QED
  BY <1>1, <1>2, <1>3, <1>4 DEF GoodList

THEOREM BlocksAreDistinct == Spec => []OneBlockPerObject
  BY Invariance, DistinctBlocks, PTL

\* No cache entry is ever stale: the three "is buggy" aborts of id2data
\* cannot be reached.
THEOREM NoAbort == Spec => []NeverFatal
<1>1. IInv => NeverFatal
  BY DEF IInv, CallInv, GoodCall, NeverFatal
<1> QED
  BY <1>1, Invariance, PTL

\* threadCount never under-counts the users of a block, however the unlocked
\* decrements and the locked increments interleave.
THEOREM CountIsCovered == Spec => []CountCoversUsers
<1>1. IInv => CountCoversUsers
  BY DEF IInv, CountInv, CountCoversUsers
<1> QED
  BY <1>1, Invariance, PTL

\* A thread that is inside always finds its mutex still locked by itself.
LEMMA OwnsAtUnlock == IInv => ReleaseOwnsMutex
<1> SUFFICES ASSUME IInv, NEW t \in Threads, pc[t] = "unlock"
             PROVE  owner[result[t]] = t
  BY DEF ReleaseOwnsMutex
<1>1. result[t] \in Data
  BY DEF IInv, CallInv, GoodCall, Listed
<1>2. Count(t, result[t]) \in Nat
  BY <1>1, HeldType
<1>3. Held(t, result[t]) # 0
  BY <1>2 DEF Held
<1> QED
  BY <1>1, <1>3 DEF IInv, MutexInv

THEOREM UnlockSucceeds == Spec => []ReleaseOwnsMutex
  BY Invariance, OwnsAtUnlock, PTL

\* Only a block without users is given to another object.
THEOREM RetargetIsSafe == Spec => RetargetUnusedOnly
<1>1. IInv /\ [Next]_vars => [\A d \in Listed : object'[d] # object[d] => Users(d) = {}]_vars
  BY BlocksStay
<1> QED
  BY <1>1, Invariance, PTL DEF Spec, RetargetUnusedOnly

\* What Depth computes with a CHOOSE.
LEMMA DepthIs ==
    ASSUME IInv, NEW t \in Threads, NEW o \in Objects
    PROVE  /\ \A d \in Data : Caches(t, d) /\ object[d] = o => Depth(t, o) = Count(t, d)
           /\ (\A d \in Data : Caches(t, d) => object[d] # o) => Depth(t, o) = 0
<1>1. CachesOK /\ CacheInv /\ OneBlockPerObject
  BY DistinctBlocks DEF IInv, TypeOK
<1>2. ASSUME NEW d \in Data, Caches(t, d), object[d] = o PROVE Depth(t, o) = Count(t, d)
  <2>1. d \in Listed
    BY <1>1, <1>2, NoneAssumption DEF CacheInv, Caches
  <2>2. CASE fast[t] = d
    <3>1. lockCount[t][d] = 0 /\ fastCount[t] \in Nat /\ d # None
      BY <1>1, <2>2, NoneAssumption DEF CacheInv, CachesOK
    <3> QED
      BY <1>2, <2>2, <3>1 DEF Depth, InFast, Count
  <2>3. CASE fast[t] # d
    <3>1. d \in cache[t] /\ ~InFast(t, o)
      BY <1>1, <1>2, <2>1, <2>3 DEF Caches, InFast, CacheInv, OneBlockPerObject
    <3>2. Hits(t, o) = {d}
      BY <1>1, <1>2, <2>1, <3>1 DEF Hits, CacheInv, OneBlockPerObject
    <3>3. (CHOOSE e \in Hits(t, o) : TRUE) = d
      BY <3>2
    <3>4. lockCount[t][d] \in Nat
      BY <1>1 DEF CachesOK
    <3> QED
      BY <2>3, <3>1, <3>2, <3>3, <3>4 DEF Depth, Count
  <2> QED
    BY <2>2, <2>3
<1>3. ASSUME \A d \in Data : Caches(t, d) => object[d] # o PROVE Depth(t, o) = 0
  BY <1>1, <1>3 DEF Depth, InFast, Hits, Caches, CachesOK
<1> QED
  BY <1>2, <1>3

LEMMA InsideZero ==
    ASSUME IInv, NEW t \in Threads, NEW o \in Objects,
           \A d \in Data : Caches(t, d) => object[d] # o
    PROVE  Inside(t, o) = 0
<1>1. Depth(t, o) = 0
  BY DepthIs
<1>2. pc[t] = "lock" => Caches(t, result[t]) /\ object[result[t]] = obj[t] /\ result[t] \in Data
  BY DEF IInv, CallInv, GoodCall, Listed
<1>3. ~(pc[t] = "lock" /\ obj[t] = o)
  BY <1>2
<1>4. Inside(t, o) = Depth(t, o) - 0
  BY <1>3, Zenon DEF Inside
<1> QED
  BY <1>1, <1>4

\* The count of thread t for block d, less the acquire that still waits.
Amount(t, d) == Count(t, d) - (IF pc[t] = "lock" /\ result[t] = d THEN 1 ELSE 0)

\* How often a thread is inside an object is what it has of the object's block.
LEMMA InsideIs ==
    ASSUME IInv, NEW t \in Threads, NEW d \in Listed, NEW o \in Objects, object[d] = o
    PROVE  Inside(t, o) = Amount(t, d)
<1>a. d \in Data
  BY DEF Listed
<1>b. pc[t] = "lock" => /\ object[result[t]] = obj[t] /\ result[t] \in Listed
                        /\ Caches(t, result[t])
  BY DEF IInv, CallInv, GoodCall
<1>1. CASE Caches(t, d)
  <2>1. Depth(t, o) = Count(t, d)
    BY <1>a, <1>1, DepthIs
  <2>2. pc[t] = "lock" => (obj[t] = o <=> result[t] = d)
    BY <1>b, DistinctBlocks DEF OneBlockPerObject
  <2> QED
    BY <2>1, <2>2 DEF Inside, Amount
<1>2. CASE ~Caches(t, d)
  <2>1. ASSUME NEW e \in Data, Caches(t, e) PROVE object[e] # o
    <3>1. e \in Listed
      BY <2>1, NoneAssumption DEF IInv, CacheInv, Caches
    <3> QED
      BY <1>2, <2>1, <3>1, DistinctBlocks DEF OneBlockPerObject
  <2>2. Inside(t, o) = 0
    BY <2>1, InsideZero
  <2>3. Count(t, d) = 0 /\ ~(pc[t] = "lock" /\ result[t] = d)
    BY <1>a, <1>b, <1>2, HeldType
  <2>4. Amount(t, d) = Count(t, d) - 0
    BY <2>3, Zenon DEF Amount
  <2> QED
    BY <2>2, <2>3, <2>4
<1> QED
  BY <1>1, <1>2

LEMMA AmountOwns ==
    ASSUME IInv, NEW t \in Threads, NEW d \in Data
    PROVE  Amount(t, d) \in Nat /\ (Amount(t, d) # 0 => owner[d] = t /\ Caches(t, d))
<1>1. Held(t, d) \in Nat /\ Count(t, d) \in Nat /\ (Caches(t, d) <=> Count(t, d) # 0)
  BY HeldType
<1>2. Held(t, d) # 0 => owner[d] = t
  BY DEF IInv, MutexInv
<1>3. pc[t] = "lock" /\ result[t] = d => Caches(t, d)
  BY DEF IInv, CallInv, GoodCall
<1> QED
  BY <1>1, <1>2, <1>3 DEF Amount, Held

\* Being inside an object is owning the mutex of its block.
LEMMA InsideOwns ==
    ASSUME IInv, NEW t \in Threads, NEW o \in Objects
    PROVE  /\ Inside(t, o) \in Nat
           /\ Inside(t, o) # 0 => \E d \in Listed : object[d] = o /\ owner[d] = t
<1>1. CASE \E d \in Listed : object[d] = o
  <2>1. PICK d \in Listed : object[d] = o
    BY <1>1
  <2>2. Inside(t, o) = Amount(t, d) /\ d \in Data
    BY <2>1, InsideIs DEF Listed
  <2> QED
    BY <2>1, <2>2, AmountOwns
<1>2. CASE \A d \in Listed : object[d] # o
  <2>1. \A d \in Data : Caches(t, d) => d \in Listed
    BY NoneAssumption DEF IInv, CacheInv, Caches
  <2>2. Inside(t, o) = 0
    BY <1>2, <2>1, InsideZero
  <2> QED
    BY <2>2
<1> QED
  BY <1>1, <1>2

LEMMA Excluded == IInv => MutualExclusion
<1> SUFFICES ASSUME IInv, NEW t \in Threads, NEW u \in Threads, NEW o \in Objects,
                    Inside(t, o) > 0, Inside(u, o) > 0
             PROVE  t = u
  BY DEF MutualExclusion
<1>1. PICK d \in Listed : object[d] = o /\ owner[d] = t
  BY InsideOwns
<1>2. PICK e \in Listed : object[e] = o /\ owner[e] = u
  BY InsideOwns
<1> QED
  BY <1>1, <1>2, DistinctBlocks DEF OneBlockPerObject

\* Two threads are never inside @synchronized blocks of the same object.
THEOREM Exclusion == Spec => []MutualExclusion
  BY Invariance, Excluded, PTL

LEMMA Justified == IInv => WaitIsJustified
<1> SUFFICES ASSUME IInv, NEW t \in Threads, NEW u \in Threads,
                    pc[t] = "lock", u # t, owner[result[t]] = u,
                    ~(pc[u] = "unlock" /\ result[u] = result[t])
             PROVE  Inside(u, obj[t]) > 0
  BY DEF WaitIsJustified
<1>1. PICK d \in Listed : d = result[t] /\ object[d] = obj[t]
  BY DEF IInv, CallInv, GoodCall
<1>2. d \in Data /\ obj[t] \in Objects
  BY DEF Listed, IInv, SpinInv
<1>3. Held(u, d) # 0 /\ Held(u, d) \in Nat /\ Count(u, d) \in Nat
  BY <1>1, <1>2, HeldType DEF IInv, MutexInv
<1>4. Held(u, d) = Amount(u, d)
  BY <1>1, <1>3 DEF Held, Amount
<1>5. Inside(u, obj[t]) = Amount(u, d)
  BY <1>1, <1>2, InsideIs
<1> QED
  BY <1>3, <1>4, <1>5

\* A thread waits for an object only while another thread is inside that
\* object or on its way out of the block, although blocks are handed from
\* object to object before their mutex is unlocked.
THEOREM WaitsAreJustified == Spec => []WaitIsJustified
  BY Invariance, Justified, PTL

-----------------------------------------------------------------------------
(* ObjcSync implements Monitors.                                           *)

\* What the lemmas above say of a state, to be had of the next one too.
Depths ==
    /\ \A t \in Threads, o \in Objects :
          /\ \A d \in Data : Caches(t, d) /\ object[d] = o => Depth(t, o) = Count(t, d)
          /\ (\A d \in Data : Caches(t, d) => object[d] # o) => Depth(t, o) = 0
    /\ \A t \in Threads, o \in Objects :
          /\ Inside(t, o) \in Nat
          /\ Inside(t, o) # 0 => \E d \in Listed : object[d] = o /\ owner[d] = t
          /\ \A d \in Listed : object[d] = o => Inside(t, o) = Amount(t, d)

LEMMA DepthsNow == IInv => Depths
<1> SUFFICES ASSUME IInv, NEW t \in Threads, NEW o \in Objects
             PROVE  /\ \A d \in Data : Caches(t, d) /\ object[d] = o => Depth(t, o) = Count(t, d)
                    /\ (\A d \in Data : Caches(t, d) => object[d] # o) => Depth(t, o) = 0
                    /\ Inside(t, o) \in Nat
                    /\ Inside(t, o) # 0 => \E d \in Listed : object[d] = o /\ owner[d] = t
                    /\ \A d \in Listed : object[d] = o => Inside(t, o) = Amount(t, d)
  BY Zenon DEF Depths
<1>1. \A d \in Data : Caches(t, d) /\ object[d] = o => Depth(t, o) = Count(t, d)
  BY DepthIs
<1>2. (\A d \in Data : Caches(t, d) => object[d] # o) => Depth(t, o) = 0
  BY DepthIs
<1>3. /\ Inside(t, o) \in Nat
      /\ Inside(t, o) # 0 => \E d \in Listed : object[d] = o /\ owner[d] = t
  BY InsideOwns
<1>4. \A d \in Listed : object[d] = o => Inside(t, o) = Amount(t, d)
  BY InsideIs
<1> QED
  BY <1>1, <1>2, <1>3, <1>4

LEMMA DepthsNext == IInv' => Depths'
  BY DepthsNow, PTL

\* Who neither changes its entries nor waits differently stays as deep
\* inside every object as it was, whatever happens to unused blocks.
LEMMA InsideKeeps ==
    ASSUME IInv, IInv', [Next]_vars, NEW u \in Threads, NEW o \in Objects,
           fast'[u] = fast[u], fastCount'[u] = fastCount[u],
           cache'[u] = cache[u], lockCount'[u] = lockCount[u],
           \/ pc'[u] = pc[u] /\ obj'[u] = obj[u]
           \/ pc'[u] # "lock" /\ pc[u] # "lock"
    PROVE  Inside(u, o)' = Inside(u, o)
<1>1. \A d \in Data : /\ Caches(u, d)' <=> Caches(u, d)
                      /\ Count(u, d)' = Count(u, d)
  BY DEF Caches, Count
<1>2. \A d \in Data : Caches(u, d) => object'[d] = object[d]
  <2>1. \A d \in Data : Caches(u, d) => Users(d) # {}
    BY DEF Users
  <2> QED
    BY <2>1, UsersListed, BlocksStay
<1>3. Depth(u, o)' = Depth(u, o)
  <2>1. CASE \A d \in Data : Caches(u, d) => object[d] # o
    <3>1. \A d \in Data : Caches(u, d)' => object'[d] # o
      BY <1>1, <1>2, <2>1
    <3>2. Depth(u, o)' = 0
      BY <3>1, DepthsNext, Zenon DEF Depths
    <3> QED
      BY <2>1, <3>2, DepthIs
  <2>2. ASSUME NEW d \in Data, Caches(u, d), object[d] = o PROVE Depth(u, o)' = Depth(u, o)
    <3>1. Caches(u, d)' /\ object'[d] = o
      BY <1>1, <1>2, <2>2
    <3>2. Depth(u, o)' = Count(u, d)'
      BY <3>1, DepthsNext, ZenonT(30) DEF Depths
    <3> QED
      BY <1>1, <2>2, <3>2, DepthIs
  <2> QED
    BY <2>1, <2>2
<1> QED
  BY <1>3, Zenon DEF Inside

\* How deep everybody is inside decides the abstract step.
LEMMA AbstractStep ==
    ASSUME IInv, IInv', NEW t \in Threads, NEW o \in Objects, NEW n \in Int,
           \A u \in Threads, p \in Objects :
              Inside(u, p)' = IF u = t /\ p = o THEN Inside(u, p) + n ELSE Inside(u, p)
    PROVE  /\ n = 0 => UNCHANGED inside
           /\ n = 1 /\ (\A u \in Threads \ {t} : Inside(u, o) = 0) => Promise!Enter(t, o)
           /\ n = -1 /\ Inside(t, o) > 0 => Promise!Exit(t, o)
<1>1. \A u \in Threads, p \in Objects : Inside(u, p) \in Nat
  BY InsideOwns
<1>2. inside' = [u \in Threads |-> [p \in Objects |-> Inside(u, p)']]
  BY DEF inside
<1>3. CASE n = 0
  <2>1. \A u \in Threads, p \in Objects : Inside(u, p)' = Inside(u, p)
    BY <1>1, <1>3
  <2> QED
    BY <1>2, <1>3, <2>1 DEF inside
<1>4. inside' = [inside EXCEPT ![t][o] = @ + n]
  BY <1>1, <1>2 DEF inside
<1>5. ASSUME n = 1, \A u \in Threads \ {t} : Inside(u, o) = 0 PROVE Promise!Enter(t, o)
  BY <1>4, <1>5 DEF Promise!Enter, inside
<1>6. ASSUME n = -1, Inside(t, o) > 0 PROVE Promise!Exit(t, o)
  <2>1. inside[t][o] \in Nat
    BY <1>1 DEF inside
  <2>2. inside[t][o] + -1 = inside[t][o] - 1
    BY <2>1
  <2> QED
    BY <1>4, <1>6, <2>1, <2>2 DEF Promise!Exit, inside
<1> QED
  BY <1>3, <1>5, <1>6

LEMMA Simulation ==
    ASSUME IInv, IInv', [Next]_vars
    PROVE  [Promise!Next]_inside
<1>1. CASE UNCHANGED vars
  BY <1>1 DEF vars, shared, caches, call, inside, Inside, Depth, InFast, Hits
<1>2. ASSUME NEW t \in Threads, Step(t), NEW u \in Threads \ {t}, NEW o \in Objects
      PROVE  Inside(u, o)' = Inside(u, o)
  BY <1>2, OthersKeep, InsideKeeps
\* A step that keeps the thread where it is.
<1>3. ASSUME NEW t \in Threads, Step(t),
             \A o \in Objects : Inside(t, o)' = Inside(t, o)
      PROVE  UNCHANGED inside
  BY <1>2, <1>3 DEF inside
\* A step that moves the thread by n in the object of block e, and leaves lists alone.
<1>4. ASSUME NEW t \in Threads, Step(t), UNCHANGED <<list, object>>,
             NEW e \in Listed, NEW n \in Int, object[e] \in Objects,
             \A d \in Data : Amount(t, d)' = IF d = e THEN Amount(t, d) + n ELSE Amount(t, d)
      PROVE  \A u \in Threads, p \in Objects :
                Inside(u, p)' = IF u = t /\ p = object[e] THEN Inside(u, p) + n ELSE Inside(u, p)
  <2>1. Listed' = Listed /\ Listed \subseteq Data
    BY <1>4 DEF Listed
  <2>2. ASSUME NEW p \in Objects
        PROVE  Inside(t, p)' = IF p = object[e] THEN Inside(t, p) + n ELSE Inside(t, p)
    <3>1. CASE \E d \in Listed : object[d] = p
      <4>1. PICK d \in Listed : object[d] = p
        BY <3>1
      <4>2. Inside(t, p) = Amount(t, d)
        BY <4>1, InsideIs
      <4>3. Inside(t, p)' = Amount(t, d)'
        <5>1. d \in Listed' /\ object'[d] = p
          BY <1>4, <2>1, <4>1
        <5> QED
          BY <5>1, DepthsNext, Zenon DEF Depths
      <4>4. p = object[e] <=> d = e
        BY <4>1, DistinctBlocks DEF OneBlockPerObject
      <4> QED
        BY <1>4, <2>1, <4>2, <4>3, <4>4
    <3>2. CASE \A d \in Listed : object[d] # p
      <4>1. Inside(t, p) = 0
        <5>1. ~ \E d \in Listed : object[d] = p
          BY <3>2
        <5> QED
          BY <5>1, InsideOwns
      <4>2. Inside(t, p)' = 0
        <5>1. ~ \E d \in Listed' : object'[d] = p
          BY <1>4, <2>1, <3>2
        <5> QED
          BY <5>1, DepthsNext, Zenon DEF Depths
      <4> QED
        BY <3>2, <4>1, <4>2
    <3> QED
      BY <3>1, <3>2
  <2> QED
    BY <1>2, <1>4, <2>2
<1>5. ASSUME NEW t \in Threads, MutexLock(t) PROVE Promise!Next
  <2>1. PICK e \in Listed : /\ e = result[t] /\ object[e] = obj[t] /\ Caches(t, e)
                            /\ owner[e] \in {None, t}
    BY <1>5 DEF MutexLock, IInv, CallInv, GoodCall
  <2>2. object[e] \in Objects /\ e \in Data
    BY <1>5, <2>1 DEF MutexLock, IInv, SpinInv, Listed
  <2>3. /\ UNCHANGED <<list, object, fast, fastCount, lockCount>>
        /\ pc[t] = "lock" /\ pc'[t] = "idle"
    BY <1>5 DEF MutexLock, Return, caches, IInv, TypeOK, CallOK
  <2>4. \A d \in Data : Count(t, d) \in Nat /\ Count(t, d)' = Count(t, d)
    BY <2>3, HeldType DEF Count
  <2>5. \A d \in Data : Amount(t, d)' = IF d = e THEN Amount(t, d) + 1 ELSE Amount(t, d)
    BY <2>1, <2>3, <2>4 DEF Amount
  <2>6. Step(t)
    BY <1>5 DEF Step, Internal
  <2>7. \A u \in Threads, p \in Objects :
            Inside(u, p)' = IF u = t /\ p = object[e] THEN Inside(u, p) + 1 ELSE Inside(u, p)
    BY <1>4, <2>2, <2>3, <2>5, <2>6
  <2>8. ASSUME NEW u \in Threads \ {t} PROVE Inside(u, object[e]) = 0
    <3>1. Inside(u, object[e]) = Amount(u, e)
      BY <2>2, InsideIs
    <3> QED
      BY <2>1, <2>2, <3>1, AmountOwns, NoneAssumption
  <2>9. Promise!Enter(t, object[e])
    BY <2>2, <2>7, <2>8, AbstractStep
  <2> QED
    BY <2>2, <2>9 DEF Promise!Next
<1>6. ASSUME NEW t \in Threads, Store(t) PROVE UNCHANGED inside
  <2>1. PICK e \in Data :
            /\ ~Caches(t, e) /\ result[t] = e /\ pc'[t] = "lock" /\ result'[t] = e
            /\ \A d \in Data : Count(t, d)' = IF d = e THEN 1 ELSE Count(t, d)
    BY <1>6, StoreCounts
  <2>2. pc[t] = "store" /\ UNCHANGED <<list, object>> /\ Step(t)
    BY <1>6 DEF Store, shared, Step, Internal
  <2>3. e \in Listed /\ object[e] \in Objects
    BY <2>1, <2>2 DEF IInv, CallInv, GoodCall, SpinInv
  <2>4. Count(t, e) = 0 /\ \A d \in Data : Count(t, d) \in Nat
    BY <2>1, HeldType
  <2>5. \A d \in Data : Amount(t, d)' = IF d = e THEN Amount(t, d) + 0 ELSE Amount(t, d)
    BY <2>1, <2>2, <2>4 DEF Amount
  <2>6. \A u \in Threads, p \in Objects :
            Inside(u, p)' = IF u = t /\ p = object[e] THEN Inside(u, p) + 0 ELSE Inside(u, p)
    BY <1>4, <2>2, <2>3, <2>5
  <2> QED
    BY <2>3, <2>6, AbstractStep
<1>7. ASSUME NEW t \in Threads, Internal(t), ~Store(t), ~MutexLock(t) PROVE UNCHANGED inside
  <2>1. UNCHANGED caches
    BY <1>7 DEF Internal, Lock, Match, Pass, NotFound, Reuse, Allocate, Unlock,
                MutexTryUnlock, NotOwning
  <2>2. pc'[t] # "lock" /\ pc[t] # "lock"
    BY <1>7 DEF Internal, Lock, Match, Pass, NotFound, Reuse, Allocate, Unlock,
                MutexTryUnlock, NotOwning, AtNode, AtEnd, Proceed, Return, IInv, TypeOK, CallOK
  <2>3. \A o \in Objects : Inside(t, o)' = Inside(t, o)
    BY <2>1, <2>2, InsideKeeps DEF caches
  <2> QED
    BY <1>3, <1>7, <2>3 DEF Step
<1>8. ASSUME NEW t \in Threads, NEW o \in Objects, NEW w \in {"ACQUIRE", "RELEASE"}, Begin(t, o, w),
             Step(t),
             \/ FastAcquire(t, o) \/ FastRelease(t, o) \/ CacheAcquire(t, o)
             \/ CacheRelease(t, o) \/ NotCached(t, o) \/ Buggy(t, o)
      PROVE  [Promise!Next]_inside
  <2>1. pc[t] = "idle" /\ UNCHANGED <<list, object>>
    BY <1>8 DEF Begin
  <2>2. \A d \in Data : Count(t, d) \in Nat /\ Amount(t, d) = Count(t, d)
    BY <2>1, HeldType DEF Amount
  <2>3. CASE FastAcquire(t, o) \/ CacheAcquire(t, o)
    <3>1. PICK e \in Data :
              /\ object[e] = o /\ Caches(t, e) /\ pc'[t] = "lock" /\ result'[t] = e
              /\ \A d \in Data : Count(t, d)' = IF d = e THEN Count(t, d) + 1 ELSE Count(t, d)
      BY <2>3, AcquireCounts
    <3>2. e \in Listed
      BY <3>1, NoneAssumption DEF Caches, IInv, CacheInv
    <3>3. \A d \in Data : Amount(t, d)' = IF d = e THEN Amount(t, d) + 0 ELSE Amount(t, d)
      BY <2>1, <2>2, <3>1 DEF Amount
    <3>4. \A u \in Threads, p \in Objects :
              Inside(u, p)' = IF u = t /\ p = object[e] THEN Inside(u, p) + 0 ELSE Inside(u, p)
      BY <1>4, <1>8, <2>1, <3>1, <3>2, <3>3, SMTT(20)
    <3> QED
      BY <3>1, <3>4, AbstractStep
  <2>4. CASE FastRelease(t, o) \/ CacheRelease(t, o)
    <3>1. PICK e \in Data :
              /\ object[e] = o /\ Caches(t, e) /\ pc'[t] = "unlock" /\ result'[t] = e
              /\ \A d \in Data : Count(t, d)' = IF d = e THEN Count(t, d) - 1 ELSE Count(t, d)
      BY <2>4, ReleaseCounts
    <3>2. e \in Listed
      BY <3>1, NoneAssumption DEF Caches, IInv, CacheInv
    <3>3. \A d \in Data : Amount(t, d)' = IF d = e THEN Amount(t, d) + (-1) ELSE Amount(t, d)
      BY <2>1, <2>2, <3>1 DEF Amount
    <3>4. \A u \in Threads, p \in Objects :
              Inside(u, p)' = IF u = t /\ p = object[e] THEN Inside(u, p) + (-1) ELSE Inside(u, p)
      BY <1>4, <1>8, <2>1, <3>1, <3>2, <3>3
    <3>5. Inside(t, o) > 0
      <4>1. Inside(t, o) = Count(t, e)
        BY <2>2, <3>1, <3>2, InsideIs
      <4> QED
        BY <2>2, <3>1, <4>1, HeldType
    <3>6. Promise!Exit(t, o)
      BY <3>1, <3>4, <3>5, AbstractStep
    <3> QED
      BY <3>6 DEF Promise!Next
  <2>5. CASE NotCached(t, o) \/ Buggy(t, o)
    <3>1. pc'[t] \in {"spin", "fatal"} /\ UNCHANGED <<fast, fastCount, cache, lockCount>>
      BY <2>5 DEF NotCached, Buggy, Proceed, caches, IInv, TypeOK, CallOK
    <3>2. \A p \in Objects : Inside(t, p)' = Inside(t, p)
      BY <2>1, <3>1, InsideKeeps
    <3> QED
      BY <1>3, <1>8, <3>2
  <2> QED
    BY <1>8, <2>3, <2>4, <2>5
<1>9. ASSUME NEW t \in Threads, Step(t) PROVE [Promise!Next]_inside
  BY <1>5, <1>6, <1>7, <1>8, <1>9 DEF Step, Enter, Exit
<1> QED
  BY <1>1, <1>9, NextIsStep

\* @synchronized is a recursive monitor for every object: objc-sync.mm, with
\* its caches, lists, reused blocks and mutexes, implements Monitors.
THEOREM Refinement == Spec => ImplementsMonitors
<1>1. Init => Promise!Init
  BY NoneAssumption DEF Init, Promise!Init, inside, Inside, Depth, InFast, Hits
<1>2. IInv /\ IInv' /\ [Next]_vars => [Promise!Next]_inside
  BY Simulation
<1> QED
  BY <1>1, <1>2, Invariance, PTL DEF Spec, Promise!Spec, ImplementsMonitors
-----------------------------------------------------------------------------
(* The room of the cache list.                                             *)

Searching(t) == pc[t] \in {"spin", "walk", "done", "store"}

\* fetch_cache leaves an open slot, and nothing but Store takes it.
GoodSlots(t) ==
    /\ IsFiniteSet(cache[t])
    /\ allocated[t] \in Nat
    /\ allocated[t] = 0 => cache[t] = {}
    /\ Cardinality(cache[t]) <= allocated[t]
    /\ Searching(t) /\ allocated[t] > 0 => Cardinality(cache[t]) < allocated[t]

SlotInv == \A t \in Threads : GoodSlots(t)

\* Who leaves its cache alone and does not begin a search keeps its slot.
LEMMA SlotsKept ==
    ASSUME NEW t \in Threads, GoodSlots(t), UNCHANGED <<cache[t], allocated[t]>>,
           Searching(t)' => Searching(t)
    PROVE  GoodSlots(t)'
  BY DEF GoodSlots

\* The room fetch_cache makes, for a cache that is there.
LEMMA SlotOpened ==
    ASSUME NEW t \in Threads, GoodSlots(t)
    PROVE  /\ Opened(t, FALSE) \in Nat
           /\ Opened(t, FALSE) = 0 <=> allocated[t] = 0
           /\ allocated[t] > 0 => Cardinality(cache[t]) < Opened(t, FALSE)
<1>1. Cardinality(cache[t]) \in Nat
  BY FS_CardinalityType DEF GoodSlots
<1>2. allocated[t] = 0 => Cardinality(cache[t]) = 0
  BY <1>1, FS_EmptySet DEF GoodSlots
<1> QED
  BY <1>1, <1>2 DEF GoodSlots, Opened

LEMMA SlotStep == IInv /\ SlotInv /\ [Next]_vars => SlotInv'
<1> SUFFICES ASSUME IInv, SlotInv, [Next]_vars, NEW u \in Threads
             PROVE  GoodSlots(u)'
  BY DEF SlotInv
<1>1. GoodSlots(u)
  BY DEF SlotInv
<1>2. /\ cache \in [Threads -> SUBSET Data] /\ allocated \in [Threads -> Nat]
      /\ pc \in [Threads -> Labels]
  BY DEF IInv, TypeOK, CachesOK, CallOK
<1>3. CASE UNCHANGED vars
  BY <1>1, <1>3, SlotsKept DEF vars, caches, call, Searching
<1>4. ASSUME NEW t \in Threads, Internal(t) PROVE GoodSlots(u)'
  <2>1. CASE ~Store(t)
    <3>1. UNCHANGED <<cache, allocated>>
      BY <1>4, <2>1 DEF Internal, Lock, Match, Pass, NotFound, Reuse, Allocate, Unlock, MutexLock, MutexTryUnlock, NotOwning, Return, caches
    <3>2. Searching(u)' => Searching(u)
      BY <1>2, <1>4, <2>1 DEF Internal, Lock, Match, Pass, NotFound, Reuse, Allocate, Unlock, MutexLock, MutexTryUnlock, NotOwning, Return, Proceed, AtNode, AtEnd, call, Searching
    <3> QED
      BY <1>1, <3>1, <3>2, SlotsKept
  <2>2. CASE Store(t)
    <3>1. CASE u # t \/ UNCHANGED <<cache, allocated>>
      <4>1. UNCHANGED <<cache[u], allocated[u]>> /\ (Searching(u)' => Searching(u))
        BY <1>2, <2>2, <3>1 DEF Store, caches, Searching
      <4> QED
        BY <1>1, <4>1, SlotsKept
    <3>2. CASE u = t /\ ~UNCHANGED <<cache, allocated>>
      <4>1. /\ cache'[t] = cache[t] \cup {result[t]}
            /\ allocated'[t] = IF allocated[t] = 0 THEN Opened(t, TRUE) ELSE allocated[t]
            /\ pc[t] = "store" /\ ~Searching(t)'
        BY <1>2, <2>2, <3>2 DEF Store, caches, Searching
      <4>2. /\ IsFiniteSet(cache'[t])
            /\ Cardinality(cache'[t]) <= Cardinality(cache[t]) + 1
        <5> DEFINE S == cache[t]
                   d == result[t]
        <5>1. IsFiniteSet(S)
          BY <1>1, <3>2 DEF GoodSlots
        <5> HIDE DEF S, d
        <5>2. IsFiniteSet(S \cup {d}) /\ Cardinality(S \cup {d}) <= Cardinality(S) + 1
          BY <5>1, FS_AddElement, FS_CardinalityType
        <5> QED
          BY <4>1, <5>2 DEF S, d
      <4>3. Cardinality(cache[t]) \in Nat /\ Cardinality(cache'[t]) \in Nat
        BY <1>1, <3>2, <4>2, FS_CardinalityType DEF GoodSlots
      <4>4. CASE allocated[t] = 0
        <5>1. Cardinality(cache[t]) = 0
          BY <1>1, <3>2, <4>4, FS_EmptySet DEF GoodSlots
        <5>2. Opened(t, TRUE) = FirstSlots /\ FirstSlots \in Nat \ {0}
          BY <4>4, <5>1, BoundAssumption DEF Opened
        <5>3. allocated'[t] = FirstSlots
          BY <4>1, <4>4, <5>2
        <5>4. Cardinality(cache'[t]) <= 1
          BY <4>2, <4>3, <5>1
        <5>5. Cardinality(cache'[t]) <= allocated'[t] /\ allocated'[t] \in Nat \ {0}
          BY <4>3, <5>2, <5>3, <5>4
        <5> QED
          BY <3>2, <4>1, <4>2, <5>5 DEF GoodSlots
      <4>5. CASE allocated[t] # 0
        <5>1. Cardinality(cache[t]) < allocated[t] /\ allocated[t] \in Nat
          BY <1>1, <3>2, <4>1, <4>5 DEF GoodSlots, Searching
        <5> QED
          BY <3>2, <4>1, <4>2, <4>3, <4>5, <5>1 DEF GoodSlots
      <4> QED
        BY <4>4, <4>5
    <3> QED
      BY <3>1, <3>2
  <2> QED
    BY <2>1, <2>2
<1>5. ASSUME NEW t \in Threads, NEW o \in Objects, Enter(t, o) \/ Exit(t, o)
      PROVE  GoodSlots(u)'
  <2>1. \/ FastAcquire(t, o) \/ FastRelease(t, o) \/ CacheAcquire(t, o)
        \/ CacheRelease(t, o) \/ NotCached(t, o) \/ Buggy(t, o)
    BY <1>5 DEF Enter, Exit
  <2>2. CASE u # t
    <3>1. UNCHANGED <<cache[u], allocated[u]>> /\ (Searching(u)' => Searching(u))
      BY <1>2, <2>1, <2>2 DEF FastAcquire, FastRelease, CacheAcquire, CacheRelease, NotCached,
           Buggy, Proceed, caches, Searching
    <3> QED
      BY <1>1, <3>1, SlotsKept
  <2>3. CASE u = t /\ (FastAcquire(t, o) \/ FastRelease(t, o) \/ Buggy(t, o))
    <3>1. UNCHANGED <<cache[t], allocated[t]>> /\ ~Searching(t)'
      BY <1>2, <2>3 DEF FastAcquire, FastRelease, Buggy, Proceed, caches, Searching
    <3> QED
      BY <1>1, <2>3, <3>1, SlotsKept
  <2>4. CASE u = t /\ (CacheAcquire(t, o) \/ CacheRelease(t, o) \/ NotCached(t, o))
    <3>1. cache'[t] \subseteq cache[t] /\ allocated'[t] = Opened(t, FALSE)
      <4>1. allocated' = [allocated EXCEPT ![t] = Opened(t, FALSE)]
        BY <2>4 DEF CacheAcquire, CacheRelease, NotCached
      <4>2. CASE CacheAcquire(t, o) \/ NotCached(t, o)
        BY <1>2, <4>1, <4>2 DEF CacheAcquire, NotCached
      <4>3. CASE CacheRelease(t, o)
        <5>1. cache' = cache \/ \E d \in Data : cache' = [cache EXCEPT ![t] = cache[t] \ {d}]
          BY <1>2, <4>3 DEF CacheRelease, Hits
        <5> QED
          BY <1>2, <4>1, <5>1
      <4> QED
        BY <2>4, <4>2, <4>3
    <3>2. IsFiniteSet(cache'[t]) /\ Cardinality(cache'[t]) <= Cardinality(cache[t])
      BY <1>1, <2>4, <3>1, FS_Subset DEF GoodSlots
    <3>3. Cardinality(cache[t]) \in Nat /\ Cardinality(cache'[t]) \in Nat
      BY <1>1, <2>4, <3>2, FS_CardinalityType DEF GoodSlots
    <3>4. allocated[t] = 0 => cache'[t] = {} /\ Cardinality(cache[t]) = 0
      BY <1>1, <2>4, <3>1, FS_EmptySet DEF GoodSlots
    <3>5. /\ Opened(t, FALSE) \in Nat
          /\ Opened(t, FALSE) = 0 <=> allocated[t] = 0
          /\ allocated[t] > 0 => Cardinality(cache[t]) < Opened(t, FALSE)
      BY <1>1, <2>4, SlotOpened
    <3>6. allocated[t] \in Nat
      BY <1>2
    <3>7. /\ allocated'[t] \in Nat
          /\ allocated'[t] = 0 => cache'[t] = {}
          /\ allocated'[t] > 0 => Cardinality(cache'[t]) < allocated'[t]
      <4> DEFINE k == Cardinality(cache[t])
                 m == Cardinality(cache'[t])
                 n == Opened(t, FALSE)
      <4>1. k \in Nat /\ m \in Nat /\ m <= k /\ n \in Nat /\ allocated'[t] = n
        BY <3>1, <3>2, <3>3, <3>5
      <4>2. n = 0 => allocated[t] = 0
        BY <3>5
      <4>3. n # 0 => k < n
        <5>1. n # 0 => allocated[t] # 0
          BY <3>5
        <5>2. allocated[t] # 0 => allocated[t] > 0
          BY <3>6
        <5> QED
          BY <3>5, <5>1, <5>2
      <4> HIDE DEF k, m, n
      <4>4. n > 0 => m < n
        BY <4>1, <4>3
      <4>5. m = Cardinality(cache'[t])
        BY DEF m
      <4> QED
        BY <3>4, <4>1, <4>2, <4>4, <4>5
    <3>8. Cardinality(cache'[t]) <= allocated'[t]
      <4>1. CASE allocated'[t] = 0
        BY <3>7, <4>1, FS_EmptySet
      <4>2. CASE allocated'[t] # 0
        BY <3>3, <3>7, <4>2
      <4> QED
        BY <4>1, <4>2
    <3> QED
      BY <2>4, <3>2, <3>7, <3>8 DEF GoodSlots
  <2> QED
    BY <2>1, <2>2, <2>3, <2>4
<1> QED
  BY <1>3, <1>4, <1>5 DEF Next

\* Whenever a thread appends an entry to its cache list there is room for it:
\* what the comment in fetch_cache promises, however often the list grew.
THEOREM OpenSlotAlways == Spec => []OpenSlot
<1>1. Init => SlotInv
  <2> SUFFICES ASSUME Init, NEW t \in Threads PROVE GoodSlots(t)
    BY DEF SlotInv
  <2>1. cache[t] = {} /\ allocated[t] = 0 /\ pc[t] = "idle"
    BY DEF Init
  <2> QED
    BY <2>1, FS_EmptySet DEF GoodSlots, Searching
<1>2. SlotInv => OpenSlot
  BY DEF SlotInv, GoodSlots, Searching, OpenSlot
<1> QED
  BY <1>1, <1>2, SlotStep, Invariance, PTL DEF Spec
=============================================================================
