------------------------------ MODULE ObjcSync ------------------------------
(***************************************************************************)
(* runtime/objc-sync.mm: objc_sync_enter, objc_sync_exit and id2data, the  *)
(* machinery behind @synchronized(obj).                                    *)
(*                                                                         *)
(* An object gets a SyncData block (a recursive mutex and a count of the   *)
(* threads that use it) when it is first locked.  Blocks sit on striped    *)
(* lists, are never freed, and are handed to another object once their     *)
(* threadCount is zero.  Each thread remembers the blocks it uses in a     *)
(* one-entry fast cache and in a growing cache list, both read and written *)
(* without any lock.                                                       *)
(*                                                                         *)
(* One action is one access to shared memory: the walk of a list reads one *)
(* block per step, because threadCount is decremented without the list     *)
(* lock.  Accesses to thread-local memory ride along with it.              *)
(***************************************************************************)
EXTENDS Integers, Sequences, FiniteSets

CONSTANTS
    Threads,      \* the threads that synchronize
    Objects,      \* the objects they synchronize on
    Data,         \* the SyncData blocks calloc can return
    Stripes,      \* the lists of sDataLists
    StripeOf,     \* StripeOf[o]: the list an object hashes to
    FirstSlots,   \* room of a new SyncCache (4 in fetch_cache)
    None,         \* nil
    MaxDepth,     \* bound: lockCount of one thread on one object
    MaxBadExits,  \* bound: exits from one block by threads that are not inside
    MayNest       \* may a thread enter a second object while in a first?

ASSUME NoneAssumption ==
    /\ None \notin Threads
    /\ None \notin Data
    /\ None \notin Objects

ASSUME ThreadAssumption == IsFiniteSet(Threads)

ASSUME StripeAssumption == StripeOf \in [Objects -> Stripes]

ASSUME BoundAssumption ==
    /\ FirstSlots \in Nat \ {0}
    /\ MaxDepth \in Nat \ {0}
    /\ MaxBadExits \in Nat
    /\ MayNest \in BOOLEAN

VARIABLES
    list,         \* list[s]: the blocks of stripe s, head first (sDataLists[s].data)
    spin,         \* spin[s]: holder of the stripe's spinlock
    object,       \* SyncData.object
    threadCount,  \* SyncData.threadCount
    owner,        \* SyncData.mutex: the thread that has it locked
    recursion,    \* SyncData.mutex: how often
    fast,         \* fast[t]: SYNC_DATA_DIRECT_KEY
    fastCount,    \* fastCount[t]: SYNC_COUNT_DIRECT_KEY
    cache,        \* cache[t]: the blocks with an entry in the thread's SyncCache
    lockCount,    \* lockCount[t][d]: lockCount of that entry
    allocated,    \* SyncCache.allocated, 0 before the cache exists
    pc,           \* where the thread is in enter or exit
    why,          \* id2data's second argument
    obj,          \* id2data's first argument
    result,       \* id2data's result
    cursor,       \* position of the walk over the list
    firstUnused,  \* id2data's firstUnused
    leaked        \* history: leaked[d], increments of threadCount by exits

shared   == <<list, spin, object, threadCount, owner, recursion, leaked>>
caches   == <<fast, fastCount, cache, lockCount, allocated>>
call     == <<pc, why, obj, result, cursor, firstUnused>>
vars     == <<shared, caches, call>>

-----------------------------------------------------------------------------
Listed  == {d \in Data : \E s \in Stripes : \E i \in DOMAIN list[s] : list[s][i] = d}
Stripe(t) == StripeOf[obj[t]]

Init ==
    /\ list = [s \in Stripes |-> <<>>]
    /\ spin = [s \in Stripes |-> None]
    /\ object = [d \in Data |-> None]
    /\ threadCount = [d \in Data |-> 0]
    /\ owner = [d \in Data |-> None]
    /\ recursion = [d \in Data |-> 0]
    /\ fast = [t \in Threads |-> None]
    /\ fastCount = [t \in Threads |-> 0]
    /\ cache = [t \in Threads |-> {}]
    /\ lockCount = [t \in Threads |-> [d \in Data |-> 0]]
    /\ allocated = [t \in Threads |-> 0]
    /\ pc = [t \in Threads |-> "idle"]
    /\ why = [t \in Threads |-> "ACQUIRE"]
    /\ obj = [t \in Threads |-> None]
    /\ result = [t \in Threads |-> None]
    /\ cursor = [t \in Threads |-> 1]
    /\ firstUnused = [t \in Threads |-> None]
    /\ leaked = [d \in Data |-> 0]

-----------------------------------------------------------------------------
(* The thread's own caches.  The order of the entries is left out.         *)

InFast(t, o) == fast[t] # None /\ object[fast[t]] = o

\* The entries of the cache list that the scan for an object stops at; it
\* is reached when the fast cache holds no entry for the object.
Hits(t, o) == {d \in cache[t] : ~InFast(t, o) /\ object[d] = o}

\* fetch_cache makes sure of one open slot, doubling the allocation.
Opened(t, create) ==
    LET room == IF allocated[t] = 0 /\ create THEN FirstSlots ELSE allocated[t]
    IN  IF room = Cardinality(cache[t]) THEN 2 * room ELSE room

\* How often id2data believes the thread to have entered the object.
Depth(t, o) ==
    IF InFast(t, o) THEN fastCount[t]
    ELSE IF Hits(t, o) # {} THEN lockCount[t][CHOOSE d \in Hits(t, o) : TRUE]
    ELSE 0

\* "id2data fastcache is buggy", "id2data cache is buggy": the process aborts.
FastHealthy(t)     == threadCount[fast[t]] > 0 /\ fastCount[t] > 0
CacheHealthy(t, d) == threadCount[d] > 0 /\ lockCount[t][d] > 0

-----------------------------------------------------------------------------
(* id2data: the call, and its way through the thread's caches.             *)

Begin(t, o, w) ==
    /\ pc[t] = "idle"
    /\ why' = [why EXCEPT ![t] = w]
    /\ obj' = [obj EXCEPT ![t] = o]
    /\ UNCHANGED <<list, spin, object, owner, recursion, leaked, cursor, firstUnused>>

Proceed(t, d, label) ==
    /\ result' = [result EXCEPT ![t] = d]
    /\ pc' = [pc EXCEPT ![t] = label]

FastAcquire(t, o) ==
    /\ InFast(t, o)
    /\ FastHealthy(t)
    /\ fastCount' = [fastCount EXCEPT ![t] = @ + 1]
    /\ Proceed(t, fast[t], "lock")
    /\ UNCHANGED <<threadCount, fast, cache, lockCount, allocated>>

FastRelease(t, o) ==
    /\ InFast(t, o)
    /\ FastHealthy(t)
    /\ fastCount' = [fastCount EXCEPT ![t] = @ - 1]
    /\ IF fastCount[t] = 1
       THEN /\ fast' = [fast EXCEPT ![t] = None]
            /\ threadCount' = [threadCount EXCEPT ![fast[t]] = @ - 1]
       ELSE UNCHANGED <<fast, threadCount>>
    /\ Proceed(t, fast[t], "unlock")
    /\ UNCHANGED <<cache, lockCount, allocated>>

CacheAcquire(t, o) ==
    /\ \E d \in Hits(t, o) :
          /\ CacheHealthy(t, d)
          /\ lockCount' = [lockCount EXCEPT ![t][d] = @ + 1]
          /\ Proceed(t, d, "lock")
    /\ allocated' = [allocated EXCEPT ![t] = Opened(t, FALSE)]
    /\ UNCHANGED <<threadCount, fast, fastCount, cache>>

CacheRelease(t, o) ==
    /\ \E d \in Hits(t, o) :
          /\ CacheHealthy(t, d)
          /\ lockCount' = [lockCount EXCEPT ![t][d] = @ - 1]
          /\ IF lockCount[t][d] = 1
             THEN /\ cache' = [cache EXCEPT ![t] = @ \ {d}]
                  /\ threadCount' = [threadCount EXCEPT ![d] = @ - 1]
             ELSE UNCHANGED <<cache, threadCount>>
          /\ Proceed(t, d, "unlock")
    /\ allocated' = [allocated EXCEPT ![t] = Opened(t, FALSE)]
    /\ UNCHANGED <<fast, fastCount>>

NotCached(t, o) ==
    /\ ~InFast(t, o) /\ Hits(t, o) = {}
    /\ allocated' = [allocated EXCEPT ![t] = Opened(t, FALSE)]
    /\ Proceed(t, None, "spin")
    /\ UNCHANGED <<threadCount, fast, fastCount, cache, lockCount>>

\* A cache entry that fails the sanity check of id2data.
Buggy(t, o) ==
    /\ \/ InFast(t, o) /\ ~FastHealthy(t)
       \/ \E d \in Hits(t, o) : ~CacheHealthy(t, d)
    /\ Proceed(t, None, "fatal")
    /\ UNCHANGED <<threadCount, caches>>

\* objc_sync_enter(o), o not nil.  (With nil both functions do nothing.)
Enter(t, o) ==
    /\ Depth(t, o) < MaxDepth
    /\ MayNest \/ \A p \in Objects \ {o} : Depth(t, p) = 0
    /\ Begin(t, o, "ACQUIRE")
    /\ FastAcquire(t, o) \/ CacheAcquire(t, o) \/ NotCached(t, o) \/ Buggy(t, o)

\* objc_sync_exit(o): by a thread that is inside, or by one that is not.
Exit(t, o) ==
    /\ Depth(t, o) = 0 => \A d \in Data : leaked[d] < MaxBadExits
    /\ Begin(t, o, "RELEASE")
    /\ FastRelease(t, o) \/ CacheRelease(t, o) \/ NotCached(t, o) \/ Buggy(t, o)

-----------------------------------------------------------------------------
(* id2data: the search of the list, under the stripe's spinlock.           *)

\* Mutant: the list is searched without its lock.
LockWithoutWaiting(t) ==
    /\ pc[t] = "spin"
    /\ spin' = [spin EXCEPT ![Stripe(t)] = t]
    /\ cursor' = [cursor EXCEPT ![t] = 1]
    /\ firstUnused' = [firstUnused EXCEPT ![t] = None]
    /\ pc' = [pc EXCEPT ![t] = "walk"]
    /\ UNCHANGED <<list, object, threadCount, owner, recursion, leaked, caches, why, obj, result>>

Lock(t) ==
    /\ pc[t] = "spin"
    /\ spin[Stripe(t)] = None
    /\ spin' = [spin EXCEPT ![Stripe(t)] = t]
    /\ cursor' = [cursor EXCEPT ![t] = 1]
    /\ firstUnused' = [firstUnused EXCEPT ![t] = None]
    /\ pc' = [pc EXCEPT ![t] = "walk"]
    /\ UNCHANGED <<list, object, threadCount, owner, recursion, leaked, caches, why, obj, result>>

AtNode(t) == pc[t] = "walk" /\ cursor[t] <= Len(list[Stripe(t)])
Node(t)   == list[Stripe(t)][cursor[t]]

\* Mutant: an enter that finds the block of another thread does not count itself.
MatchUncounted(t) ==
    /\ AtNode(t)
    /\ object[Node(t)] = obj[t]
    /\ Proceed(t, Node(t), "done")
    /\ UNCHANGED <<list, spin, object, threadCount, owner, recursion, leaked, caches,
                   why, obj, cursor, firstUnused>>

\* A block of this object: the count goes up whatever the call is for.
Match(t) ==
    /\ AtNode(t)
    /\ object[Node(t)] = obj[t]
    /\ threadCount' = [threadCount EXCEPT ![Node(t)] = @ + 1]
    /\ leaked' = IF why[t] = "RELEASE" THEN [leaked EXCEPT ![Node(t)] = @ + 1] ELSE leaked
    /\ Proceed(t, Node(t), "done")
    /\ UNCHANGED <<list, spin, object, owner, recursion, caches, why, obj, cursor, firstUnused>>

\* Mutant: the first block of the list is taken for unused, used or not.
PassUnchecked(t) ==
    /\ AtNode(t)
    /\ object[Node(t)] # obj[t]
    /\ firstUnused' = IF firstUnused[t] = None
                      THEN [firstUnused EXCEPT ![t] = Node(t)]
                      ELSE firstUnused
    /\ cursor' = [cursor EXCEPT ![t] = @ + 1]
    /\ UNCHANGED <<shared, caches, pc, why, obj, result>>

Pass(t) ==
    /\ AtNode(t)
    /\ object[Node(t)] # obj[t]
    /\ firstUnused' = IF firstUnused[t] = None /\ threadCount[Node(t)] = 0
                      THEN [firstUnused EXCEPT ![t] = Node(t)]
                      ELSE firstUnused
    /\ cursor' = [cursor EXCEPT ![t] = @ + 1]
    /\ UNCHANGED <<shared, caches, pc, why, obj, result>>

AtEnd(t) == pc[t] = "walk" /\ cursor[t] > Len(list[Stripe(t)])

NotFound(t) ==
    /\ AtEnd(t)
    /\ why[t] = "RELEASE"
    /\ Proceed(t, None, "done")
    /\ UNCHANGED <<shared, caches, why, obj, cursor, firstUnused>>

Reuse(t) ==
    /\ AtEnd(t)
    /\ why[t] = "ACQUIRE"
    /\ firstUnused[t] # None
    /\ object' = [object EXCEPT ![firstUnused[t]] = obj[t]]
    /\ threadCount' = [threadCount EXCEPT ![firstUnused[t]] = 1]
    /\ Proceed(t, firstUnused[t], "done")
    /\ UNCHANGED <<list, spin, owner, recursion, leaked, caches, why, obj, cursor, firstUnused>>

Allocate(t) ==
    /\ AtEnd(t)
    /\ why[t] = "ACQUIRE"
    /\ firstUnused[t] = None
    /\ \E d \in Data \ Listed :
          /\ object' = [object EXCEPT ![d] = obj[t]]
          /\ threadCount' = [threadCount EXCEPT ![d] = 1]
          /\ owner' = [owner EXCEPT ![d] = None]
          /\ recursion' = [recursion EXCEPT ![d] = 0]
          /\ list' = [list EXCEPT ![Stripe(t)] = <<d>> \o @]
          /\ Proceed(t, d, "done")
    /\ UNCHANGED <<spin, leaked, caches, why, obj, cursor, firstUnused>>

\* Mutant: the early return for a RELEASE forgets the unlock.
UnlockAcquireOnly(t) ==
    /\ pc[t] = "done"
    /\ spin' = IF why[t] = "ACQUIRE" THEN [spin EXCEPT ![Stripe(t)] = None] ELSE spin
    /\ pc' = [pc EXCEPT ![t] = IF result[t] # None /\ why[t] = "ACQUIRE"
                               THEN "store" ELSE "notOwning"]
    /\ cursor' = [cursor EXCEPT ![t] = 1]
    /\ firstUnused' = [firstUnused EXCEPT ![t] = None]
    /\ UNCHANGED <<list, object, threadCount, owner, recursion, leaked, caches, why, obj, result>>

Unlock(t) ==
    /\ pc[t] = "done"
    /\ spin' = [spin EXCEPT ![Stripe(t)] = None]
    /\ pc' = [pc EXCEPT ![t] = IF result[t] # None /\ why[t] = "ACQUIRE"
                               THEN "store" ELSE "notOwning"]
    /\ cursor' = [cursor EXCEPT ![t] = 1]
    /\ firstUnused' = [firstUnused EXCEPT ![t] = None]
    /\ UNCHANGED <<list, object, threadCount, owner, recursion, leaked, caches, why, obj, result>>

\* The new block goes into the thread's cache, unless the sanity check
\* after the unlock ("id2data is buggy") aborts the process.
Store(t) ==
    /\ pc[t] = "store"
    /\ IF object[result[t]] # obj[t]
       THEN /\ pc' = [pc EXCEPT ![t] = "fatal"]
            /\ UNCHANGED caches
       ELSE /\ pc' = [pc EXCEPT ![t] = "lock"]
            /\ IF fast[t] = None
               THEN /\ fast' = [fast EXCEPT ![t] = result[t]]
                    /\ fastCount' = [fastCount EXCEPT ![t] = 1]
                    /\ UNCHANGED <<cache, lockCount, allocated>>
               ELSE /\ cache' = [cache EXCEPT ![t] = @ \cup {result[t]}]
                    /\ lockCount' = [lockCount EXCEPT ![t][result[t]] = 1]
                    /\ allocated' = IF allocated[t] = 0
                                    THEN [allocated EXCEPT ![t] = Opened(t, TRUE)]
                                    ELSE allocated
                    /\ UNCHANGED <<fast, fastCount>>
    /\ UNCHANGED <<shared, why, obj, result, cursor, firstUnused>>

-----------------------------------------------------------------------------
(* The recursive mutex of the block, and the return to the caller, where   *)
(* the locals of the call die.                                             *)

Return(t) ==
    /\ pc' = [pc EXCEPT ![t] = "idle"]
    /\ why' = [why EXCEPT ![t] = "ACQUIRE"]
    /\ obj' = [obj EXCEPT ![t] = None]
    /\ result' = [result EXCEPT ![t] = None]

\* Mutant: the mutex does not keep other threads out.
MutexLockUnowned(t) ==
    /\ pc[t] = "lock"
    /\ owner' = [owner EXCEPT ![result[t]] = t]
    /\ recursion' = [recursion EXCEPT ![result[t]] = @ + 1]
    /\ Return(t)
    /\ UNCHANGED <<list, spin, object, threadCount, leaked, caches, cursor, firstUnused>>

\* Mutant: only the re-entries are counted.
MutexLockUncounted(t) ==
    /\ pc[t] = "lock"
    /\ owner[result[t]] \in {None, t}
    /\ owner' = [owner EXCEPT ![result[t]] = t]
    /\ recursion' = IF owner[result[t]] = t THEN [recursion EXCEPT ![result[t]] = @ + 1]
                    ELSE recursion
    /\ Return(t)
    /\ UNCHANGED <<list, spin, object, threadCount, leaked, caches, cursor, firstUnused>>

MutexLock(t) ==
    /\ pc[t] = "lock"
    /\ owner[result[t]] \in {None, t}
    /\ owner' = [owner EXCEPT ![result[t]] = t]
    /\ recursion' = [recursion EXCEPT ![result[t]] = @ + 1]
    /\ Return(t)
    /\ UNCHANGED <<list, spin, object, threadCount, leaked, caches, cursor, firstUnused>>

\* Mutant: the last unlock leaves the owner in place.
MutexTryUnlockKept(t) ==
    /\ pc[t] = "unlock"
    /\ IF owner[result[t]] = t
       THEN /\ recursion' = [recursion EXCEPT ![result[t]] = @ - 1]
            /\ owner' = owner
            /\ Return(t)
       ELSE /\ pc' = [pc EXCEPT ![t] = "notOwning"]
            /\ UNCHANGED <<owner, recursion, why, obj, result>>
    /\ UNCHANGED <<list, spin, object, threadCount, leaked, caches, cursor, firstUnused>>

MutexTryUnlock(t) ==
    /\ pc[t] = "unlock"
    /\ IF owner[result[t]] = t
       THEN /\ recursion' = [recursion EXCEPT ![result[t]] = @ - 1]
            /\ owner' = IF recursion[result[t]] = 1
                        THEN [owner EXCEPT ![result[t]] = None] ELSE owner
            /\ Return(t)
       ELSE /\ pc' = [pc EXCEPT ![t] = "notOwning"]
            /\ UNCHANGED <<owner, recursion, why, obj, result>>
    /\ UNCHANGED <<list, spin, object, threadCount, leaked, caches, cursor, firstUnused>>

\* objc_sync_exit returns OBJC_SYNC_NOT_OWNING_THREAD_ERROR.
NotOwning(t) ==
    /\ pc[t] = "notOwning"
    /\ Return(t)
    /\ UNCHANGED <<shared, caches, cursor, firstUnused>>

-----------------------------------------------------------------------------
Internal(t) ==
    \/ Lock(t) \/ Match(t) \/ Pass(t) \/ NotFound(t) \/ Reuse(t) \/ Allocate(t)
    \/ Unlock(t) \/ Store(t) \/ MutexLock(t) \/ MutexTryUnlock(t) \/ NotOwning(t)

Next == \E t \in Threads :
            \/ Internal(t)
            \/ \E o \in Objects : Enter(t, o) \/ Exit(t, o)

Spec == Init /\ [][Next]_vars

\* Threads keep running, the locks are not unfair for ever, and a thread
\* that is inside an object leaves it some day for good, as the end of its
\* @synchronized blocks has it do.
Leave(t, n) == \E o \in Objects : Depth(t, o) = n /\ Exit(t, o)

Fairness == \A t \in Threads :
                /\ SF_vars(Internal(t))
                /\ \A n \in 1..MaxDepth : SF_vars(Leave(t, n))

FairSpec == Spec /\ Fairness

-----------------------------------------------------------------------------
(* Properties.                                                             *)

Labels == {"idle", "spin", "walk", "done", "store", "lock", "unlock", "notOwning", "fatal"}

SharedOK ==
    /\ list \in [Stripes -> Seq(Data)]
    /\ spin \in [Stripes -> Threads \cup {None}]
    /\ object \in [Data -> Objects \cup {None}]
    /\ threadCount \in [Data -> Nat]
    /\ owner \in [Data -> Threads \cup {None}]
    /\ recursion \in [Data -> Nat]
    /\ leaked \in [Data -> Nat]

CachesOK ==
    /\ fast \in [Threads -> Data \cup {None}]
    /\ fastCount \in [Threads -> Nat]
    /\ cache \in [Threads -> SUBSET Data]
    /\ lockCount \in [Threads -> [Data -> Nat]]
    /\ allocated \in [Threads -> Nat]

CallOK ==
    /\ pc \in [Threads -> Labels]
    /\ why \in [Threads -> {"ACQUIRE", "RELEASE"}]
    /\ obj \in [Threads -> Objects \cup {None}]
    /\ result \in [Threads -> Data \cup {None}]
    /\ cursor \in [Threads -> Nat \ {0}]
    /\ firstUnused \in [Threads -> Data \cup {None}]

\* Every variable has the shape of its C counterpart.
TypeOK == SharedOK /\ CachesOK /\ CallOK

Caches(t, d) == fast[t] = d \/ d \in cache[t]

\* An acquire has counted itself in but not stored the block yet.
Arriving(t, d) == result[t] = d /\ pc[t] \in {"done", "store"} /\ why[t] = "ACQUIRE"

Users(d) == {t \in Threads : Caches(t, d) \/ Arriving(t, d)}

\* How often thread t is inside object o: what it has entered, less the
\* enter that still waits for the mutex.
Inside(t, o) == Depth(t, o) - (IF pc[t] = "lock" /\ obj[t] = o THEN 1 ELSE 0)
inside == [t \in Threads |-> [o \in Objects |-> Inside(t, o)]]

\* @synchronized is a recursive monitor per object: two threads are never
\* inside the same object, whatever blocks are reused for other objects
\* meanwhile.
Promise == INSTANCE Monitors WITH depth <- inside
ImplementsMonitors == Promise!Spec

\* The same, as an invariant.
MutualExclusion ==
    \A t, u \in Threads : \A o \in Objects :
        Inside(t, o) > 0 /\ Inside(u, o) > 0 => t = u

\* The process never aborts with "id2data is buggy": what a thread finds in
\* its caches, read without a lock, is never stale.
NeverFatal == \A t \in Threads : pc[t] # "fatal"

\* tryUnlock never fails for a thread that is inside: although id2data has
\* let go of the block before it, the mutex is still the thread's own.
ReleaseOwnsMutex ==
    \A t \in Threads : pc[t] = "unlock" => owner[result[t]] = t

\* threadCount counts the threads that use a block, and the exits that
\* incremented it and never decremented it; the unlocked decrements never
\* lose an update.
CountCoversUsers ==
    \A d \in Data : threadCount[d] = Cardinality(Users(d)) + leaked[d]

\* No two blocks serve the same object; the list needs no more blocks than
\* there are objects.
OneBlockPerObject ==
    \A d, e \in Listed : object[d] = object[e] => d = e

\* A block is given to another object only when no thread uses it.
RetargetUnusedOnly ==
    [][\A d \in Listed : object'[d] # object[d] => Users(d) = {}]_vars

\* A thread about to append to its cache list has an open slot.
OpenSlot ==
    \A t \in Threads :
        pc[t] = "store" /\ fast[t] # None /\ allocated[t] > 0
            => Cardinality(cache[t]) < allocated[t]

\* Who waits for the mutex of a block waits for a thread that is inside the
\* same object or on its way out of the block, never for one that is inside
\* the object the block served before.
WaitIsJustified ==
    \A t, u \in Threads :
        pc[t] = "lock" /\ u # t /\ owner[result[t]] = u
            => \/ Inside(u, obj[t]) > 0
               \/ pc[u] = "unlock" /\ result[u] = result[t]

\* If no thread waits inside one object for another, every call returns.
CallReturns == \A t \in Threads : pc[t] # "idle" ~> pc[t] = "idle"
=============================================================================
