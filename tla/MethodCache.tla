----------------------------- MODULE MethodCache ----------------------------
(***************************************************************************)
(* runtime/objc-cache.mm, the scan of objc-msg-x86_64.s and the lookup of  *)
(* objc-runtime-new.mm: a message is looked for in the cache of the class  *)
(* without any lock; after a miss lookUpImpOrForward searches the class    *)
(* and its superclasses under runtimeLock and fills the cache under        *)
(* cacheUpdateLock, while others replace methods and flush the caches.     *)
(*                                                                         *)
(* A reader loads the mask, then the buckets, then scans the keys, then    *)
(* reads the imp: four actions.  The scan is one, as a bucket is written   *)
(* once in its life.  A writer's stores that readers could tell apart are  *)
(* actions of their own.  Classes are realized and initialized.            *)
(***************************************************************************)
EXTENDS Naturals, FiniteSets, FiniteSetsExt, Functions

CONSTANTS
    Threads,
    NoThread,
    Classes,
    NoClass,
    Super,           \* Super[c]: c's superclass, NoClass for a root
    Sels,
    NoSel,           \* key 0
    Hash,            \* Hash[s]: the selector's address
    Sends,           \* the messages sent: pairs of a class and a selector
    Implements,      \* the classes and selectors that may have a method
    Resolves,        \* those without one at first, which a resolver may add
    INIT_CACHE_SIZE,
    Quarters,        \* how much of a cache may be used, in quarters: 3
    Buffers,         \* bucket arrays on the heap: a set of numbers
    GarbageMax,      \* garbage_threshold, in bucket arrays
    MaxVersion       \* bound: MaxVersion[m], the implementations m goes through

EmptyCache == 0      \* _objc_empty_cache, large enough for any mask
ASSUME MethodCacheAssumption ==
    /\ NoThread \notin Threads /\ NoClass \notin Classes /\ NoSel \notin Sels
    /\ Super \in [Classes -> Classes \cup {NoClass}]
    /\ \A C \in SUBSET Classes : C # {} => \E c \in C : Super[c] \notin C  \* every chain ends
    /\ Hash \in [Sels -> Nat]
    /\ Sends \subseteq Classes \X Sels
    /\ Resolves \subseteq Implements /\ Implements \subseteq Classes \X Sels
    /\ INIT_CACHE_SIZE \in Nat /\ INIT_CACHE_SIZE >= 4 /\ INIT_CACHE_SIZE % 4 = 0 /\ Quarters \in 1..3
    /\ Buffers \subseteq Nat \ {EmptyCache}

VARIABLES
    methods,  \* methods[<<c, s>>]: the version in c's method lists, or 0
    before,   \* methods as they were before the change in progress
    cache,    \* cache[c]: _buckets, _mask, _occupied
    buf,      \* buf[b]: the capacity and the buckets of array b
    garbage,  \* garbage_refs
    reading,  \* the threads that hold runtimeLock for reading
    writing,  \* the thread that holds it for writing
    updating, \* the thread that holds cacheUpdateLock
    th        \* th[t]: where thread t is, and its locals

vars == <<methods, before, cache, buf, garbage, reading, writing, updating, th>>

NoImp   == <<NoClass, 0>>
Forward == <<NoClass, 1>>     \* _objc_msgForward_impcache
Unused  == [key |-> NoSel, imp |-> NoImp]
Freed   == [cap |-> 0, slot |-> <<>>]

\* What the method lists m say of a message to c: a superclass's version,
\* when it has none of its own.
Found(m, c, s) ==
    LET found[k \in Classes] ==
            IF m[<<k, s>>] > 0 THEN <<k, m[<<k, s>>]>>
            ELSE IF Super[k] = NoClass THEN Forward ELSE found[Super[k]]
    IN found[c]

\* A class, its superclass and so on.
Above[c \in Classes] == {c} \cup (IF Super[c] = NoClass THEN {} ELSE Above[Super[c]])

\* Mutant: only the class itself is flushed.
ClassOnly(S) == S

\* foreach_realized_class_and_subclass
Below(S) == {c \in Classes : Above[c] \cap S # {}}

Idle == [pc |-> "idle", cls |-> NoClass, sel |-> NoSel, cur |-> NoClass, mask |-> 0,
         buckets |-> EmptyCache, index |-> 0, imp |-> NoImp, locked |-> FALSE,
         tried |-> FALSE, old |-> EmptyCache, todo |-> {}, check |-> {}, back |-> "idle", valid |-> {}]

Init ==
    /\ methods = [x \in Classes \X Sels |-> IF x \in Implements \ Resolves THEN 1 ELSE 0]
    /\ before = methods
    /\ cache = [c \in Classes |-> [buckets |-> EmptyCache, mask |-> 0, occupied |-> 0]]
    /\ buf = [b \in Buffers |-> Freed]
    /\ garbage = {}
    /\ reading = {} /\ writing = NoThread /\ updating = NoThread
    /\ th = [t \in Threads |-> Idle]

At(t, p) == th[t].pc = p
Goto(t, p) == th' = [th EXCEPT ![t].pc = p]

---------------------------------------------------------------------------
\* objc_msgSend and cache_getImp begin by loading the mask.

Send(t) ==
    /\ At(t, "idle")
    /\ \E m \in Sends :
         th' = [th EXCEPT ![t] = [Idle EXCEPT !.pc = "buckets", !.cls = m[1], !.sel = m[2],
                    !.cur = m[1], !.mask = cache[m[1]].mask,
                    !.valid = {Found(methods, m[1], m[2]), Found(before, m[1], m[2])}]]
    /\ UNCHANGED <<methods, before, cache, buf, garbage, reading, writing, updating>>

LoadBuckets(t) ==
    /\ At(t, "buckets")
    /\ th' = [th EXCEPT ![t].pc = "scan", ![t].buckets = cache[th[t].cur].buckets]
    /\ UNCHANGED <<methods, before, cache, buf, garbage, reading, writing, updating>>

\* Where a scan for s that begins at i stops: at the first bucket of s, or
\* unused; the end marker leads back.
Stops(b, s, i) == {d \in 0..buf[b].cap - 1 : buf[b].slot[(i + d) % buf[b].cap].key \in {s, NoSel}}
Scan(b, s, i)  == (i + Min(Stops(b, s, i))) % buf[b].cap

KeyAt(b, s, i) == IF b = EmptyCache THEN NoSel ELSE buf[b].slot[Scan(b, s, i)].key

\* After a miss objc_msgSend calls lookUpImpOrForward, which looks into the
\* method lists when it finds nothing in a cache.
ScanKeys(t) ==
    /\ At(t, "scan")
    /\ LET s == th[t].sel
           b == th[t].buckets
           i == Hash[s] % (th[t].mask + 1)
       IN IF KeyAt(b, s, i) = s
          THEN th' = [th EXCEPT ![t].pc = "imp", ![t].mask = 0, ![t].index = Scan(b, s, i)]
          ELSE th' = [th EXCEPT ![t].pc = IF th[t].locked THEN "list" ELSE "read lock",
                                ![t].mask = 0, ![t].buckets = EmptyCache]
    /\ UNCHANGED <<methods, before, cache, buf, garbage, reading, writing, updating>>

\* The search found imp i: what it no longer needs is forgotten.
Got(p, r, i) == [r EXCEPT !.pc = p, !.imp = i, !.cur = NoClass, !.tried = FALSE,
                          !.buckets = EmptyCache, !.index = 0]

\* A hit.  An imp of the class itself is the result; one of a superclass is
\* cached first, unless it is a forward: entry, which ends the search.
LoadImp(t) ==
    /\ At(t, "imp")
    /\ LET i == buf[th[t].buckets].slot[th[t].index].imp
       IN th' = [th EXCEPT ![t] =
            IF th[t].cur = th[t].cls THEN Got("return", @, i)
            ELSE IF i = Forward THEN [@ EXCEPT !.pc = "resolve", !.buckets = EmptyCache, !.index = 0]
            ELSE Got("fill", @, i)]
    /\ UNCHANGED <<methods, before, cache, buf, garbage, reading, writing, updating>>

---------------------------------------------------------------------------
\* lookUpImpOrForward.

\* cache_getImp again, as others may have filled the cache.
ReadLock(t) ==
    /\ At(t, "read lock") /\ writing = NoThread
    /\ reading' = reading \cup {t}
    /\ th' = [th EXCEPT ![t].pc = "buckets", ![t].cur = th[t].cls, ![t].locked = TRUE,
                        ![t].mask = cache[th[t].cls].mask]
    /\ UNCHANGED <<methods, before, cache, buf, garbage, writing, updating>>

\* The method list of the class at hand; then the cache of its superclass.
SearchList(t) ==
    /\ At(t, "list")
    /\ LET c == th[t].cur
           v == methods[<<c, th[t].sel>>]
       IN th' = [th EXCEPT ![t] =
            IF v > 0 THEN Got("fill", @, <<c, v>>)
            ELSE IF Super[c] = NoClass THEN [@ EXCEPT !.pc = "resolve"]
            ELSE [@ EXCEPT !.pc = "buckets", !.cur = Super[c], !.mask = cache[Super[c]].mask]]
    /\ UNCHANGED <<methods, before, cache, buf, garbage, reading, writing, updating>>

\* Mutant: the lock is left before a forward: entry is cached.
ResolveUnlocks(t) ==
    /\ At(t, "resolve")
    /\ reading' = reading \ {t}
    /\ IF th[t].tried
       THEN th' = [th EXCEPT ![t] = Got("fill", @, Forward)]
       ELSE \E p \in {"resolving", "read lock"} :
              /\ p = "resolving" => <<th[t].cls, th[t].sel>> \in Resolves
              /\ th' = [th EXCEPT ![t].tried = TRUE, ![t].locked = FALSE, ![t].pc = p]
    /\ UNCHANGED <<methods, before, cache, buf, garbage, writing, updating>>

\* The resolver is tried once, outside the lock, and may add the method.
\* Then everything is searched again; then the message is forwarded.
Resolve(t) ==
    /\ At(t, "resolve")
    /\ IF th[t].tried
       THEN /\ th' = [th EXCEPT ![t] = Got("fill", @, Forward)]
            /\ UNCHANGED reading
       ELSE /\ \E p \in {"resolving", "read lock"} :
                 /\ p = "resolving" => <<th[t].cls, th[t].sel>> \in Resolves
                 /\ th' = [th EXCEPT ![t].tried = TRUE, ![t].locked = FALSE, ![t].pc = p]
            /\ reading' = reading \ {t}
    /\ UNCHANGED <<methods, before, cache, buf, garbage, writing, updating>>

Return(t) ==
    /\ At(t, "return")
    /\ reading' = reading \ {t}
    /\ th' = [th EXCEPT ![t] = Idle]
    /\ UNCHANGED <<methods, before, cache, buf, garbage, writing, updating>>

---------------------------------------------------------------------------
\* cache_fill.

Capacity(c)   == IF cache[c].mask = 0 THEN 0 ELSE cache[c].mask + 1
IsConstantEmptyCache(c) == cache[c].occupied = 0 /\ cache[c].buckets = EmptyCache
Cached(c, s)  == KeyAt(cache[c].buckets, s, Hash[s] % (cache[c].mask + 1)) = s
Available     == {b \in Buffers : buf[b] = Freed}
NewBuckets(n) == [cap |-> n, slot |-> [i \in 0..n - 1 |-> Unused]]

\* cache_collect_free and cache_collect(false), then on to p.
Collect(t, old, todo, p) ==
    /\ garbage' = garbage \cup old
    /\ IF Cardinality(garbage') >= GarbageMax
       THEN th' = [th EXCEPT ![t] = [@ EXCEPT !.todo = todo, !.old = EmptyCache,
                                        !.pc = "collect", !.check = Threads \ {t}, !.back = p]]
       ELSE th' = [th EXCEPT ![t] = [@ EXCEPT !.todo = todo, !.old = EmptyCache, !.pc = p]]

\* Nothing to do if another thread was first.  The cache is replaced when
\* it is the constant empty one, or when the entry would fill it by more
\* than three quarters: reallocate, up to the store of _buckets.
FillLock(t) ==
    /\ At(t, "fill") /\ updating = NoThread
    /\ LET c == th[t].cls
           n == Capacity(c)
           grown == IF IsConstantEmptyCache(c)
                    THEN (IF n = 0 THEN INIT_CACHE_SIZE ELSE n) ELSE 2 * n
           b == Min(Available)
       IN IF Cached(c, th[t].sel)
          THEN Goto(t, "return") /\ UNCHANGED <<cache, buf, updating>>
          ELSE /\ updating' = t
               /\ IF cache[c].occupied + 1 <= (n \div 4) * Quarters /\ ~IsConstantEmptyCache(c)
                  THEN Goto(t, "insert") /\ UNCHANGED <<cache, buf>>
                  ELSE /\ Available # {}
                       /\ buf' = [buf EXCEPT ![b] = NewBuckets(grown)]
                       /\ cache' = [cache EXCEPT ![c].buckets = b]
                       /\ th' = [th EXCEPT ![t].pc = "new mask", ![t].old = cache[c].buckets]
    /\ UNCHANGED <<methods, before, garbage, reading, writing>>

StoreMask(t) ==
    /\ At(t, "new mask")
    /\ LET c == th[t].cls
       IN cache' = [cache EXCEPT ![c].mask = buf[cache[c].buckets].cap - 1, ![c].occupied = 0]
    /\ Collect(t, {th[t].old} \ {EmptyCache}, {}, "insert")
    /\ UNCHANGED <<methods, before, buf, reading, writing, updating>>

\* cache_t::find, and bucket_t::set up to the store of _imp.
StoreImp(t) ==
    /\ At(t, "insert")
    /\ LET c == th[t].cls
           b == cache[c].buckets
           i == Scan(b, th[t].sel, Hash[th[t].sel] % (cache[c].mask + 1))
       IN /\ buf' = [buf EXCEPT ![b].slot[i].imp = th[t].imp]
          /\ cache' = [cache EXCEPT ![c].occupied = @ + 1]
          /\ th' = [th EXCEPT ![t].pc = "key", ![t].index = i]
    /\ UNCHANGED <<methods, before, garbage, reading, writing, updating>>

StoreKey(t) ==
    /\ At(t, "key")
    /\ buf' = [buf EXCEPT ![cache[th[t].cls].buckets].slot[th[t].index].key = th[t].sel]
    /\ updating' = NoThread
    /\ th' = [th EXCEPT ![t].pc = "return", ![t].index = 0]
    /\ UNCHANGED <<methods, before, cache, garbage, reading, writing>>

\* Mutant: the range ends before the imp is loaded.
EndsEarly(u) == th[u].pc \in {"buckets", "scan"}

\* Is u's program counter in objc_msgSend or cache_getImp?
InCritical(u) == th[u].pc \in {"buckets", "scan", "imp"}

\* _collecting_in_critical looks at the threads one by one while they run.
CheckThread(t) ==
    /\ At(t, "collect")
    /\ \E u \in th[t].check :
         th' = IF InCritical(u) THEN [th EXCEPT ![t].pc = th[t].back, ![t].check = {}, ![t].back = "idle"]
               ELSE [th EXCEPT ![t].check = @ \ {u}]
    /\ UNCHANGED <<methods, before, cache, buf, garbage, reading, writing, updating>>

FreeGarbage(t) ==
    /\ At(t, "collect") /\ th[t].check = {}
    /\ buf' = [b \in Buffers |-> IF b \in garbage THEN Freed ELSE buf[b]]
    /\ garbage' = {}
    /\ th' = [th EXCEPT ![t].pc = th[t].back, ![t].back = "idle"]
    /\ UNCHANGED <<methods, before, cache, reading, writing, updating>>

---------------------------------------------------------------------------
\* class_replaceMethod, and class_addMethod of a resolver.

\* A call under way may return what it finds before or after the change.
Changed(m, t) ==
    [u \in Threads |->
        [th[u] EXCEPT !.pc = IF u = t THEN "flush" ELSE @,
                      !.todo = IF u = t THEN Below({m[1]}) ELSE @,
                      !.valid = IF @ = {} THEN {} ELSE @ \cup {Found(methods', th[u].cls, th[u].sel)}]]

Alter(t, m) ==
    /\ writing = NoThread /\ reading = {}
    /\ writing' = t
    /\ methods' = [methods EXCEPT ![m] = @ + 1]
    /\ th' = Changed(m, t)
    /\ UNCHANGED <<before, cache, buf, garbage, reading, updating>>

Replace(t) ==
    /\ At(t, "idle")
    /\ \E m \in Implements : methods[m] < MaxVersion[m] /\ Alter(t, m)

\* To add what is there already changes nothing.
AddMethod(t) ==
    /\ At(t, "resolving")
    /\ LET m == <<th[t].cls, th[t].sel>>
       IN IF methods[m] = 0 THEN Alter(t, m)
          ELSE /\ writing = NoThread
               /\ Goto(t, "read lock")
               /\ UNCHANGED <<methods, before, cache, buf, garbage, reading, writing, updating>>

\* flushCaches, cache_erase_nolock
FlushLock(t) ==
    /\ At(t, "flush") /\ updating = NoThread
    /\ updating' = t
    /\ Goto(t, "erase")
    /\ UNCHANGED <<methods, before, cache, buf, garbage, reading, writing>>

Erase(t) ==
    /\ At(t, "erase")
    /\ \E c \in th[t].todo :
         IF cache[c].occupied > 0
         THEN /\ cache' = [cache EXCEPT ![c].buckets = EmptyCache, ![c].occupied = 0]
              /\ Collect(t, {cache[c].buckets}, th[t].todo \ {c}, "erase")
         ELSE /\ th' = [th EXCEPT ![t].todo = @ \ {c}]
              /\ UNCHANGED <<cache, garbage>>
    /\ UNCHANGED <<methods, before, buf, reading, writing, updating>>

\* Both locks are left; a resolver goes back to the search.
Flushed(t) ==
    /\ At(t, "erase") /\ th[t].todo = {}
    /\ updating' = NoThread
    /\ writing' = NoThread
    /\ before' = methods
    /\ th' = [th EXCEPT ![t] = IF @.tried THEN [@ EXCEPT !.pc = "read lock"] ELSE Idle]
    /\ UNCHANGED <<methods, cache, buf, garbage, reading>>

---------------------------------------------------------------------------
Read(t)   == Send(t) \/ LoadBuckets(t) \/ ScanKeys(t) \/ LoadImp(t)
LookUp(t) == ReadLock(t) \/ SearchList(t) \/ Resolve(t) \/ Return(t)
Fill(t)   == FillLock(t) \/ StoreMask(t) \/ StoreImp(t) \/ StoreKey(t)
Collection(t) == CheckThread(t) \/ FreeGarbage(t)
Change(t) == Replace(t) \/ AddMethod(t) \/ FlushLock(t) \/ Erase(t) \/ Flushed(t)

Next == \E t \in Threads : Read(t) \/ LookUp(t) \/ Fill(t) \/ Collection(t) \/ Change(t)
Spec == Init /\ [][Next]_vars

---------------------------------------------------------------------------
\* A reader without a lock never scans buckets that were freed, nor beyond
\* their end: not when the array was replaced between its loads, nor when
\* the collector looked at it just before it began.
ReadsLiveBuckets ==
    \A t \in Threads : th[t].pc \in {"scan", "imp"} /\ th[t].buckets # EmptyCache =>
        Hash[th[t].sel] % (th[t].mask + 1) < buf[th[t].buckets].cap

\* What a message gets was its implementation at some moment since it was
\* sent: never an imp of another selector, and none that was replaced, in
\* the class or a superclass, before the message was sent.
ReturnsCurrent == \A t \in Threads : At(t, "return") => th[t].imp \in th[t].valid

\* Whenever no change is in progress each cached imp is what the method
\* lists say: a fill never outlives the flush that should have removed it.
CachesAreCurrent ==
    writing = NoThread =>
        \A c \in Classes, s \in Sels :
            LET b == cache[c].buckets
                i == Scan(b, s, Hash[s] % (cache[c].mask + 1))
            IN Cached(c, s) => buf[b].slot[i].imp = Found(methods, c, s)
=============================================================================
