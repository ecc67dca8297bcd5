# Verification of iOSBottomResearch

The repository collects what its author studies to learn how iOS works
underneath, and the author's own experiments with it:

- `src/RunTime/objc-runtime-master/` is Apple's Objective-C runtime,
- `src/RunLoop/CF-1151.16/` is CoreFoundation with `CFRunLoop.c`,
- `src/KVO/`, `src/KVC/` and `src/RunTime/Runtime_BottomResearch/` are the
  author's programs: home-made key-value observing and coding, and demos of
  message resolution, forwarding and swizzling.

This directory holds TLA+ models of the parts in which concurrency, re-entrancy
and long sequences of calls matter, the TLC runs that check them, and TLAPS
proofs about them.

| module | models | role |
|---|---|---|
| `Monitors` | what `@synchronized` promises | abstract specification |
| `ObjcSync` | `runtime/objc-sync.mm` | implements `Monitors` |
| `ObjcSyncProofs` | | theorems about `ObjcSync` |
| `Counter` | what retain and release promise | abstract specification |
| `RefCount` | `runtime/objc-object.h`, `NSObject.mm`: retain, release, change of isa, dealloc | implements `Counter` |
| `RefCountProofs` | | theorems about `RefCount` |
| `ZeroingWeak` | what weak variables promise | abstract specification |
| `WeakRefs` | `runtime/NSObject.mm`, `objc-weak.mm`: `storeWeak` to `objc_destroyWeak` | implements `ZeroingWeak` |
| `WeakRefsProofs` | | theorems about `WeakRefs` |
| `Pools` | what autorelease pools promise | abstract specification |
| `AutoreleasePool` | `runtime/NSObject.mm`, `AutoreleasePoolPage` | implements `Pools` |
| `AutoreleasePoolProofs` | | theorems about `AutoreleasePool` |
| `MethodCache` | `runtime/objc-cache.mm`, `objc-msg-x86_64.s`, lookup in `objc-runtime-new.mm` | |
| `MethodCacheProofs` | | theorems about `MethodCache` |
| `ClassInitialize` | `runtime/objc-initialize.mm` | |
| `ClassInitializeProofs` | | theorems about `ClassInitialize` |
| `CFRunLoop` | `CFRunLoop.c`: runs, sleeping and waking, sources, blocks, limits | |
| `CFRunLoopProofs` | | theorems about `CFRunLoop` |
| `CustomKVO` | `KVO/.../Demo3`, `Demo4`, `Demo5` | |
| `CustomKVOProofs` | | theorems about `CustomKVO` |
| `MC...` | | instances for TLC, one for each of the eight components |

Definitions that a comment calls *Mutant* are wrong on purpose: each is a
plausible bug in the definition below it, and shows that some property would
notice that bug.  No specification uses them.

## Inventory

### @synchronized: `runtime/objc-sync.mm`

- *State.* Striped lists of `SyncData` blocks (object, `threadCount`, recursive
  mutex); per thread a one-entry fast cache and a growing `SyncCache`.
- *Operations.* `objc_sync_enter` and `objc_sync_exit`, both through `id2data`.
- *Interaction.* The lists are shared, each under a spinlock; the caches belong
  to a thread but name shared blocks; `threadCount` is decremented without a lock.
- *Hard.* Blocks are handed from object to object while caches are read without
  a lock; the count is written under two disciplines; an exit lets go of a block
  before it unlocks the block's mutex.
- *Correct when* every object is a recursive monitor, no block changes hands
  while in use, caches are never stale and calls return.

### Reference counts: `runtime/objc-object.h`, `runtime/NSObject.mm`

- *State.* Some bits of the isa, an entry in a side table, the table's lock.
- *Operations.* Retain, tryRetain and release; the change to a raw isa; the end
  of `-dealloc`.
- *Interaction.* The isa is changed by compare and swap without a lock, the
  table under its lock, and halves of the count go from one to the other.
- *Hard.* A count in two places and on its way between them; an isa that turns
  raw under another thread's compare and swap loop; weak loads of a dying object.
- *Correct when* the two places are one counter and the object dies once, after
  the last reference, leaving no entry behind.

### Weak references: `runtime/NSObject.mm`, `runtime/objc-weak.mm`

- *State.* The weak variables, and side tables chosen by an object's address,
  each with a lock and the variables that hold its objects.
- *Operations.* Store, init, destroy, load, and the clearing at deallocation.
- *Interaction.* A store needs the tables of the old and the new object; stores
  and loads leave the locks for `_class_initialize` and start again; a
  deallocation clears variables one after the other.
- *Hard.* Variables are read before the lock that protects them is known;
  two locks at a time; objects that begin to die at any moment; a class that is
  still initializing, on another thread or on this one.
- *Correct when* loads see variables that are zeroed all at once, tables and
  variables agree, and the locks never deadlock.

### Autorelease pools: `runtime/NSObject.mm`

- *State.* A thread's list of pages, the hot page, a placeholder for one
  empty pool.
- *Operations.* Push, autorelease, pop, the end of the thread.
- *Interaction.* A pop releases objects, whose `-dealloc` calls all of it again.
- *Hard.* Re-entrancy: the release loop starts over from the hot page, while
  pops within pops make pages empty and kill them.
- *Correct when* a pop releases exactly what is above its boundary, and the
  tokens of open pools stay valid.

### Method caches and lookup: `runtime/objc-cache.mm`, `objc-runtime-new.mm`

- *State.* A class's buckets, mask and count of used buckets; arrays that
  wait to be freed; method lists under `runtimeLock`.
- *Operations.* `objc_msgSend`, `lookUpImpOrForward`, `cache_fill`,
  `flushCaches`, the collection of garbage, adding and replacing methods.
- *Interaction.* Readers take no lock; the collector looks at their program
  counters.
- *Hard.* Loads of mask and buckets around a replacement; a search that fills a
  cache after the flush that should have emptied it.
- *Correct when* no freed array is read, and no message gets an implementation
  replaced before it was sent.

### Class initialization: `runtime/objc-initialize.mm`

- *State.* Two bits for each class, for each thread the list of classes it is
  initializing, and the map from superclasses to the subclasses that wait for them.
- *Operation.* `_class_initialize`, called by the first message to a class.
- *Interaction.* `+initialize` methods are user code and message other classes;
  threads wait for each other's classes; `fork` leaves one thread behind.
- *Hard.* Two bits read without the lock that guards them; recursion upwards by
  the code and downwards by user code; one condition variable for all classes.
- *Correct when* `+initialize` is sent once and superclasses first, nobody
  but its initializer uses a class early, and nobody waits forever.

### The run loop: `CF-1151.16/CFRunLoop.c`

- *State.* Modes with sources, observers, timers and ports; the queued blocks; a
  stack of runs with a stop flag and an ignore-wake-ups flag each; a wake-up
  port with room for one message.
- *Operations.* Run, stop, wake up, perform a block, and signal, add, remove and
  invalidate items.
- *Interaction.* Any thread calls in under the loop's lock; the loop drops the
  lock around every callout and while it sleeps; callouts may run the loop again.
- *Hard.* Stops, signals, blocks and expired limits that arrive while wake-ups
  are ignored, nested runs, and sources that change while they are served.
- *Correct when* the loop never sleeps over work somebody has announced, a stop
  or a limit ends its run, signaled sources and queued blocks are served, and no
  block is lost.

### Home-made KVO: `KVO/.../Demo3` to `Demo5`

- *State.* The generated class `NSKVONotifying_X` and the setter it overrides,
  each object's isa, the associated observer (Demo3, Demo4) or list of
  observer blocks (Demo5).
- *Operations.* Add and remove an observer, set a property, deallocate.
- *Interaction.* Through the name of the generated class and the name of the
  method `createClass:`, which all three categories define.
- *Hard.* Legal sequences of calls: observing twice, giving back twice, two
  objects of a class, three categories in one program.
- *Correct when* an object's class is its own again when nobody observes it, and
  every change is told to whoever observes it.

### How the parts meet

| from | to | how the models have it |
|---|---|---|
| weak references | reference counts | `RefCount` has one object's weak variables as one, with the lock between a load and its tryRetain; `WeakRefs` has many objects and variables, with counts that are atomic, which is what `RefCount` implements |
| weak references | class initialization | `InitializeFirst` and `LoadInitializes` of `WeakRefs` leave the locks, wait for +initialize and start over; `Initialize` and `EndInitialize` are what `ClassInitialize` has in detail |
| method lookup | class initialization | `MethodCache` has classes that are initialized; `Message` of `ClassInitialize` is the lookup of a class that is not |
| autorelease pools | reference counts | a release of `AutoreleasePool` may run client code, as `-dealloc` does |
| run loop | the other threads | `job` of `CFRunLoop`: what is left of another thread's call |

## Plan

All of the plan is built, in this order:

1. `Monitors`, `ObjcSync`, `ObjcSyncProofs`: the smallest component with the
   hardest interleavings, and the first proofs.
2. `CFRunLoop`, the subject of half of the repository, and `CFRunLoopProofs`.
3. `ClassInitialize`, `ClassInitializeProofs`.
4. `CustomKVO`, the author's own code, and `CustomKVOProofs`.
5. `Counter`, `RefCount`, `RefCountProofs`, and upon them `ZeroingWeak`,
   `WeakRefs`, `WeakRefsProofs`.
6. `Pools`, `AutoreleasePool`, `AutoreleasePoolProofs`; `MethodCache`,
   `MethodCacheProofs`.

What could follow: run loop timers (a clock, and the drift rules of tolerances),
common modes, associated objects, `+load`.  See *Not modelled*.

## objc-sync

`ObjcSync` has one action per access to shared memory.  `Enter` and `Exit` are
the calls up to the point where they hold or have no need of the list's lock:
the fast cache and the `SyncCache` are the thread's own, so a hit there is one
step (with the decrement of `threadCount`, when the last lock of the thread is
given back).  `Lock` takes the spinlock, `Match` and `Pass` look at one block
of the list each, as others decrement the counts meanwhile; `NotFound`,
`Reuse` and `Allocate` are the three ways the search ends, `Unlock` releases
the spinlock, `Store` fills a cache, and `MutexLock` and `MutexTryUnlock` are
the block's recursive mutex.  `cache` is a set of blocks, not an array: the
order in which entries are kept never decides anything.  `leaked` is a history
variable: increments of `threadCount` by exits of threads that are not inside.

| run | question | bounds |
|---|---|---|
| `sync_nested` | is it a recursive monitor per object, and are counts, caches and lists consistent? | 2 threads, 2 objects on one list, 2 blocks, nesting and re-entering twice, one wrong exit, a `SyncCache` that begins with 1 slot |
| `sync_liveness` | does every call return? | as `sync_nested`, without nesting of different objects |

Two threads are enough for every race the code has: each is between one thread
that walks a list and one that uses the unlocked caches.  Two objects and two
blocks let a block be recycled while its former user is on its way out.

*Fairness* (`sync_liveness`): strong for a thread's steps within a call, as
spinlocks and mutexes serve every waiter in the end, and strong for leaving
at each depth, as a `@synchronized` block ends for good some day.  Threads that
nest objects in opposite order deadlock on their own account, so this run does
not let them nest.

*Proved* (`ObjcSyncProofs`, for every number of threads, objects, blocks and
lists, under the assumptions on constants in `ObjcSync`: `None` is none of the
values, the threads are finitely many, every object hashes to a list).  `IInv` is
inductive; besides the type invariant it says that

- `SpinInv`: who walks a list holds its lock,
- `ListInv`: a list's blocks serve its own objects, one block per object,
- `CacheInv`: cached blocks are listed and have a positive count,
- `CallInv`: what a call has found is still true: a block that is returned, stored
  or locked serves the call's object,
- `WalkInv`: a walk has not passed the object, and its `firstUnused` is still
  unused,
- `MutexInv`: the mutex's owner and recursion are what the caches say,
- `CountInv`: `threadCount` counts the users and the leaked increments.

The heart of it is that a block is only recycled with its count at zero and the
lock held, that a count of zero means no user, and that the count is raised only
under the lock: so `CountInv` protects `CallInv`, although decrements take no
lock.  From `IInv` follow `TypeOK`, `NeverFatal`, `ReleaseOwnsMutex`,
`OneBlockPerObject`, `CountCoversUsers`, `WaitIsJustified`, `RetargetUnusedOnly`,
and that `ObjcSync` implements `Monitors` (`Refinement`: the mapping takes a
thread's depth in an object to its lock counts, less the enter that still waits
for the mutex).  Two more are in no run: `MutualExclusion`, which `Monitors`
contains, and `OpenSlot`, that the `SyncCache` has room when a block is stored
many lines after it was grown, by an invariant of its own (`OpenSlotAlways`).
`CallReturns` is only model-checked: liveness is out of the prover's reach.

*A comment that is not true.*  `objc-sync.mm:36` calls `threadCount` the "number
of THREADS using this block".  Line 211 also counts an exit of a thread that is
not inside, which is never taken back (`leaked`): one wrong
`objc_sync_exit`, answered with an error, and the block is not recycled any more.

## Reference counts

`RefCount` has one object.  `isa` is its bits, `table` its entry in the side
table, `lock` the table's lock.  A round of a compare and swap loop that
touches nothing but the isa is one action, the round that succeeds
(`RetainInline`, `ReleaseInline`); where the lock is taken or the table changed
between load and store, the round is several: `RetainLock`, `RetainOverflow` and
`Transcribe` move half of an overflowing count to the table, `ReleaseLock`,
`Borrow`, `StoreBorrowed` and `PutBack` bring it back, with the second attempt
that adds to what others made of the isa.  A store may also fail with nothing
changed, as a store-exclusive does (`PutBack`, `Retry`).  `ChangeIsa`, `StoreRaw`
and `MoveExtraRC` are `changeIsa` to a class whose instances must have a raw
isa; then `RetainRaw` and `ReleaseRaw` send the others to `SidetableRetain` and
`SidetableRelease`.  `LoadWeak` and `LoadWeakLocked` lead to a tryRetain
inside the lock, `RootDealloc` chooses between the fast path and
`ClearDeallocating`.  Threads release only what they own, and pass references
on (`HandOver`).

Run `refcount`: is it one counter, and what does the death leave behind?
3 threads (one borrows from the table, one changes the isa and one retains), an
inline count up to 3 (`RC_HALF` = 2, so a count overflows, is moved and
borrowed back within the references the threads may own, at most `MaxOwned` = 2
each and one at hand).  Not in the model: the pinned count of a full table
entry (2^62 references), and what an over-release does afterwards, which the
clients here do not commit.

*Proved* (`RefCountProofs`, for every number of threads and every width of the
inline count): `TypeOK`, `OwnedIsAlive`, `FreedIsForgotten` and that `RefCount`
implements `Counter`.  The invariant has, besides the types,

- `LockInv`, `HolderInv`: who is at a place inside the lock has it, and what the
  holder has loaded is still so: a half in transit, an isa on its way to the table,
- `IsaInv`: a count in the table goes with `has_sidetable_rc` or a raw isa, an
  isa that is raw counts nothing itself,
- `WeakInv`: a weak variable goes with the bit that leads `RootDealloc` away from
  the fast path,
- `DyingInv`, `CountInv`: the count is exactly the references that threads own
  or have at hand, and one thread runs `-dealloc` when there are none.

`CountInv` is what rules out the over-release branches: a thread that releases
has one of the counted references, so a count of zero with a release under way
is the last one.  References are counted thread by thread (the cardinality of a
set of pairs), which is why the threads need not be finitely many.

## Weak references

`WeakRefs` has many objects, variables and tables.  `BeginStore`, `BeginInit`
and `BeginDestroy` are `storeWeak` with its template parameters; `ReadOld` reads
the variable without a lock, `LockNext` takes one of the two locks in the order
of addresses, `Retry` is the check that the variable has not changed,
`InitializeFirst` the way out for a class not initialized, `Reinitialized` the
return of `_class_initialize` with which the call starts again, `Register` the
changes to the tables, `Assign` the store and the end of the locks.  `BeginLoad`
to `LoadReinitialized` are `objc_loadWeakRetained`: `TryRetain` calls
rootTryRetain, or `retainWeakReference` of a class that overrides it, with the
table locked, and `LoadInitializes` leaves the lock for a class that another
thread is initializing.  `Release` and `RootDealloc` bring an object to its end,
`ZeroOne` clears one variable at a time, `FreeObject` removes the entry.

*Initialization.*  `initialized`, `initializer[c]` and `inside[t]` say which
classes are initialized, who runs a class's `+initialize`, and which
`+initialize` methods the code that `t` executes is a part of.  The
`+initialize` that a store or load sends runs on the same thread, inside the
call.  In the model the call waits at its place, and another member of `Threads`
that has nothing else to do stands for the thread meanwhile (`Initialize`, with
`inside` handed down); it stores, loads and releases as all clients do.
A class that is initializing does not count as initialized.  What lets a store
through is `previous[t]`, `previouslyInitializedClass`: the code inside
`+initialize` asks for the class once, gets it back still initializing
(`MayGoOn`), and stores the object all the same the second time (`NewIsLazy`).
So variables may hold objects of a class that is still initializing, and other
threads that load them wait, or not, as `TryRetain` says.

Abstractions: counts are atomic (they are, by `RefCount`); the hash tables and
inline arrays of `objc-weak.mm` are a set of pairs; `objc_copyWeak` and
`objc_moveWeak` are sequences of the calls.  The overrides of
`retainWeakReference` and `allowsWeakReference` (classes in `Overriding`) may say
NO at any time and say YES only of a living object; they use no weak variables
themselves, as that would be with the table locked.  Left out: the variants that
crash on a dying object; superclasses and a `+initialize` that throws, which
`ClassInitialize` has; objects whose class changes.  Variables are initialized,
destroyed and moved by one thread while no other uses them, which is what the
comments ask for.

Run `weak_refs`: do tables and variables agree, can the locks deadlock, and what
do loads see?  2 threads, 2 objects in 2 tables (nil shares one of them), 2
variables, one reference of a thread to each object.  Each object has a class of
its own, of which one is not initialized and overrides both methods.  Two
variables and two tables let two stores exchange objects, the case `lockTwo`
exists for; one reference each is enough for any of them to be the last; and a
store that sends `+initialize` and the code in it take one member of `Threads`
each, so that two are enough to store an object inside its class's `+initialize`.

*Proved* (`WeakRefsProofs`, for any number of all of these): `TypeCorrect`,
`TablesAgree`, `WeakVariablesZero` (`WeakRefs` implements `ZeroingWeak`), and,
where the tables' addresses are bounded, `LocksNeverCycle`.  The invariant has

- `CallInv`: what a call holds on to: its variable in scope and its own, the
  object it loads or stores,
- `ClassInv`: a class that a call has asked for, or whose `+initialize` a thread is
  inside, has been sent `+initialize`, so that only such classes are registered,
- `LockInv`: which locks a thread has at each place,
- `OwnInv`: an object is alive exactly while somebody owns it, and has one
  deallocator,
- `TableInv`: registered pairs and variables are the same but for the thread
  that is between `Register` and `Assign`, or clearing, with the lock.

`OrderInv`, that a thread waits only for tables above those it has, and for a
`+initialize` only without any, is proved apart: a circle with a lock in it
would need a lowest table nobody waits above.  (Circles of `+initialize` methods
alone are the clients' doing: see *ClassInitialize*.)  The refinement maps a
variable to its value, or to nil if the object is dying: all of them change at
the step of the last release, and `ZeroOne` is a stutter.

## Autorelease pools

`AutoreleasePool` has the pages of one thread as a sequence of sequences (the
entries below `next`), a pointer into them as a page and an index, and the pops
in progress as a stack.  One action is one call of the client or one round of
`releaseUntil`; while an object is being released (`client`), the client may
call all of it again.  `Autorelease`, `PushPlaceholder` and `Push` are
`autoreleaseFast` with its three cases, `Pop` and `PopUnused` the two beginnings
of `pop`, `ReleaseNext`, `Return` and `FinishPop` its loop and its end with
the killing of pages, `ThreadExits` is `tls_dealloc`.  `DebugPoolAllocation`
puts every pool on a page of its own.

Run `autorelease_pool`: is it one stack of pools, are tokens valid, is memory
given back?  Pages of 4 entries (not 500: more than half full and not full is 3,
so every case of `kill` occurs), at most 9 entries, which is more than two
pages, pops two deep, both modes of the debug variable.  Clients are balanced: a
`-dealloc` pops the pools it pushes.  Left out: `DebugMissingPools`, which only
leaks on purpose, and `objc_autoreleaseReturnValue`, which avoids the pools.

*Proved* (`AutoreleasePoolProofs`, for every set of objects, every `COUNT` of at
least 2, every bound on entries and on nested pops, with and without the debug
mode): `TypeCorrect`, `TokensLeadToBoundaries`, `SparePages`, and `Refinement`, that
the pages implement `Pools`.  `COUNT` is at least 2 because the page that follows
the placeholder takes the placeholder's boundary and an entry at once; the
code's pages have some 500.  The inductive invariant `IInv` has, besides types,

- `PagesInv`: pages below the hot one are full (in the debug mode they may not
  be), pages beyond it are empty, and outside of pops there is one at most;
- `TokenInv`: a token leads to a boundary, above that of the token before it;
- `PopInv`: a pop in progress stops at a place that is there (`PopPlace`), above
  the pools it leaves open, below those its releases pushed (`PopTokens`), and
  above the pops it is nested in (`PopOrder`).  In the debug mode its page
  is empty below others only if the next of them is of a pool that its releases
  pushed (`PopAlone`); these have been popped when it ends, so nothing is above
  the page that it kills;
- `LoopInv`: while `releaseUntil` is at work, the pools its releases pushed have
  been popped.

`TokensStayValid` asks only for boundaries in order and says nothing of pops; it
is not inductive without `PopInv`, as the end of a nested pop takes pages away.
The refinement goes step by step: the whole list is the concatenation of the
pages (`Contents`) and a pop stops at an index of it (`Stops`).  `FlattenSeq` is
defined by recursion on the number of pages; what the steps need of it (one more
page, one more entry, an empty page, the first pages only) is proved at the
start of the module, by an induction stated with a set instead of a predicate.

## Method caches

A message is `Send` (the load of the mask), `LoadBuckets`, `ScanKeys` and
`LoadImp`, as in `objc-msg-x86_64.s`; the scan is one step, as a bucket is
written once in its life.  `ReadLock`, `SearchList` and `Resolve` are
`lookUpImpOrForward`, whose caches of superclasses are read by the same four
steps; `FillLock`, `StoreMask`, `StoreImp` and `StoreKey` are `cache_fill`, with
the stores that a reader could tell apart; `CheckThread` and `FreeGarbage` are
the collection, that looks at one thread's program counter after the other;
`Replace` and `AddMethod` change a method under `runtimeLock` and `FlushLock`,
`Erase` and `Flushed` flush the caches.  `before` and the field `valid` are
history: what the message may return.

Run `method_cache`: is memory that is read alive, and is what is called current?
2 threads, a class and its subclass, 2 selectors that collide, and a method of
the class that is forwarded until a resolver or a client adds it, in the
subclass too.  Only a forward: entry gives way in this run, to the method that is
added, as `MaxVersion` is 1 for each method; that one implementation gives way
to another is in the theorem `MessagesGetCurrentImps` only.  4 bucket arrays,
taken in order, and a writer blocks when there is none free; garbage is collected
from one array on; caches are full at a quarter, not at three (`Quarters`), so
that the second selector makes the cache grow.  Threads are
interchangeable (symmetry).

The order of a reader's loads and a writer's stores is that of the code (mask
first, then buckets; `_buckets` before `_mask`); the model is sequentially
consistent and does not show what the barriers between them are for.

*Proved* (`MethodCacheProofs`, for any threads, selectors and hash function, every
hierarchy in which each chain of superclasses ends, any number of bucket
arrays, and every `GarbageMax`, first size and share of a cache that the
assumption allows): `TypeCorrect`, `ReadersScanLiveBuckets`, `MessagesGetCurrentImps`
and `CachesAgree`.  The inductive invariant has four parts besides types:

- `Locks`: who fills a cache holds `runtimeLock` for reading and who flushes holds
  it for writing, and both hold `cacheUpdateLock` where they change a cache;
- `Arrays`: a cache has an array of its own that is not garbage and is large enough
  for its mask, or for the mask that is about to be stored.  A mask that a reader
  loaded never exceeds that of the array it loads then, as caches only grow;
  and when a reader's array is in garbage, a collector at work has not looked
  at that reader yet;
- `Counts`: `occupied` counts at least the used buckets and stays below the
  capacity, so that every scan ends at an unused bucket;
- `Entries`: an entry is what the method lists say, or what they said before the
  change whose flush has not come to that class; what a thread reads or has found
  is of its message's history (`valid`), and with the lock it is what the
  lists say now.

The mask and the array are enough for the first theorem; the other two need the
locks as well, since a fill must not outlive a flush.  The model's two recursions,
up the superclasses, are recursive functions, and the facts about them (that
they are unfolded one class at a time, and that a change of a class's method alters what
its subclasses find and nothing else) are proved from the well-founded order of
superclasses.

## ClassInitialize

Each thread has a stack of activations of `_class_initialize` and `+initialize`
methods.  `Message` enters it (from user code, for a class not yet
initialized), `SuperFirst` recurs on the superclass, `TestAndSet` is the section
under `classInitLock` that sets CLS_INITIALIZING and what follows in the thread
itself, `CheckInitializing` and `CheckInitialized` are the two unlocked reads,
in this order, `Wait` is `waitForInitializeToComplete`, `InitializeEnds` the
return or throw of the method, `Finish` is `lockAndFinishInitializing`, which
holds the lock while `Mark` marks the class and then its pending subclasses one
after the other (others read the bits meanwhile), `Unwind` passes an exception
on, and `Fork` goes over to the child process.

One run, `class_initialize`: 2 threads, 5 classes, of which four are below one
another and one is beside them.  A superclass's `+initialize` messages the class
two levels below it and the one beside it, a class's the one above it, and one
messages itself.  That many levels are needed for a thread to start between two
initializing classes, the class beside them for a waiter to be woken for another
class's sake.  Methods may throw, and one thread may fork.

*Fairness*: strong for a thread's steps in the runtime (every waiter for
`classInitLock` gets it in the end) and for the return of `+initialize` methods.
`MessageReturns` needs that two classes beside each other do not message one
another: such methods deadlock in this code, as the note in the source
solves it for superclasses only.

*Proved* (`ClassInitializeProofs`, for every set of threads, every hierarchy and
whatever the methods message, with throws and a fork): `TypeOK`, `NeverFatal`,
`ContiguousFromRoot`, `OneInitializer` and `ReturnsReady`.  The assumptions on
constants are that a superclass is a class or nil, and that a trivial
`+initialize` messages no class.  The invariant says that

- `ChainInv`: an activation below the top waits for the superclass above it, or runs
  a `+initialize` method,
- `FrameInv`, `ListInv`: a class that is to be finished is on the thread's list, and
  in one activation only; what is on the list of a thread is initializing, and in an
  activation, pending, or about to be marked,
- `StateInv`: the places past a test of the bits agree with them,
- `ReadyInv`: who is about to begin a class has its superclass done or on its list,
- `PendInv`: a pending class and its superclass are on the same list, nobody has
  the class to finish any more, and the superclass will be,
- `MarkInv`: what is to be marked is on the list of the thread with the lock,
- `AliveInv`: after a fork there is one thread.

`ContiguousFromRoot` and `OneInitializer` are inductive with these.  The hard case is
the child of a fork, which takes over classes that other threads had begun: that
it only does so for trivial ones is what keeps it from finishing a superclass
whose pending subclasses are not on its list (the last part of `PendInv`).
`MessageReturns` is only model-checked.

## The run loop

Run 1 is the outermost `CFRunLoopRunSpecific`, run `depth` the one that
executes.  An action is what happens between two releases of the run loop's lock.
`pc` has the places of `__CFRunLoopRun` (`Unlocked` names those at which the
lock is free); at a place with a callout, `CalloutEnds` and `CalloutReturns`
go on, and `Run` may begin an inner run where `NestIn` allows.  `Top` stops
ignoring wake-ups, `TakeBlocks`, `RunBlock` and `RelinkBlocks` are
`__CFRunLoopDoBlocks`, `CollectSources0`, `DoSource0` and `Sources0Done` are
`__CFRunLoopDoSources0`, `GoToSleep` decides on polling and the BeforeWaiting
observers, `ServiceMachPort` receives a message or times out, `Relock` begins to
ignore wake-ups, `HandleMsg` and `DoSource1` dispatch, `Decide` chooses the
result.  The other threads' calls (`Stop`, `StopMode`, `PerformBlock`, `Signal`,
`WakeUp`, `AddSource`, `RemoveSource`, `SourceInvalidate`) happen where the lock is
free; `job` holds what is left of a call of several steps, such as the
`CFRunLoopWakeUp` that follows a stop.  `DeadlinePasses` and `Timeout` are the
dispatch timer of a limited run.

`CFRunLoopPerformBlock` and `CFRunLoopSourceSignal` do not wake the loop; their
callers are told to, so `PerformBlock` and `Signal` leave that call to be made.
Nobody is told to after `CFRunLoopAddSource`, and `FinishAddSource` wakes nobody.
`late` is a history variable for what comes of that: the sources that were added
to a mode when they were signaled already, until they are signaled again or
collected in that mode.  `Told` are the other ready ones.  `served0` and `served1`
are history too, what a run that is to return after one source has performed.

Abstractions: the order of blocks and of sources is open; timers are messages
that may come at any time; common modes are expanded by `BlockModes`.

| run | question | bounds |
|---|---|---|
| `loop_wakeups` | does the loop ever sleep over work; does a run for one source perform one, and say so? | 1 run at a time, 2 version 0 sources (interchangeable: symmetry), 1 port source, a timer, limits of some and of zero seconds |
| `loop_nested` | the same and the blocks' fate, with runs in runs from the late callouts | 2 modes, 2 runs, 2 blocks (one for one mode only), with and without limit |
| `loop_liveness` | do stopped and limited runs end, are sources and blocks served? | 1 run, 1 source, 1 block |
| `loop_early_callouts` (violation) | the same as `loop_nested` from the early callouts | 2 runs |

One client is enough for the lost wake-up: what matters is the order of its
flag, its message and the loop's steps, and it may act any number of times.
Two runs are enough, because a wake-up is taken from one run by another.

*Finding* (`loop_early_callouts`): a callout of BeforeTimers, BeforeSources, the
first pass over the blocks or BeforeWaiting that runs the loop again takes
the message meant for the outer run, which has passed its look at the stop
flags and the sources and goes to sleep over them.  The late callouts are those
after which a run looks again before it sleeps.

*A source that is signaled and then added.*  If the loop sleeps in the mode it is
added to, it goes on sleeping until something else wakes it: the wake-up that
follows the signal has come and gone.  `NoLostWakeUp`
and `SourceServed` are therefore about sources in `Told`; without that both fail.

*One source.*  A run with `stopAfterHandle` may perform one version 0 source and
one version 1 source in the same turn, as it polls its ports after the first.
`OnceServesOnce` says that it performs no more, over all its turns, and that its
result is HandledSource exactly if it has performed one, though it may be
stopped, run out of time or lose its last source meanwhile.

*Three differences between the code and what is said of it*, modelled as the code
has them.  `CFRunLoopAddSource` looks at the valid bit before it takes the lock
(`CFRunLoop.c:2842`; `AddSource`, then `FinishAddSource`): a source that is
invalidated in between stays in the mode for good.  BeforeWaiting is announced
when the run does not poll, that is, neither after a handled source nor with a
limit of zero (`src/RunLoop/README.md:71` names the first only).  A mode is empty
without sources, timers and blocks, whatever observers it has (line 123 of that
file has a run finish only when no observer is left either).

*Fairness* (`loop_liveness`): the loop's thread goes on when it can, so callouts
return and messages are received; a caller that has set a flag goes on to wake
the loop; time passes.  Nothing is assumed of the clients' other steps, nor
of callouts' starting inner runs.

*Proved* (`CFRunLoopProofs`, for all modes, sources, blocks, clients and observers
and every number of runs within runs): `TypeOK`, `NoBlockLost`, `OnceServesOnce`,
and `NoLostWakeUp` when only late callouts run the loop again (`NestIn` is a
subset of `LateCallouts`; `loop_early_callouts` shows what happens otherwise).
`Shape` is inductive: suspended runs are in callouts, a run has blocks detached
only within `__CFRunLoopDoBlocks` and none of those it holds back is for its
mode, and a run past its first source performed will poll.  `NoBlockLost` follows
from it.  `OnceInv` says what a run for one source has performed at each place:
none before it looks at the sources, none of a port's before it has dispatched
the message, and until the turn ends `handled` tells whether there was one, then
the result does.  `Heard` is the reason why no wake-up is lost:
between the top of a turn and its wait the executing run does not ignore
wake-ups, and what has come since it looked (`Unseen`: a stop since the end of
the last turn, a block since the first pass, a signal since the sources were collected,
the limit since the decision to wait) has a message or a caller that will send
one.  An inner run may take the message; a run in a late callout then has its
next look still ahead, or only polls.  The assumptions are those on the
constants.  The liveness properties are model-checked only.

## Home-made KVO

One action per call, as all of it is on the main thread.  `linked` is the set of
categories the program is linked from, `creator` the one whose `createClass:`
is in effect, `via[o]` the one through which an object is observed.  `isa[o]`
counts how far the object's isa is below its own class; `Shown` is what
`[o class]` answers.  `asked` is a history variable, the observers that were
added and not removed.  Setters are called with objects: with nil, Demo3's and
Demo4's fail at the literal `@{key:newValue}` after they have stored.

Run `kvo_demos`: does each category work alone, and the three together? 3 objects
of 2 classes, 1 observer per object, 1 key, each category alone and all of them
linked into one program, as the project does.

*What does not work.*  The three categories all define `createClass:` on
NSObject, and the runtime uses one of them, in an order that nothing fixes
(`Demo5/NSObject+BlockKVO.m:71`).  An object that is observed through another
category than that one gets its class, but the setter looks for observers
elsewhere and tells nobody; `EveryChangeTold` is therefore asked of the objects
that are `Served`.  The run keeps to what the demos' own controllers do, one observer
per object and one key per class.  The code does not support more (a second observer
replaces the first, a second key's setter is never overridden, and removing one
observer removes all): the hazards list this, and no property covers it.

*Proved* (`CustomKVOProofs`, for all objects, classes and observers and every set
of categories linked, as long as each object has one observer and there is one
key, `OneObserverEach` and `OneKey`): `TypeOK` (without those two), `IsaShowsObserved`
and `EveryChangeTold`.  The invariant, `ObjectInv`, says of each object that its isa
shows whether it is observed, that its class then has the setter, and that its
observer is where the category it is observed through keeps it.

## Not modelled

| component | why |
|---|---|
| run loop modes, common modes, observers | set operations under the run loop's lock, but for the cancel callouts of `__CFRunLoopRemoveAllSources`; `CFRunLoop` takes a mode's members as given, except sources |
| run loop timers | a clock and the drift rules of tolerances would be a model of their own; `CFRunLoop` has the messages of their ports |
| method lists, realization, forwarding | data structures under one lock, and user code; the search itself is in `MethodCache` |
| associated objects, property accessors | one lock around a map or a field; what they retain and release is in `RefCount` |
| `+load` | sequential under one lock |
| home-made KVC, containers | a search that keeps no state |
| the system's KVO and KVC demos | the code they run is not in the repository |
| Block KVO of YYKit | vendored |
| the rest of CoreFoundation and of the runtime | copied beside the files that are studied: collections, strings, URLs, property lists, sockets, exception tables, image files, assembly for other processors |

CoreFoundation alone is most of the code in the repository, and nearly all of it
is in the last line of the table: the models cover the parts of the two
libraries that the repository is about, and little of their bulk.

Within the components that are modelled, these parts are left out: the main
queue's port of the run loop, the destruction of a thread's `SyncCache`,
`cache_delete`, `collectALot`, and what each section above names.

## What the results rest on

- Memory is sequentially consistent; the code's plain reads of flags under no
  lock are atomic.
- Locks, the wake-up port, dispatch timers and `fork` behave as the code uses
  them.
- Clients do what the interfaces ask of them.  For the run loop: whoever calls
  `CFRunLoopPerformBlock` or `CFRunLoopSourceSignal` calls `CFRunLoopWakeUp` next
  (`PerformBlock` and `Signal`; `NoLostWakeUp`, `SourceServed` and `BlockRuns` rest
  on it).  For reference counts: nobody releases what he does not own.  For weak
  variables: nobody else uses one that is initialized, destroyed or moved.  For
  pools: a `-dealloc` pops the pools it pushes.
- Bounds are named in the modules (`MaxDepth`, `MaxBadExits`, `MaxRuns`,
  `MaxOwned`, `MaxEntries`, `MaxPops`, `MaxVersion`, `GarbageMax`, and the length
  of `infos`); the theorems hold for every value of those of their modules.
- `CHECK_DEADLOCK FALSE` in all configurations but that of `sync_liveness`:
  programs may stop, and clients may have nothing more to do (every reference
  released, every method replaced, the thread at its end); threads that nest
  monitors in opposite order do deadlock.  Where a deadlock would be the code's
  fault, a property says so: `CallReturns`, `MessageReturns`, `NoLockCycle`,
  `NoLostWakeUp`.
- *Proved and model-checked*: every invariant and every refinement that a passing
  run checks is stated by a theorem as well, for every value of the constants
  under the assumptions that the sections name.
- *Model-checked only*: liveness under fairness (`CallReturns`, `MessageReturns`
  and those of `loop_liveness`), which like `ENABLED` is out of the prover's reach.
