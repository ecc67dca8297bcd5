-------------------------- MODULE MethodCacheProofs --------------------------
(***************************************************************************)
(* Theorems about MethodCache, for every class hierarchy in which each     *)
(* chain of superclasses ends, all threads, messages and hash functions,   *)
(* every size of the first cache and every threshold of the collector.     *)
(***************************************************************************)
EXTENDS MethodCache, FiniteSetTheorems, WellFoundedInduction, TLAPS

Imps   == (Classes \cup {NoClass}) \X Nat
Bucket == [key : Sels \cup {NoSel}, imp : Imps]
PCs    == {"idle", "buckets", "scan", "imp", "read lock", "list", "resolve", "resolving", "return",
           "fill", "new mask", "insert", "key", "collect", "flush", "erase"}
Locals == [pc : PCs, cls : Classes \cup {NoClass}, sel : Sels \cup {NoSel},
           cur : Classes \cup {NoClass}, mask : Nat, buckets : Buffers \cup {EmptyCache},
           index : Nat, imp : Imps, locked : BOOLEAN, tried : BOOLEAN,
           old : Buffers \cup {EmptyCache}, todo : SUBSET Classes, check : SUBSET Threads,
           back : PCs, valid : SUBSET Imps]

Array(r) == /\ r = [cap |-> r.cap, slot |-> r.slot]
            /\ r.cap \in Nat
            /\ r.slot \in [0..r.cap - 1 -> Bucket]

\* Every variable has its type; an array that is not free has its buckets.
TypeOK ==
    /\ methods \in [Classes \X Sels -> Nat] /\ before \in [Classes \X Sels -> Nat]
    /\ cache \in [Classes -> [buckets : Buffers \cup {EmptyCache}, mask : Nat, occupied : Nat]]
    /\ buf = [b \in Buffers |-> buf[b]]
    /\ \A b \in Buffers : buf[b] = Freed \/ Array(buf[b])
    /\ garbage \subseteq Buffers
    /\ reading \subseteq Threads
    /\ writing \in Threads \cup {NoThread} /\ updating \in Threads \cup {NoThread}
    /\ th \in [Threads -> Locals]
-----------------------------------------------------------------------------
\* The three locks.

Reader(r)  == r.pc \in {"buckets", "scan", "imp"}
Writer(r)  == r.pc \in {"flush", "erase"} \/ (r.pc = "collect" /\ r.back = "erase")
Filling(r) == r.pc \in {"new mask", "insert", "key"} \/ (r.pc = "collect" /\ r.back = "insert")
Updater(r) == r.pc \in {"new mask", "insert", "key", "collect", "erase"}

\* Who fills holds runtimeLock for reading, who alters holds it for writing;
\* both hold cacheUpdateLock while they change a cache.
LockInv(t) ==
    LET r == th[t] IN
    /\ r.locked => t \in reading /\ writing = NoThread
    /\ Filling(r) \/ r.pc \in {"list", "resolve", "fill"} => r.locked
    /\ Writer(r) <=> writing = t
    /\ Updater(r) => updating = t
    /\ r.pc = "collect" => r.back \in {"insert", "erase"}
    /\ r.pc = "idle" => ~r.tried /\ r.cls = NoClass
    /\ Reader(r) \/ Filling(r) \/ r.pc \in {"read lock", "list", "resolve", "resolving", "return", "fill"}
          => r.cls \in Classes /\ r.sel \in Sels
    /\ r.cls # NoClass => r.cls \in Classes /\ r.sel \in Sels
    /\ r.tried \/ r.valid # {} => r.cls # NoClass
    /\ Reader(r) \/ r.pc = "list" => r.cur \in Classes
    /\ Reader(r) /\ ~r.locked => r.cur = r.cls

Locks == /\ \A t \in Threads : LockInv(t)
         /\ writing = NoThread => before = methods
-----------------------------------------------------------------------------
\* Who uses an array of buckets.

Fills(c, pcs) == \E t \in Threads : Filling(th[t]) /\ th[t].pc \in pcs /\ th[t].cls = c

\* Arrays in use are not free: a cache has one of its own, large enough for
\* the mask it has or had, and the collector has those that are replaced.
CacheInv(c) ==
    LET k == cache[c]
        b == k.buckets
    IN /\ b = EmptyCache => k.occupied = 0
       /\ b # EmptyCache =>
            /\ buf[b] # Freed /\ b \notin garbage
            /\ buf[b].cap >= 4 /\ k.mask + 1 <= buf[b].cap
            /\ ~Fills(c, {"new mask"}) => buf[b].cap = k.mask + 1
       /\ k.mask = 0 \/ k.mask >= 3
       /\ \A d \in Classes : cache[d].buckets = b /\ b # EmptyCache => d = c

\* What a reader loaded stays large enough, and is not freed: once it is in
\* garbage, a collector that is at work has yet to look at the reader.
ReadInv(t) ==
    LET r == th[t]
        b == r.buckets
    IN /\ r.pc = "buckets" => r.mask <= cache[r.cur].mask
       /\ r.pc = "imp" => b # EmptyCache
       /\ r.pc \in {"scan", "imp"} /\ b # EmptyCache =>
            /\ buf[b] # Freed
            /\ r.mask + 1 <= buf[b].cap
            /\ b \in garbage => \A u \in Threads : th[u].pc = "collect" => t \in th[u].check

\* A thread that fills has replaced the empty cache; the array it replaced
\* is nobody's until it is garbage.
FillInv(t) ==
    LET r == th[t] IN
    /\ Filling(r) => cache[r.cls].buckets # EmptyCache
    /\ r.pc = "new mask" /\ r.old # EmptyCache =>
         /\ buf[r.old] # Freed /\ r.old \notin garbage
         /\ \A c \in Classes : cache[c].buckets # r.old

Arrays == /\ \A c \in Classes : CacheInv(c)
          /\ \A t \in Threads : ReadInv(t)
          /\ \A t \in Threads : FillInv(t)
          /\ \A b \in garbage : buf[b] # Freed
-----------------------------------------------------------------------------
\* Counting the buckets in use.

Used(b) == {i \in 0..buf[b].cap - 1 : buf[b].slot[i].key # NoSel}

\* The count of a cache is at least that of its used buckets, and one is left
\* unused, before and after an entry is filled.
CountInv(c) ==
    LET k == cache[c]
        b == k.buckets
    IN b # EmptyCache /\ ~Fills(c, {"new mask"}) =>
          /\ Cardinality(Used(b)) + (IF Fills(c, {"key"}) THEN 1 ELSE 0) <= k.occupied
          /\ k.occupied + (IF Fills(c, {"insert", "collect"}) THEN 1 ELSE 0) < buf[b].cap

Counts == /\ \A c \in Classes : CountInv(c)
          /\ \A t \in Threads : th[t].pc = "new mask" => Used(cache[th[t].cls].buckets) = {}
          /\ \A b \in Buffers : buf[b] # Freed => Used(b) # 0..buf[b].cap - 1
-----------------------------------------------------------------------------
\* What the entries are.

\* The caches that wait for the flush of a change.
Stale(c) == \E t \in Threads : Writer(th[t]) /\ c \in th[t].todo

EntryInv(c) ==
    LET b == cache[c].buckets
    IN b # EmptyCache =>
         \A i \in Used(b) :
            LET e == buf[b].slot[i]
            IN e.imp = Found(methods, c, e.key) \/ (Stale(c) /\ e.imp = Found(before, c, e.key))

\* A search with the lock finds what the lists say; without it, what they
\* have said since the message was sent.
ResultInv(t) ==
    LET r == th[t]
        found == Found(methods, r.cls, r.sel)
    IN /\ r.cls # NoClass => {found, Found(before, r.cls, r.sel)} \subseteq r.valid
       /\ Reader(r) \/ r.pc = "list" => found = Found(methods, r.cur, r.sel)
       /\ r.pc = "resolve" => found = Forward
       /\ r.pc = "fill" \/ Filling(r) => r.imp = found
       /\ r.pc = "return" => r.imp \in r.valid

\* The bucket whose key is about to be stored.
KeyInv(t) ==
    LET r == th[t]
        b == cache[r.cls].buckets
    IN r.pc = "key" =>
          /\ r.index \in 0..buf[b].cap - 1
          /\ buf[b].slot[r.index].imp = r.imp
          /\ buf[b].slot[r.index].key \in {r.sel, NoSel}

\* What the array that a thread reads says of its selector.
ScanInv(t) ==
    LET r == th[t]
        b == r.buckets
    IN r.pc \in {"scan", "imp"} /\ b # EmptyCache =>
          /\ r.pc = "imp" => r.index \in 0..buf[b].cap - 1 /\ buf[b].slot[r.index].key = r.sel
          /\ \A c \in Classes : cache[c].buckets = b => c = r.cur
          /\ \A i \in 0..buf[b].cap - 1 :
                LET e == buf[b].slot[i]
                IN e.key = r.sel => IF r.locked THEN e.imp = Found(methods, r.cls, r.sel)
                                                ELSE e.imp \in r.valid

SearchInv(t) == ResultInv(t) /\ KeyInv(t) /\ ScanInv(t)

Entries == /\ \A c \in Classes : EntryInv(c)
           /\ \A t \in Threads : SearchInv(t)

IInv == TypeOK /\ Locks /\ Arrays /\ Counts /\ Entries
-----------------------------------------------------------------------------
\* The class hierarchy.

Closed(C)  == \A c \in C : Super[c] \in C \cup {NoClass}
Reach(c)   == {a \in Classes : \A C \in SUBSET Classes : c \in C /\ Closed(C) => a \in C}

LEMMA Chains ==
    ASSUME NEW C \in SUBSET Classes, C # {}
    PROVE  \E c \in C : Super[c] \notin C
BY MethodCacheAssumption

LEMMA SuperTyped ==
    ASSUME NEW c \in Classes
    PROVE  Super[c] \in Classes \cup {NoClass} /\ (Super[c] # NoClass <=> Super[c] \in Classes)
BY MethodCacheAssumption

LEMMA ReachStep ==
    ASSUME NEW c \in Classes
    PROVE  Reach(c) = {c} \cup (IF Super[c] = NoClass THEN {} ELSE Reach(Super[c]))
<1> DEFINE R == {c} \cup (IF Super[c] = NoClass THEN {} ELSE Reach(Super[c]))
<1>0. R \in SUBSET Classes
  BY SuperTyped DEF Reach
<1>1. ASSUME NEW d \in Classes PROVE Closed(Reach(d)) /\ d \in Reach(d)
  <2>1. d \in Reach(d)
    BY DEF Reach
  <2>2. ASSUME NEW a \in Reach(d), Super[a] # NoClass PROVE Super[a] \in Reach(d)
    <3>1. a \in Classes /\ Super[a] \in Classes
      BY <2>2, SuperTyped DEF Reach
    <3>2. ASSUME NEW C \in SUBSET Classes, d \in C, Closed(C) PROVE Super[a] \in C
      <4>1. a \in C
        BY <3>2 DEF Reach
      <4> QED
        BY <3>2, <4>1, <2>2 DEF Closed
    <3> QED
      BY <3>1, <3>2 DEF Reach
  <2> QED
    BY <2>1, <2>2 DEF Closed
<1>2. Closed(R) /\ c \in R
  <2>1. CASE Super[c] = NoClass
    BY <2>1 DEF Closed
  <2>2. CASE Super[c] # NoClass
    <3>1. Super[c] \in Classes
      BY <2>2, SuperTyped
    <3>2. Closed(Reach(Super[c])) /\ Super[c] \in Reach(Super[c])
      BY <3>1, <1>1
    <3> QED
      BY <2>2, <3>2 DEF Closed
  <2> QED
    BY <2>1, <2>2
<1>3. Reach(c) \subseteq R
  BY <1>0, <1>2 DEF Reach
<1>4. ASSUME NEW a \in R PROVE a \in Reach(c)
  <2>1. CASE a = c
    BY <2>1, <1>1
  <2>2. CASE a # c
    <3>1. Super[c] # NoClass /\ a \in Reach(Super[c])
      BY <1>4, <2>2
    <3>2. ASSUME NEW C \in SUBSET Classes, c \in C, Closed(C) PROVE a \in C
      <4>1. Super[c] \in C
        BY <3>1, <3>2 DEF Closed
      <4> QED
        BY <4>1, <3>1, <3>2 DEF Reach
    <3> QED
      BY <3>1, <3>2 DEF Reach
  <2> QED
    BY <2>1, <2>2
<1> QED
  BY <1>3, <1>4

\* What the recursion of Above computes, and that there is such a function.
LEMMA AboveStep ==
    ASSUME NEW c \in Classes
    PROVE  Above[c] = {c} \cup (IF Super[c] = NoClass THEN {} ELSE Above[Super[c]])
<1> DEFINE Rec(f) == f = [k \in Classes |-> {k} \cup (IF Super[k] = NoClass THEN {} ELSE f[Super[k]])]
<1>1. Rec([k \in Classes |-> Reach(k)])
  <2> DEFINE g == [k \in Classes |-> Reach(k)]
  <2>1. ASSUME NEW k \in Classes
        PROVE  g[k] = {k} \cup (IF Super[k] = NoClass THEN {} ELSE g[Super[k]])
    BY SuperTyped, ReachStep
  <2> QED
    BY <2>1
<1>2. Above = CHOOSE f : Rec(f)
  BY Zenon DEF Above
<1>3. Rec(Above)
  BY <1>1, <1>2, Zenon
<1> QED
  BY <1>3

\* Two functions that recur in the same way are equal.
LEMMA AboveReach == ASSUME NEW c \in Classes PROVE Above[c] = Reach(c)
<1> DEFINE C == {k \in Classes : Above[k] # Reach(k)}
<1>1. SUFFICES ASSUME C # {} PROVE FALSE
  OBVIOUS
<1>2. PICK k \in C : Super[k] \notin C
  BY <1>1, Chains
<1>3. Super[k] # NoClass => Above[Super[k]] = Reach(Super[k])
  BY <1>2, SuperTyped
<1> QED
  BY <1>2, <1>3, AboveStep, ReachStep

LEMMA AboveTyped == ASSUME NEW c \in Classes PROVE Above[c] \subseteq Classes /\ c \in Above[c]
BY AboveReach, AboveStep DEF Reach

LEMMA AboveClosed ==
    ASSUME NEW c \in Classes, NEW a \in Above[c]
    PROVE  Super[a] # NoClass => Super[a] \in Above[c]
<1>1. a \in Classes /\ a \in Reach(c)
  BY AboveTyped, AboveReach
<1> SUFFICES ASSUME Super[a] # NoClass PROVE Super[a] \in Reach(c)
  BY AboveReach
<1>2. ASSUME NEW C \in SUBSET Classes, c \in C, Closed(C) PROVE Super[a] \in C
  <2>1. a \in C
    BY <1>1, <1>2 DEF Reach
  <2> QED
    BY <1>2, <2>1 DEF Closed
<1> QED
  BY <1>1, <1>2, SuperTyped DEF Reach

LEMMA AboveTransitive ==
    ASSUME NEW c \in Classes, NEW a \in Above[c]
    PROVE  Above[a] \subseteq Above[c]
<1>1. Above[c] \in SUBSET Classes /\ a \in Classes
  BY AboveTyped
<1>2. Closed(Above[c])
  BY AboveClosed DEF Closed
<1>3. Reach(a) \subseteq Above[c]
  BY <1>1, <1>2 DEF Reach
<1> QED
  BY <1>1, <1>3, AboveReach

\* No class is above itself by way of another.
LEMMA AboveAntisymmetric ==
    ASSUME NEW a \in Classes, NEW b \in Classes, a \in Above[b], b \in Above[a]
    PROVE  a = b
<1> SUFFICES ASSUME a # b PROVE FALSE
  OBVIOUS
<1> DEFINE C == {x \in Above[a] : a \in Above[x]}
<1>1. a \in C /\ C \in SUBSET Classes
  BY AboveTyped
<1>2. PICK x \in C : Super[x] \notin C
  BY <1>1, Chains
<1>3. x \in Classes /\ x \in Above[a] /\ a \in Above[x]
  BY <1>1, <1>2
<1>4. CASE x = a
  <2>1. Super[a] # NoClass /\ b \in Above[Super[a]] /\ Super[a] \in Classes
    BY AboveStep, SuperTyped
  <2>2. a \in Above[Super[a]]
    BY <2>1, AboveTransitive
  <2>3. Super[a] \in Above[a]
    BY <2>1, AboveClosed, AboveTyped
  <2> QED
    BY <1>2, <1>4, <2>2, <2>3
<1>5. CASE x # a
  <2>1. Super[x] # NoClass /\ a \in Above[Super[x]]
    BY <1>3, <1>5, AboveStep
  <2>2. Super[x] \in Above[a]
    BY <1>3, <2>1, AboveClosed
  <2> QED
    BY <1>2, <2>1, <2>2
<1> QED
  BY <1>4, <1>5

\* The recursion of Found has a solution: the nearest class that has a method.
LEMMA FoundStep ==
    ASSUME NEW m, NEW s, NEW c \in Classes
    PROVE  Found(m, c, s) = IF m[<<c, s>>] > 0 THEN <<c, m[<<c, s>>]>>
                            ELSE IF Super[c] = NoClass THEN Forward ELSE Found(m, Super[c], s)
<1> DEFINE Rec(f) == f = [k \in Classes |-> IF m[<<k, s>>] > 0 THEN <<k, m[<<k, s>>]>>
                                            ELSE IF Super[k] = NoClass THEN Forward ELSE f[Super[k]]]
           Has(a)  == m[<<a, s>>] > 0
           Have(k) == {a \in Above[k] : Has(a)}
           Near(k) == CHOOSE a \in Have(k) : Have(k) \subseteq Above[a]
           g == [k \in Classes |-> IF Have(k) = {} THEN Forward ELSE <<Near(k), m[<<Near(k), s>>]>>]
<1>1. ASSUME NEW k \in Classes
      PROVE  g[k] = IF m[<<k, s>>] > 0 THEN <<k, m[<<k, s>>]>>
                    ELSE IF Super[k] = NoClass THEN Forward ELSE g[Super[k]]
  <2>1. CASE Has(k)
    <3>1. k \in Have(k) /\ Have(k) \subseteq Above[k]
      BY <2>1, AboveTyped
    <3>2. ASSUME NEW a \in Have(k), Have(k) \subseteq Above[a] PROVE a = k
      <4>1. a \in Classes /\ a \in Above[k] /\ k \in Above[a]
        BY <3>1, <3>2, AboveTyped
      <4> QED
        BY <4>1, AboveAntisymmetric
    <3>3. Near(k) = k
      BY <3>1, <3>2
    <3> QED
      BY <2>1, <3>1, <3>3
  <2>2. CASE ~Has(k)
    <3>1. CASE Super[k] = NoClass
      <4>1. Have(k) = {}
        BY <2>2, <3>1, AboveStep
      <4> QED
        BY <2>2, <3>1, <4>1
    <3>2. CASE Super[k] # NoClass
      <4>1. Have(k) = Have(Super[k]) /\ Super[k] \in Classes
        BY <2>2, <3>2, AboveStep, SuperTyped
      <4>2. Near(k) = Near(Super[k])
        BY <4>1
      <4>3. g[k] = g[Super[k]]
        <5> HIDE DEF Near, Have
        <5> QED
          BY <4>1, <4>2
      <4> QED
        BY <2>2, <3>2, <4>3
    <3> QED
      BY <3>1, <3>2
  <2> QED
    BY <2>1, <2>2
<1>2. Rec(g)
  <2> HIDE DEF Near, Have
  <2> QED
    BY <1>1
<1> DEFINE h == CHOOSE f : Rec(f)
<1>3. Rec(h)
  <2> HIDE DEF g
  <2> QED
    BY <1>2, Zenon
<1>4. \A k \in Classes : Found(m, k, s) = h[k]
  BY Zenon DEF Found
<1>5. h[c] = IF m[<<c, s>>] > 0 THEN <<c, m[<<c, s>>]>>
             ELSE IF Super[c] = NoClass THEN Forward ELSE h[Super[c]]
  <2> HIDE DEF h
  <2> QED
    BY <1>3
<1>6. Super[c] # NoClass => Found(m, Super[c], s) = h[Super[c]]
  BY <1>4, SuperTyped
<1>7. Found(m, c, s) = h[c]
  BY <1>4
<1> QED
  <2> HIDE DEF h
  <2> QED
    BY <1>5, <1>6, <1>7

LEMMA FoundTyped ==
    ASSUME NEW m \in [Classes \X Sels -> Nat], NEW s \in Sels, NEW c \in Classes
    PROVE  Found(m, c, s) \in Imps
<1> DEFINE C == {k \in Classes : Found(m, k, s) \notin Imps}
<1>1. SUFFICES ASSUME C # {} PROVE FALSE
  OBVIOUS
<1>2. PICK k \in C : Super[k] \notin C
  BY <1>1, Chains
<1>3. Super[k] # NoClass => Found(m, Super[k], s) \in Imps
  BY <1>2, SuperTyped
<1>4. m[<<k, s>>] \in Nat /\ <<k, m[<<k, s>>]>> \in Imps
  BY <1>2 DEF Imps
<1>5. Forward \in Imps
  BY DEF Forward, Imps
<1> QED
  BY <1>2, <1>3, <1>4, <1>5, FoundStep

\* A change of a method leaves alone what is found from the classes that are
\* not below it, and for the other selectors.
LEMMA FoundSame ==
    ASSUME NEW m, NEW n, NEW s, NEW c \in Classes,
           \A a \in Above[c] : m[<<a, s>>] = n[<<a, s>>]
    PROVE  Found(m, c, s) = Found(n, c, s)
<1> DEFINE C == {k \in Above[c] : Found(m, k, s) # Found(n, k, s)}
<1>1. SUFFICES ASSUME C # {} PROVE FALSE
  BY AboveTyped
<1>2. PICK k \in C : Super[k] \notin C
  BY <1>1, Chains, AboveTyped
<1>3. k \in Classes /\ m[<<k, s>>] = n[<<k, s>>]
  BY AboveTyped
<1>4. Super[k] # NoClass => Found(m, Super[k], s) = Found(n, Super[k], s)
  BY <1>2, AboveClosed
<1> QED
  BY <1>2, <1>3, <1>4, FoundStep
-----------------------------------------------------------------------------
\* Arrays of buckets and the scan.

LEMMA ModIn == ASSUME NEW i \in Nat, NEW n \in Nat, n > 0 PROVE i % n \in 0..n - 1
OBVIOUS

LEMMA ModSmall == ASSUME NEW i \in Nat, NEW n \in Nat, i < n PROVE i % n = i
OBVIOUS

LEMMA ModWrap == ASSUME NEW i \in Nat, NEW n \in Nat, n > 0, n <= i, i < n + n PROVE i % n = i - n
OBVIOUS

\* The least element of a set of numbers.
LEMMA MinIn == ASSUME NEW D \in SUBSET Nat, D # {} PROVE Min(D) \in D
<1>1. PICK i \in D : \A j \in D : ~(<<j, i>> \in OpToRel(<, Nat))
  BY WFMin, NatLessThanWellFounded, Zenon
<1>2. \A j \in D : ~(j < i)
  BY <1>1, Zenon DEF OpToRel
<1>3. \A j \in D : i <= j
  BY <1>2
<1> QED
  BY <1>3 DEF Min

\* A scan of an array that has an unused bucket ends in the array, at the
\* selector's bucket or at an unused one.
LEMMA ScanEnds ==
    ASSUME NEW b, Array(buf[b]), Used(b) # 0..buf[b].cap - 1,
           NEW s, NEW i \in 0..buf[b].cap - 1
    PROVE  /\ Scan(b, s, i) \in 0..buf[b].cap - 1
           /\ buf[b].slot[Scan(b, s, i)].key \in {s, NoSel}
<1> DEFINE n == buf[b].cap
<1>1. n \in Nat /\ n > 0
  <2>1. n \in Nat
    BY DEF Array
  <2> QED
    BY <2>1
<1>2. PICK j \in 0..n - 1 : buf[b].slot[j].key = NoSel
  BY DEF Used
<1> DEFINE d == IF j >= i THEN j - i ELSE j - i + n
<1>3. d \in 0..n - 1 /\ (i + d = j \/ i + d = j + n)
  <2> HIDE DEF n
  <2>1. n \in Nat /\ n > 0 /\ i \in 0..n - 1 /\ j \in 0..n - 1
    BY <1>1 DEF n
  <2> QED
    BY <2>1
<1>4. (i + d) % n = j
  <2> HIDE DEF n, d
  <2>1. CASE i + d = j
    BY <1>1, <1>3, <2>1, ModSmall
  <2>2. CASE i + d = j + n
    <3>1. i + d \in Nat /\ n <= i + d /\ i + d < n + n /\ (i + d) - n = j
      BY <1>1, <1>3, <2>2
    <3> QED
      BY <1>1, <3>1, ModWrap
  <2> QED
    BY <1>3, <2>1, <2>2
<1>5. d \in Stops(b, s, i)
  BY <1>2, <1>3, <1>4 DEF Stops
<1> DEFINE e == Min(Stops(b, s, i))
<1>6. e \in Stops(b, s, i)
  <2>1. Stops(b, s, i) \in SUBSET Nat
    BY <1>1 DEF Stops
  <2> QED
    BY <1>5, <2>1, MinIn
<1>7. e \in 0..n - 1 /\ buf[b].slot[(i + e) % n].key \in {s, NoSel}
  BY <1>6, Zenon DEF Stops
<1>8. (i + e) % n \in 0..n - 1
  <2> HIDE DEF e
  <2>1. i + e \in Nat
    BY <1>1, <1>7
  <2> QED
    BY <1>1, <2>1, ModIn
<1> QED
  BY <1>7, <1>8 DEF Scan

\* The buckets in use of an array are counted.
InUse(r) == {i \in 0..r.cap - 1 : r.slot[i].key # NoSel}

LEMMA UsedIs == ASSUME NEW b PROVE Used(b) = InUse(buf[b]) /\ Used(b)' = InUse(buf'[b])
BY DEF Used, InUse

LEMMA InUseFinite ==
    ASSUME NEW r, Array(r)
    PROVE  /\ IsFiniteSet(InUse(r)) /\ Cardinality(InUse(r)) \in Nat
           /\ Cardinality(InUse(r)) < r.cap => InUse(r) # 0..r.cap - 1
           /\ InUse(r) = {} => Cardinality(InUse(r)) = 0
<1>1. r.cap \in Nat /\ 0 \in Int /\ r.cap - 1 \in Int
  BY DEF Array
<1>2. IsFiniteSet(0..r.cap - 1) /\ Cardinality(0..r.cap - 1) = r.cap
  <2>1. /\ IsFiniteSet(0..r.cap - 1)
        /\ Cardinality(0..r.cap - 1) = IF 0 > r.cap - 1 THEN 0 ELSE (r.cap - 1) - 0 + 1
    BY <1>1, FS_Interval
  <2> QED
    BY <1>1, <2>1
<1>3. InUse(r) \subseteq 0..r.cap - 1
  BY DEF InUse
<1>4. IsFiniteSet(InUse(r))
  BY <1>2, <1>3, FS_Subset
<1> QED
  BY <1>1, <1>2, <1>4, FS_CardinalityType, FS_EmptySet

LEMMA UsedFinite ==
    ASSUME NEW b, Array(buf[b])
    PROVE  /\ IsFiniteSet(Used(b)) /\ Cardinality(Used(b)) \in Nat
           /\ Cardinality(Used(b)) = 0 => Used(b) = {}
BY UsedIs, InUseFinite, FS_EmptySet
-----------------------------------------------------------------------------
\* What each action does to the threads: all but one are left alone, unless
\* a method changes.

Kept(t) == \A u \in Threads \ {t} : th'[u] = th[u]

\* The states in which a thread may change a method.
Alterer(t) == th[t].pc \in {"idle", "resolving"}

LEMMA ThreadTyped ==
    ASSUME TypeOK, NEW t \in Threads
    PROVE  th[t] \in Locals
BY DEF TypeOK

LEMMA OneMoves ==
    ASSUME TypeOK, NEW t \in Threads, NEW r \in Locals, th' = [th EXCEPT ![t] = r]
    PROVE  th' \in [Threads -> Locals] /\ th'[t] = r /\ Kept(t)
BY DEF TypeOK, Kept

LEMMA CacheTyped ==
    ASSUME TypeOK, NEW c \in Classes
    PROVE  /\ cache[c] \in [buckets : Buffers \cup {EmptyCache}, mask : Nat, occupied : Nat]
           /\ cache[c].buckets \in Buffers \cup {EmptyCache}
           /\ cache[c].mask \in Nat /\ cache[c].occupied \in Nat
BY DEF TypeOK

LEMMA Distinct == EmptyCache \notin Buffers /\ Buffers \subseteq Nat
BY MethodCacheAssumption

LEMMA Names ==
    /\ "idle" \in PCs /\ "buckets" \in PCs /\ "scan" \in PCs /\ "imp" \in PCs /\ "read lock" \in PCs
    /\ "list" \in PCs /\ "resolve" \in PCs /\ "resolving" \in PCs /\ "return" \in PCs /\ "fill" \in PCs
    /\ "new mask" \in PCs /\ "insert" \in PCs /\ "key" \in PCs /\ "collect" \in PCs
    /\ "flush" \in PCs /\ "erase" \in PCs
BY DEF PCs

\* Assignments to the locals that keep their types.
LEMMA Assigned ==
    ASSUME NEW r \in Locals, NEW p \in PCs
    PROVE  /\ [r EXCEPT !.pc = p] \in Locals
           /\ \A b \in Buffers \cup {EmptyCache} : [r EXCEPT !.pc = p, !.buckets = b] \in Locals
           /\ \A c \in Classes, n \in Nat : [r EXCEPT !.pc = p, !.cur = c, !.mask = n] \in Locals
           /\ \A c \in Classes, n \in Nat :
                 [r EXCEPT !.pc = p, !.cur = c, !.locked = TRUE, !.mask = n] \in Locals
           /\ [r EXCEPT !.tried = TRUE, !.locked = FALSE, !.pc = p] \in Locals
<1>1. [r EXCEPT !.pc = p] \in Locals
  BY DEF Locals
<1>2. \A b \in Buffers \cup {EmptyCache} : [r EXCEPT !.pc = p, !.buckets = b] \in Locals
  BY DEF Locals
<1>3. \A c \in Classes, n \in Nat : [r EXCEPT !.pc = p, !.cur = c, !.mask = n] \in Locals
  BY DEF Locals
<1>4. \A c \in Classes, n \in Nat :
         [r EXCEPT !.pc = p, !.cur = c, !.locked = TRUE, !.mask = n] \in Locals
  BY DEF Locals
<1>5. [r EXCEPT !.tried = TRUE, !.locked = FALSE, !.pc = p] \in Locals
  BY DEF Locals
<1> QED
  BY <1>1, <1>2, <1>3, <1>4, <1>5, Zenon

LEMMA SendMoves ==
    ASSUME TypeOK, NEW t \in Threads, Send(t)
    PROVE  /\ \E m \in Sends : th'[t] = [Idle EXCEPT !.pc = "buckets", !.cls = m[1], !.sel = m[2],
                    !.cur = m[1], !.mask = cache[m[1]].mask,
                    !.valid = {Found(methods, m[1], m[2]), Found(before, m[1], m[2])}]
           /\ Kept(t) /\ th' \in [Threads -> Locals]
<1>1. PICK m \in Sends : th' = [th EXCEPT ![t] = [Idle EXCEPT !.pc = "buckets", !.cls = m[1], !.sel = m[2],
                    !.cur = m[1], !.mask = cache[m[1]].mask,
                    !.valid = {Found(methods, m[1], m[2]), Found(before, m[1], m[2])}]]
  BY Zenon DEF Send
<1> DEFINE V == {Found(methods, m[1], m[2]), Found(before, m[1], m[2])}
           r == [Idle EXCEPT !.pc = "buckets", !.cls = m[1], !.sel = m[2],
                    !.cur = m[1], !.mask = cache[m[1]].mask, !.valid = V]
<1>2. m[1] \in Classes /\ m[2] \in Sels
  BY MethodCacheAssumption
<1>3. V \in SUBSET Imps
  <2>1. methods \in [Classes \X Sels -> Nat] /\ before \in [Classes \X Sels -> Nat]
    BY DEF TypeOK
  <2>2. Found(methods, m[1], m[2]) \in Imps /\ Found(before, m[1], m[2]) \in Imps
    BY <1>2, <2>1, FoundTyped
  <2> QED
    BY <2>2
<1>4. cache[m[1]].mask \in Nat
  BY <1>2, CacheTyped
<1>5. r \in Locals
  <2> HIDE DEF V
  <2>1. NoImp \in Imps
    BY DEF NoImp, Imps
  <2> QED
    BY <1>2, <1>3, <1>4, <2>1, Zenon DEF Idle, Locals, PCs
<1>6. th' = [th EXCEPT ![t] = r]
  BY <1>1
<1>7. th' \in [Threads -> Locals] /\ th'[t] = r /\ Kept(t)
  <2> HIDE DEF r
  <2> QED
    BY <1>5, <1>6, OneMoves
<1> QED
  BY <1>7, Zenon

LEMMA LoadBucketsMoves ==
    ASSUME TypeOK, Locks, NEW t \in Threads, LoadBuckets(t)
    PROVE  /\ th'[t] = [th[t] EXCEPT !.pc = "scan", !.buckets = cache[th[t].cur].buckets]
           /\ Kept(t) /\ th' \in [Threads -> Locals]
<1>1. th[t].cur \in Classes
  BY Zenon DEF LoadBuckets, At, Locks, LockInv, Reader
<1> DEFINE r == [th[t] EXCEPT !.pc = "scan", !.buckets = cache[th[t].cur].buckets]
<1>2. th' = [th EXCEPT ![t] = r]
  BY DEF LoadBuckets
<1>3. r \in Locals
  BY <1>1, CacheTyped, ThreadTyped, Assigned, Names, Zenon
<1> QED
  BY <1>2, <1>3, OneMoves

LEMMA ReadLockMoves ==
    ASSUME TypeOK, Locks, NEW t \in Threads, ReadLock(t)
    PROVE  /\ th'[t] = [th[t] EXCEPT !.pc = "buckets", !.cur = th[t].cls, !.locked = TRUE,
                                     !.mask = cache[th[t].cls].mask]
           /\ Kept(t) /\ th' \in [Threads -> Locals]
<1>1. th[t].cls \in Classes
  BY Zenon DEF ReadLock, At, Locks, LockInv
<1> DEFINE r == [th[t] EXCEPT !.pc = "buckets", !.cur = th[t].cls, !.locked = TRUE,
                              !.mask = cache[th[t].cls].mask]
<1>2. th' = [th EXCEPT ![t] = r]
  BY Zenon DEF ReadLock
<1>3. r \in Locals
  BY <1>1, CacheTyped, ThreadTyped, Assigned, Names, Zenon
<1> QED
  BY <1>2, <1>3, OneMoves

LEMMA GotTyped ==
    ASSUME NEW r \in Locals, NEW i \in Imps, NEW p \in PCs
    PROVE  Got(p, r, i) \in Locals
BY DEF Got, Locals

LEMMA SearchListMoves ==
    ASSUME TypeOK, Locks, NEW t \in Threads, SearchList(t)
    PROVE  /\ th'[t] = LET c == th[t].cur
                           v == methods[<<c, th[t].sel>>]
                       IN IF v > 0 THEN Got("fill", th[t], <<c, v>>)
                          ELSE IF Super[c] = NoClass THEN [th[t] EXCEPT !.pc = "resolve"]
                          ELSE [th[t] EXCEPT !.pc = "buckets", !.cur = Super[c], !.mask = cache[Super[c]].mask]
           /\ Kept(t) /\ th' \in [Threads -> Locals]
<1> DEFINE c == th[t].cur
           v == methods[<<c, th[t].sel>>]
           r == IF v > 0 THEN Got("fill", th[t], <<c, v>>)
                ELSE IF Super[c] = NoClass THEN [th[t] EXCEPT !.pc = "resolve"]
                ELSE [th[t] EXCEPT !.pc = "buckets", !.cur = Super[c], !.mask = cache[Super[c]].mask]
<1>1. c \in Classes /\ th[t].sel \in Sels
  BY Zenon DEF SearchList, At, Locks, LockInv
<1>2. v \in Nat
  BY <1>1 DEF TypeOK
<1>3. th' = [th EXCEPT ![t] = r]
  BY DEF SearchList
<1>4. r \in Locals
  <2>1. CASE v > 0
    <3>1. <<c, v>> \in Imps
      BY <1>1, <1>2 DEF Imps
    <3> HIDE DEF c, v
    <3> QED
      BY <2>1, <3>1, GotTyped, ThreadTyped, Zenon DEF PCs
  <2>2. CASE ~(v > 0) /\ Super[c] = NoClass
    BY <2>2, ThreadTyped, Assigned, Names, Zenon
  <2>3. CASE ~(v > 0) /\ Super[c] # NoClass
    <3>1. Super[c] \in Classes
      BY <1>1, <2>3, SuperTyped
    <3>2. cache[Super[c]].mask \in Nat
      BY <3>1, CacheTyped
    <3> HIDE DEF c, v
    <3> QED
      BY <2>3, <3>1, <3>2, ThreadTyped, Assigned, Names, Zenon
  <2> QED
    BY <2>1, <2>2, <2>3
<1> HIDE DEF r
<1>5. th'[t] = r /\ Kept(t) /\ th' \in [Threads -> Locals]
  BY <1>3, <1>4, OneMoves
<1> QED
  BY <1>5 DEF r

LEMMA ResolveMoves ==
    ASSUME TypeOK, NEW t \in Threads, Resolve(t)
    PROVE  /\ IF th[t].tried
              THEN th'[t] = Got("fill", th[t], Forward) /\ reading' = reading
              ELSE /\ \E p \in {"resolving", "read lock"} :
                         th'[t] = [th[t] EXCEPT !.tried = TRUE, !.locked = FALSE, !.pc = p]
                   /\ reading' = reading \ {t}
           /\ Kept(t) /\ th' \in [Threads -> Locals]
<1>1. CASE th[t].tried
  <2>1. th' = [th EXCEPT ![t] = Got("fill", th[t], Forward)] /\ reading' = reading
    BY <1>1 DEF Resolve
  <2>2. Got("fill", th[t], Forward) \in Locals
    BY GotTyped, ThreadTyped, Zenon DEF PCs, Forward, Imps
  <2> QED
    BY <1>1, <2>1, <2>2, OneMoves
<1>2. CASE ~th[t].tried
  <2>1. PICK p \in {"resolving", "read lock"} :
           th' = [th EXCEPT ![t].tried = TRUE, ![t].locked = FALSE, ![t].pc = p]
    BY <1>2, Zenon DEF Resolve
  <2> DEFINE r == [th[t] EXCEPT !.tried = TRUE, !.locked = FALSE, !.pc = p]
  <2>2. r \in Locals
    BY ThreadTyped, Assigned, Names, Zenon
  <2>3. th' = [th EXCEPT ![t] = r]
    BY <2>1, Zenon
  <2>4. th'[t] = r /\ Kept(t) /\ th' \in [Threads -> Locals]
    BY <2>2, <2>3, OneMoves, Zenon
  <2>5. reading' = reading \ {t}
    BY <1>2, Zenon DEF Resolve
  <2> QED
    BY <1>2, <2>4, <2>5, Zenon
<1> QED
  BY <1>1, <1>2

LEMMA IdleTyped == Idle \in Locals
BY DEF Idle, Locals, PCs, NoImp, Imps

LEMMA ReturnMoves ==
    ASSUME TypeOK, NEW t \in Threads, Return(t)
    PROVE  th'[t] = Idle /\ Kept(t) /\ th' \in [Threads -> Locals]
BY IdleTyped, OneMoves DEF Return

LEMMA MessageTyped ==
    ASSUME IInv, NEW t \in Threads, th[t].cls # NoClass
    PROVE  /\ th[t].cls \in Classes /\ th[t].sel \in Sels /\ th[t].sel # NoSel
           /\ Hash[th[t].sel] \in Nat
<1>1. th[t].cls \in Classes /\ th[t].sel \in Sels
  BY Zenon DEF IInv, Locks, LockInv
<1> QED
  BY <1>1, MethodCacheAssumption

LEMMA ArrayTyped ==
    ASSUME IInv, NEW b \in Buffers, buf[b] # Freed
    PROVE  /\ Array(buf[b]) /\ buf[b].cap \in Nat
           /\ Used(b) # 0..buf[b].cap - 1
BY Zenon DEF IInv, TypeOK, Counts, Array

LEMMA BucketTyped ==
    ASSUME IInv, NEW b \in Buffers, buf[b] # Freed, NEW i \in 0..buf[b].cap - 1
    PROVE  buf[b].slot[i] \in Bucket /\ buf[b].slot[i].key \in Sels \cup {NoSel} /\ buf[b].slot[i].imp \in Imps
<1>1. buf[b].slot[i] \in Bucket
  BY ArrayTyped, Zenon DEF Array
<1> QED
  BY <1>1 DEF Bucket

\* Where the scan of a reader ends.
LEMMA ReaderScans ==
    ASSUME IInv, NEW t \in Threads, th[t].pc = "scan", th[t].buckets # EmptyCache
    PROVE  LET b == th[t].buckets
               i == Hash[th[t].sel] % (th[t].mask + 1)
           IN /\ b \in Buffers /\ buf[b] # Freed
              /\ i < buf[b].cap
              /\ Scan(b, th[t].sel, i) \in 0..buf[b].cap - 1
              /\ buf[b].slot[Scan(b, th[t].sel, i)].key \in {th[t].sel, NoSel}
<1> DEFINE b == th[t].buckets
           m == th[t].mask
           s == th[t].sel
           i == Hash[s] % (m + 1)
<1>1. b \in Buffers /\ m \in Nat
  BY ThreadTyped DEF IInv, Locals
<1>2. buf[b] # Freed /\ m + 1 <= buf[b].cap
  BY DEF IInv, Arrays, ReadInv
<1>3. th[t].cls # NoClass
  BY MethodCacheAssumption, Zenon DEF IInv, Locks, LockInv, Reader
<1>4. i \in 0..m
  <2>1. m + 1 \in Nat /\ m + 1 > 0 /\ (m + 1) - 1 = m
    BY <1>1
  <2>2. Hash[s] \in Nat
    BY <1>3, MessageTyped
  <2>3. Hash[s] % (m + 1) \in 0..(m + 1) - 1
    BY <2>1, <2>2, ModIn
  <2> QED
    BY <2>1, <2>3
<1>5. Array(buf[b]) /\ buf[b].cap \in Nat /\ Used(b) # 0..buf[b].cap - 1
  BY <1>1, <1>2, ArrayTyped
<1>6. i \in 0..buf[b].cap - 1
  BY <1>1, <1>2, <1>4, <1>5
<1>7. Scan(b, s, i) \in 0..buf[b].cap - 1 /\ buf[b].slot[Scan(b, s, i)].key \in {s, NoSel}
  <2> HIDE DEF b, s, i
  <2> QED
    BY <1>5, <1>6, ScanEnds
<1>8. i < buf[b].cap
  <2> HIDE DEF i, b
  <2> QED
    BY <1>5, <1>6
<1> QED
  <2> HIDE DEF i
  <2> QED
    BY <1>1, <1>2, <1>7, <1>8, Zenon DEF i

LEMMA AssignedScan ==
    ASSUME NEW r \in Locals, NEW p \in PCs
    PROVE  /\ \A n \in Nat : [r EXCEPT !.pc = p, !.mask = 0, !.index = n] \in Locals
           /\ [r EXCEPT !.pc = p, !.mask = 0, !.buckets = EmptyCache] \in Locals
           /\ [r EXCEPT !.pc = p, !.buckets = EmptyCache, !.index = 0] \in Locals
BY Zenon DEF Locals

LEMMA ScanKeysMoves ==
    ASSUME IInv, NEW t \in Threads, ScanKeys(t)
    PROVE  /\ \/ /\ th[t].buckets # EmptyCache
                 /\ \E j \in 0..buf[th[t].buckets].cap - 1 :
                       /\ buf[th[t].buckets].slot[j].key = th[t].sel
                       /\ th'[t] = [th[t] EXCEPT !.pc = "imp", !.mask = 0, !.index = j]
              \/ th'[t] = [th[t] EXCEPT !.pc = IF th[t].locked THEN "list" ELSE "read lock",
                                        !.mask = 0, !.buckets = EmptyCache]
           /\ Kept(t) /\ th' \in [Threads -> Locals]
<1> DEFINE b == th[t].buckets
           s == th[t].sel
           i == Hash[s] % (th[t].mask + 1)
<1>0. TypeOK /\ th[t] \in Locals /\ th[t].pc = "scan" /\ s # NoSel
  <2>1. th[t].cls # NoClass
    BY MethodCacheAssumption, Zenon DEF IInv, Locks, LockInv, Reader, ScanKeys, At
  <2> QED
    BY <2>1, ThreadTyped, MessageTyped, Zenon DEF IInv, ScanKeys, At
<1>1. CASE KeyAt(b, s, i) = s
  <2> DEFINE j == Scan(b, s, i)
             r == [th[t] EXCEPT !.pc = "imp", !.mask = 0, !.index = j]
  <2>1. b # EmptyCache
    BY <1>0, <1>1 DEF KeyAt
  <2>2. j \in 0..buf[b].cap - 1 /\ b \in Buffers /\ buf[b] # Freed
    BY <1>0, <2>1, ReaderScans
  <2>3. buf[b].slot[j].key = s
    BY <1>1, <2>1 DEF KeyAt
  <2>4. j \in Nat
    <3>1. buf[b].cap \in Nat
      BY <2>2, ArrayTyped
    <3> HIDE DEF j
    <3> QED
      BY <2>2, <3>1
  <2>5. th' = [th EXCEPT ![t] = r]
    BY <1>1, Zenon DEF ScanKeys
  <2>6. r \in Locals
    BY <1>0, <2>4, AssignedScan, Names, Zenon
  <2>7. th'[t] = r /\ Kept(t) /\ th' \in [Threads -> Locals]
    <3> HIDE DEF r
    <3> QED
      BY <1>0, <2>5, <2>6, OneMoves
  <2> HIDE DEF j
  <2> QED
    BY <2>1, <2>2, <2>3, <2>7, Zenon
<1>2. CASE KeyAt(b, s, i) # s
  <2> DEFINE r == [th[t] EXCEPT !.pc = IF th[t].locked THEN "list" ELSE "read lock",
                                !.mask = 0, !.buckets = EmptyCache]
  <2>1. th' = [th EXCEPT ![t] = r]
    BY <1>2, Zenon DEF ScanKeys
  <2>2. r \in Locals
    BY <1>0, AssignedScan, Names, Zenon
  <2>3. th'[t] = r /\ Kept(t) /\ th' \in [Threads -> Locals]
    <3> HIDE DEF r
    <3> QED
      BY <1>0, <2>1, <2>2, OneMoves
  <2> QED
    BY <2>3
<1> QED
  BY <1>1, <1>2, Zenon

\* What a reader that found its selector holds.
LEMMA ReaderHolds ==
    ASSUME IInv, NEW t \in Threads, th[t].pc = "imp"
    PROVE  LET b == th[t].buckets
               e == buf[b].slot[th[t].index]
           IN /\ b \in Buffers /\ buf[b] # Freed
              /\ th[t].index \in 0..buf[b].cap - 1
              /\ e.key = th[t].sel /\ e.imp \in Imps
              /\ IF th[t].locked THEN e.imp = Found(methods, th[t].cls, th[t].sel)
                                 ELSE e.imp \in th[t].valid
<1>1. th[t].buckets # EmptyCache
  BY DEF IInv, Arrays, ReadInv
<1>2. th[t].buckets \in Buffers
  BY <1>1, ThreadTyped DEF IInv, Locals
<1>3. buf[th[t].buckets] # Freed
  BY <1>1 DEF IInv, Arrays, ReadInv
<1>4. SearchInv(t)
  BY DEF IInv, Entries
<1>5. /\ th[t].index \in 0..buf[th[t].buckets].cap - 1
      /\ buf[th[t].buckets].slot[th[t].index].key = th[t].sel
  BY <1>1, <1>4 DEF SearchInv, ScanInv
<1>6. IF th[t].locked
      THEN buf[th[t].buckets].slot[th[t].index].imp = Found(methods, th[t].cls, th[t].sel)
      ELSE buf[th[t].buckets].slot[th[t].index].imp \in th[t].valid
  BY <1>1, <1>4, <1>5 DEF SearchInv, ScanInv
<1>7. buf[th[t].buckets].slot[th[t].index].imp \in Imps
  BY <1>2, <1>3, <1>5, BucketTyped
<1> QED
  BY <1>2, <1>3, <1>5, <1>6, <1>7

LEMMA LoadImpMoves ==
    ASSUME IInv, NEW t \in Threads, LoadImp(t)
    PROVE  /\ th'[t] = LET i == buf[th[t].buckets].slot[th[t].index].imp
                       IN IF th[t].cur = th[t].cls THEN Got("return", th[t], i)
                          ELSE IF i = Forward
                          THEN [th[t] EXCEPT !.pc = "resolve", !.buckets = EmptyCache, !.index = 0]
                          ELSE Got("fill", th[t], i)
           /\ Kept(t) /\ th' \in [Threads -> Locals]
<1> DEFINE i == buf[th[t].buckets].slot[th[t].index].imp
           r == IF th[t].cur = th[t].cls THEN Got("return", th[t], i)
                ELSE IF i = Forward
                THEN [th[t] EXCEPT !.pc = "resolve", !.buckets = EmptyCache, !.index = 0]
                ELSE Got("fill", th[t], i)
<1>1. th' = [th EXCEPT ![t] = r]
  BY DEF LoadImp
<1>2. i \in Imps
  BY ReaderHolds DEF LoadImp, At
<1>3. th[t] \in Locals /\ TypeOK
  BY ThreadTyped DEF IInv
<1>4. r \in Locals
  <2> HIDE DEF i
  <2> QED
    BY <1>2, <1>3, GotTyped, AssignedScan, Names, Zenon
<1>5. th'[t] = r /\ Kept(t) /\ th' \in [Threads -> Locals]
  <2> HIDE DEF r
  <2> QED
    BY <1>1, <1>3, <1>4, OneMoves
<1> QED
  BY <1>5

LEMMA MaskOfFour == ASSUME NEW m \in Nat, m + 1 >= 4 PROVE m >= 3
OBVIOUS

\* Without an updater every cache has the capacity of its mask.
LEMMA SettledCache ==
    ASSUME IInv, updating = NoThread \/ (\E t \in Threads : updating = t /\ th[t].pc # "new mask"),
           NEW c \in Classes, cache[c].buckets # EmptyCache
    PROVE  /\ cache[c].buckets \in Buffers /\ buf[cache[c].buckets] # Freed
           /\ buf[cache[c].buckets].cap = cache[c].mask + 1 /\ cache[c].mask >= 3
           /\ cache[c].mask \in Nat /\ cache[c].occupied \in Nat
<1>1. TypeOK /\ CacheInv(c)
  BY Zenon DEF IInv, Arrays
<1>2. ~Fills(c, {"new mask"})
  <2> SUFFICES ASSUME NEW u \in Threads, th[u].pc = "new mask" PROVE FALSE
    BY Zenon DEF Fills
  <2>1. updating = u
    BY Zenon DEF IInv, Locks, LockInv, Updater
  <2> QED
    BY <2>1, MethodCacheAssumption, Zenon
<1>3. cache[c].buckets \in Buffers /\ cache[c].mask \in Nat /\ cache[c].occupied \in Nat
  BY <1>1, CacheTyped, Zenon
<1>4. /\ buf[cache[c].buckets] # Freed /\ buf[cache[c].buckets].cap = cache[c].mask + 1
      /\ buf[cache[c].buckets].cap >= 4
  BY <1>1, <1>2, Zenon DEF CacheInv
<1>5. cache[c].mask + 1 >= 4
  BY <1>4, Zenon
<1>6. cache[c].mask >= 3
  BY <1>3, <1>5, MaskOfFour, Zenon
<1> QED
  BY <1>3, <1>4, <1>6, Zenon

LEMMA AssignedFill ==
    ASSUME NEW r \in Locals, NEW p \in PCs
    PROVE  /\ \A b \in Buffers \cup {EmptyCache} : [r EXCEPT !.pc = p, !.old = b] \in Locals
           /\ \A n \in Nat : [r EXCEPT !.pc = p, !.index = n] \in Locals
           /\ \A C \in SUBSET Classes : [r EXCEPT !.todo = C] \in Locals
           /\ \A C \in SUBSET Classes : [r EXCEPT !.todo = C, !.old = EmptyCache, !.pc = p] \in Locals
           /\ \A C \in SUBSET Classes, T \in SUBSET Threads, q \in PCs :
                 [r EXCEPT !.todo = C, !.old = EmptyCache, !.pc = p, !.check = T, !.back = q] \in Locals
           /\ \A T \in SUBSET Threads : [r EXCEPT !.check = T] \in Locals
           /\ [r EXCEPT !.pc = p, !.check = {}, !.back = "idle"] \in Locals
           /\ [r EXCEPT !.pc = p, !.back = "idle"] \in Locals
<1>1. \A b \in Buffers \cup {EmptyCache} : [r EXCEPT !.pc = p, !.old = b] \in Locals
  BY DEF Locals
<1>2. \A n \in Nat : [r EXCEPT !.pc = p, !.index = n] \in Locals
  BY DEF Locals
<1>3. \A C \in SUBSET Classes : [r EXCEPT !.todo = C] \in Locals
  BY DEF Locals
<1>4. \A C \in SUBSET Classes : [r EXCEPT !.todo = C, !.old = EmptyCache, !.pc = p] \in Locals
  BY DEF Locals
<1>5. \A C \in SUBSET Classes, T \in SUBSET Threads, q \in PCs :
         [r EXCEPT !.todo = C, !.old = EmptyCache, !.pc = p, !.check = T, !.back = q] \in Locals
  BY DEF Locals
<1>6. \A T \in SUBSET Threads : [r EXCEPT !.check = T] \in Locals
  BY DEF Locals
<1>7. [r EXCEPT !.pc = p, !.check = {}, !.back = "idle"] \in Locals
  <2>1. \A q \in PCs : [r EXCEPT !.pc = p, !.check = {}, !.back = q] \in Locals
    BY DEF Locals
  <2> QED
    BY <2>1, Names, Zenon
<1>8. [r EXCEPT !.pc = p, !.back = "idle"] \in Locals
  <2>1. \A q \in PCs : [r EXCEPT !.pc = p, !.back = q] \in Locals
    BY DEF Locals
  <2> QED
    BY <2>1, Names, Zenon
<1> QED
  BY <1>1, <1>2, <1>3, <1>4, <1>5, <1>6, <1>7, <1>8, Zenon

LEMMA Growth ==
    ASSUME NEW n \in Nat, NEW o \in Nat, n >= 4, o + 1 <= (n \div 4) * Quarters
    PROVE  o + 1 < n
<1>1. Quarters = 1 \/ Quarters = 2 \/ Quarters = 3
  BY MethodCacheAssumption
<1>2. n \div 4 \in Nat /\ 4 * (n \div 4) <= n
  OBVIOUS
<1> QED
  BY <1>1, <1>2

LEMMA FillLockMoves ==
    ASSUME IInv, NEW t \in Threads, FillLock(t)
    PROVE  LET c == th[t].cls IN
           /\ c \in Classes
           /\ \/ /\ th'[t] = [th[t] EXCEPT !.pc = "return"]
                 /\ UNCHANGED <<cache, buf, updating>>
              \/ /\ th'[t] = [th[t] EXCEPT !.pc = "insert"]
                 /\ updating' = t /\ UNCHANGED <<cache, buf>>
                 /\ cache[c].buckets # EmptyCache
                 /\ cache[c].occupied + 1 < buf[cache[c].buckets].cap
              \/ /\ th'[t] = [th[t] EXCEPT !.pc = "new mask", !.old = cache[c].buckets]
                 /\ updating' = t
                 /\ \E b \in Buffers, n \in Nat :
                       /\ buf[b] = Freed /\ n >= 4 /\ n >= cache[c].mask + 1
                       /\ buf' = [buf EXCEPT ![b] = NewBuckets(n)]
                       /\ cache' = [cache EXCEPT ![c].buckets = b]
           /\ Kept(t) /\ th' \in [Threads -> Locals]
<1> DEFINE c == th[t].cls
           n == Capacity(c)
           grown == IF IsConstantEmptyCache(c) THEN (IF n = 0 THEN INIT_CACHE_SIZE ELSE n) ELSE 2 * n
           b == Min(Available)
<1>1. c \in Classes /\ TypeOK /\ th[t] \in Locals /\ updating = NoThread
  BY ThreadTyped, Zenon DEF IInv, Locks, LockInv, FillLock, At
<1>2. /\ cache[c].buckets \in Buffers \cup {EmptyCache}
      /\ cache[c].mask \in Nat /\ cache[c].occupied \in Nat
  BY <1>1, CacheTyped
<1>3. CacheInv(c)
  BY <1>1 DEF IInv, Arrays
<1>4. ~IsConstantEmptyCache(c) =>
        /\ cache[c].buckets # EmptyCache /\ n = cache[c].mask + 1 /\ n >= 4
        /\ buf[cache[c].buckets].cap = n
  <2> SUFFICES ASSUME ~IsConstantEmptyCache(c)
               PROVE  /\ cache[c].buckets # EmptyCache /\ n = cache[c].mask + 1 /\ n >= 4
                      /\ buf[cache[c].buckets].cap = n
    OBVIOUS
  <2>1. cache[c].buckets # EmptyCache
    BY <1>3, Zenon DEF IsConstantEmptyCache, CacheInv
  <2>2. buf[cache[c].buckets].cap = cache[c].mask + 1 /\ cache[c].mask >= 3
    BY <1>1, <2>1, SettledCache
  <2>3. n = cache[c].mask + 1
    BY <1>2, <2>2 DEF Capacity
  <2> QED
    BY <1>2, <2>1, <2>2, <2>3
<1>5. CASE Cached(c, th[t].sel)
  <2>1. th' = [th EXCEPT ![t] = [th[t] EXCEPT !.pc = "return"]] /\ UNCHANGED <<cache, buf, updating>>
    BY <1>5 DEF FillLock, Goto
  <2>2. [th[t] EXCEPT !.pc = "return"] \in Locals
    BY <1>1, Assigned, Names, Zenon
  <2> QED
    BY <1>1, <2>1, <2>2, OneMoves
<1>6. CASE ~Cached(c, th[t].sel) /\ cache[c].occupied + 1 <= (n \div 4) * Quarters /\ ~IsConstantEmptyCache(c)
  <2>1. /\ th' = [th EXCEPT ![t] = [th[t] EXCEPT !.pc = "insert"]]
        /\ updating' = t /\ UNCHANGED <<cache, buf>>
    BY <1>6 DEF FillLock, Goto
  <2>2. [th[t] EXCEPT !.pc = "insert"] \in Locals
    BY <1>1, Assigned, Names, Zenon
  <2>3. cache[c].occupied + 1 < buf[cache[c].buckets].cap
    <3> HIDE DEF n
    <3>1. n \in Nat
      BY <1>2, <1>4, <1>6
    <3> QED
      BY <1>2, <1>4, <1>6, <3>1, Growth
  <2> QED
    BY <1>1, <1>4, <1>6, <2>1, <2>2, <2>3, OneMoves
<1>7. CASE ~Cached(c, th[t].sel) /\ ~(cache[c].occupied + 1 <= (n \div 4) * Quarters /\ ~IsConstantEmptyCache(c))
  <2>1. /\ updating' = t /\ Available # {}
        /\ buf' = [buf EXCEPT ![b] = NewBuckets(grown)]
        /\ cache' = [cache EXCEPT ![c].buckets = b]
        /\ th' = [th EXCEPT ![t] = [th[t] EXCEPT !.pc = "new mask", !.old = cache[c].buckets]]
    BY <1>7, Zenon DEF FillLock
  <2>2. b \in Available
    <3>1. Available \in SUBSET Nat
      BY Distinct DEF Available
    <3> QED
      BY <2>1, <3>1, MinIn
  <2>3. b \in Buffers /\ buf[b] = Freed
    BY <2>2 DEF Available
  <2>4. grown \in Nat /\ grown >= 4 /\ grown >= cache[c].mask + 1
    <3>1. CASE ~IsConstantEmptyCache(c)
      <4> HIDE DEF n
      <4> QED
        BY <1>2, <1>4, <3>1
    <3>2. CASE IsConstantEmptyCache(c) /\ cache[c].mask = 0
      <4>1. n = 0
        BY <3>2 DEF Capacity
      <4> HIDE DEF n
      <4> QED
        BY <1>2, <3>2, <4>1, MethodCacheAssumption
    <3>3. CASE IsConstantEmptyCache(c) /\ cache[c].mask # 0
      <4>1. n = cache[c].mask + 1 /\ cache[c].mask >= 3
        BY <3>3, <1>3, Zenon DEF Capacity, CacheInv
      <4> HIDE DEF n
      <4> QED
        BY <1>2, <3>3, <4>1
    <3> QED
      BY <3>1, <3>2, <3>3
  <2>5. [th[t] EXCEPT !.pc = "new mask", !.old = cache[c].buckets] \in Locals
    BY <1>1, <1>2, AssignedFill, Names, Zenon
  <2>6. /\ th'[t] = [th[t] EXCEPT !.pc = "new mask", !.old = cache[c].buckets]
        /\ Kept(t) /\ th' \in [Threads -> Locals]
    BY <1>1, <2>1, <2>5, OneMoves
  <2> HIDE DEF grown, b
  <2> QED
    BY <1>1, <2>1, <2>3, <2>4, <2>6
<1> HIDE DEF n
<1> QED
  BY <1>5, <1>6, <1>7

LEMMA FillerHolds ==
    ASSUME IInv, NEW t \in Threads, Filling(th[t])
    PROVE  /\ th[t].cls \in Classes /\ th[t].sel \in Sels /\ th[t].sel # NoSel
           /\ Hash[th[t].sel] \in Nat
           /\ th[t].locked /\ updating = t
           /\ cache[th[t].cls].buckets \in Buffers /\ cache[th[t].cls].buckets # EmptyCache
           /\ buf[cache[th[t].cls].buckets] # Freed
           /\ cache[th[t].cls].mask \in Nat /\ cache[th[t].cls].occupied \in Nat
<1>1. th[t].cls \in Classes /\ th[t].sel \in Sels /\ th[t].locked /\ updating = t
  BY Zenon DEF IInv, Locks, LockInv, Filling, Updater
<1>2. cache[th[t].cls].buckets # EmptyCache
  BY Zenon DEF IInv, Arrays, FillInv
<1>3. TypeOK
  BY DEF IInv
<1>4. /\ cache[th[t].cls].buckets \in Buffers
      /\ cache[th[t].cls].mask \in Nat /\ cache[th[t].cls].occupied \in Nat
  BY <1>1, <1>2, <1>3, CacheTyped
<1>5. CacheInv(th[t].cls)
  BY <1>1 DEF IInv, Arrays
<1>6. buf[cache[th[t].cls].buckets] # Freed
  BY <1>2, <1>5, Zenon DEF CacheInv
<1> QED
  BY <1>1, <1>2, <1>4, <1>6, MethodCacheAssumption

\* What becomes of a thread that gives arrays to the collector.
LEMMA CollectMoves ==
    ASSUME TypeOK, NEW t \in Threads, NEW old, NEW todo \in SUBSET Classes, NEW p \in PCs,
           Collect(t, old, todo, p)
    PROVE  /\ garbage' = garbage \cup old
           /\ \/ th'[t] = [th[t] EXCEPT !.todo = todo, !.old = EmptyCache, !.pc = p]
              \/ th'[t] = [th[t] EXCEPT !.todo = todo, !.old = EmptyCache, !.pc = "collect",
                                        !.check = Threads \ {t}, !.back = p]
           /\ Kept(t) /\ th' \in [Threads -> Locals]
<1> DEFINE q == [th[t] EXCEPT !.todo = todo, !.old = EmptyCache, !.pc = p]
           r == [th[t] EXCEPT !.todo = todo, !.old = EmptyCache, !.pc = "collect",
                              !.check = Threads \ {t}, !.back = p]
<1>1. q \in Locals
  BY ThreadTyped, AssignedFill, Zenon
<1>2. r \in Locals
  <2>1. Threads \ {t} \in SUBSET Threads
    OBVIOUS
  <2> QED
    BY <2>1, ThreadTyped, AssignedFill, Names, Zenon
<1>3. th' = [th EXCEPT ![t] = r] \/ th' = [th EXCEPT ![t] = q]
  BY DEF Collect
<1>4. garbage' = garbage \cup old
  BY DEF Collect
<1>5. CASE th' = [th EXCEPT ![t] = r]
  <2> HIDE DEF r
  <2>1. th'[t] = r /\ Kept(t) /\ th' \in [Threads -> Locals]
    BY <1>2, <1>5, OneMoves
  <2> QED
    BY <2>1, <1>4 DEF r
<1>6. CASE th' = [th EXCEPT ![t] = q]
  <2> HIDE DEF q
  <2>1. th'[t] = q /\ Kept(t) /\ th' \in [Threads -> Locals]
    BY <1>1, <1>6, OneMoves
  <2> QED
    BY <2>1, <1>4 DEF q
<1> QED
  BY <1>3, <1>5, <1>6

LEMMA StoreMaskMoves ==
    ASSUME IInv, NEW t \in Threads, StoreMask(t)
    PROVE  /\ garbage' = garbage \cup ({th[t].old} \ {EmptyCache})
           /\ \/ th'[t] = [th[t] EXCEPT !.todo = {}, !.old = EmptyCache, !.pc = "insert"]
              \/ th'[t] = [th[t] EXCEPT !.todo = {}, !.old = EmptyCache, !.pc = "collect",
                                        !.check = Threads \ {t}, !.back = "insert"]
           /\ Kept(t) /\ th' \in [Threads -> Locals]
<1>1. Collect(t, {th[t].old} \ {EmptyCache}, {}, "insert")
  BY Zenon DEF StoreMask
<1>2. {} \in SUBSET Classes /\ TypeOK
  BY DEF IInv
<1> QED
  BY <1>1, <1>2, CollectMoves, Names, Zenon

LEMMA StoreImpMoves ==
    ASSUME IInv, NEW t \in Threads, StoreImp(t)
    PROVE  LET c == th[t].cls
               b == cache[c].buckets
           IN \E i \in 0..buf[b].cap - 1 :
                /\ buf[b].slot[i].key \in {th[t].sel, NoSel}
                /\ buf' = [buf EXCEPT ![b].slot[i].imp = th[t].imp]
                /\ cache' = [cache EXCEPT ![c].occupied = @ + 1]
                /\ th'[t] = [th[t] EXCEPT !.pc = "key", !.index = i]
                /\ Kept(t) /\ th' \in [Threads -> Locals]
<1> DEFINE c == th[t].cls
           b == cache[c].buckets
           s == th[t].sel
           h == Hash[s] % (cache[c].mask + 1)
           i == Scan(b, s, h)
           r == [th[t] EXCEPT !.pc = "key", !.index = i]
<1>1. th[t].pc = "insert" /\ Filling(th[t]) /\ TypeOK /\ th[t] \in Locals
  BY ThreadTyped, Zenon DEF StoreImp, At, Filling, IInv
<1>2. /\ c \in Classes /\ Hash[s] \in Nat /\ b \in Buffers /\ buf[b] # Freed
      /\ cache[c].mask \in Nat
  BY <1>1, FillerHolds
<1>3. buf[b].cap = cache[c].mask + 1
  <2>1. updating = t /\ b # EmptyCache
    BY <1>1, FillerHolds
  <2> QED
    BY <1>1, <1>2, <2>1, SettledCache, Zenon
<1>4. Array(buf[b]) /\ Used(b) # 0..buf[b].cap - 1
  BY <1>2, ArrayTyped
<1>5. h \in 0..buf[b].cap - 1
  <2>1. cache[c].mask + 1 \in Nat /\ cache[c].mask + 1 > 0
    BY <1>2
  <2>2. h \in 0..(cache[c].mask + 1) - 1
    BY <1>2, <2>1, ModIn
  <2> HIDE DEF h
  <2> QED
    BY <1>3, <2>2
<1>6. i \in 0..buf[b].cap - 1 /\ buf[b].slot[i].key \in {s, NoSel}
  <2> HIDE DEF b, s, h
  <2> QED
    BY <1>4, <1>5, ScanEnds
<1>7. i \in Nat
  <2> HIDE DEF i
  <2> QED
    BY <1>2, <1>3, <1>6
<1>8. /\ buf' = [buf EXCEPT ![b].slot[i].imp = th[t].imp]
      /\ cache' = [cache EXCEPT ![c].occupied = @ + 1]
      /\ th' = [th EXCEPT ![t] = r]
  BY Zenon DEF StoreImp
<1>9. r \in Locals
  <2> HIDE DEF i
  <2> QED
    BY <1>1, <1>7, AssignedFill, Names, Zenon
<1>10. th'[t] = r /\ Kept(t) /\ th' \in [Threads -> Locals]
  <2> HIDE DEF r
  <2> QED
    BY <1>1, <1>8, <1>9, OneMoves, Zenon
<1> HIDE DEF i
<1> QED
  BY <1>6, <1>8, <1>10, Zenon

LEMMA StoreKeyMoves ==
    ASSUME IInv, NEW t \in Threads, StoreKey(t)
    PROVE  /\ th'[t] = [th[t] EXCEPT !.pc = "return", !.index = 0]
           /\ Kept(t) /\ th' \in [Threads -> Locals]
<1>1. TypeOK /\ th[t] \in Locals
  BY ThreadTyped DEF IInv
<1>2. [th[t] EXCEPT !.pc = "return", !.index = 0] \in Locals
  BY <1>1, AssignedFill, Names, Zenon
<1>3. th' = [th EXCEPT ![t] = [th[t] EXCEPT !.pc = "return", !.index = 0]]
  BY Zenon DEF StoreKey
<1> QED
  BY <1>1, <1>2, <1>3, OneMoves, Zenon

LEMMA CheckThreadMoves ==
    ASSUME IInv, NEW t \in Threads, CheckThread(t)
    PROVE  /\ \E u \in th[t].check :
                \/ /\ Reader(th[u])
                   /\ th'[t] = [th[t] EXCEPT !.pc = th[t].back, !.check = {}, !.back = "idle"]
                \/ /\ ~Reader(th[u])
                   /\ th'[t] = [th[t] EXCEPT !.check = @ \ {u}]
           /\ Kept(t) /\ th' \in [Threads -> Locals]
<1>1. TypeOK /\ th[t] \in Locals /\ th[t].back \in PCs /\ th[t].check \in SUBSET Threads
  BY ThreadTyped DEF IInv, Locals
<1>2. PICK u \in th[t].check :
        th' = IF InCritical(u) THEN [th EXCEPT ![t].pc = th[t].back, ![t].check = {}, ![t].back = "idle"]
              ELSE [th EXCEPT ![t].check = @ \ {u}]
  BY DEF CheckThread
<1>3. CASE InCritical(u)
  <2>1. th' = [th EXCEPT ![t] = [th[t] EXCEPT !.pc = th[t].back, !.check = {}, !.back = "idle"]]
    BY <1>2, <1>3
  <2>2. [th[t] EXCEPT !.pc = th[t].back, !.check = {}, !.back = "idle"] \in Locals
    BY <1>1, AssignedFill, Zenon
  <2> QED
    BY <1>1, <1>3, <2>1, <2>2, OneMoves DEF InCritical, Reader
<1>4. CASE ~InCritical(u)
  <2>1. th' = [th EXCEPT ![t] = [th[t] EXCEPT !.check = @ \ {u}]]
    BY <1>2, <1>4
  <2>2. [th[t] EXCEPT !.check = @ \ {u}] \in Locals
    <3>1. th[t].check \ {u} \in SUBSET Threads
      BY <1>1
    <3> QED
      BY <1>1, <3>1, AssignedFill, Zenon
  <2> QED
    BY <1>1, <1>4, <2>1, <2>2, OneMoves, Zenon DEF InCritical, Reader
<1> QED
  BY <1>3, <1>4

LEMMA FreeGarbageMoves ==
    ASSUME IInv, NEW t \in Threads, FreeGarbage(t)
    PROVE  /\ th'[t] = [th[t] EXCEPT !.pc = th[t].back, !.back = "idle"]
           /\ Kept(t) /\ th' \in [Threads -> Locals]
<1>1. TypeOK /\ th[t] \in Locals /\ th[t].back \in PCs
  BY ThreadTyped DEF IInv, Locals
<1>2. [th[t] EXCEPT !.pc = th[t].back, !.back = "idle"] \in Locals
  BY <1>1, AssignedFill, Zenon
<1>3. th' = [th EXCEPT ![t] = [th[t] EXCEPT !.pc = th[t].back, !.back = "idle"]]
  BY DEF FreeGarbage
<1> QED
  BY <1>1, <1>2, <1>3, OneMoves, Zenon

LEMMA BelowTyped == ASSUME NEW C PROVE Below(C) \in SUBSET Classes
BY DEF Below

LEMMA AssignedChange ==
    ASSUME NEW r \in Locals, NEW p \in PCs, NEW C \in SUBSET Classes, NEW V \in SUBSET Imps
    PROVE  [r EXCEPT !.pc = p, !.todo = C, !.valid = V] \in Locals
BY DEF Locals

\* What becomes of thread u when t changes m.
Altered(t, m, u) ==
    [th[u] EXCEPT
       !.pc = IF u = t THEN "flush" ELSE th[u].pc,
       !.todo = IF u = t THEN Below({m[1]}) ELSE th[u].todo,
       !.valid = IF th[u].valid = {} THEN {}
                 ELSE th[u].valid \cup {Found(methods', th[u].cls, th[u].sel)}]

\* A change of a method: every call under way may return what is found now.
LEMMA AlterMoves ==
    ASSUME IInv, NEW t \in Threads, NEW m \in Classes \X Sels, Alter(t, m)
    PROVE  /\ methods' \in [Classes \X Sels -> Nat]
           /\ \A x \in (Classes \X Sels) \ {m} : methods'[x] = methods[x]
           /\ \A u \in Threads : th'[u] = Altered(t, m, u)
           /\ th' \in [Threads -> Locals]
<1>1. methods \in [Classes \X Sels -> Nat] /\ methods' = [methods EXCEPT ![m] = @ + 1] /\ TypeOK
  BY DEF IInv, TypeOK, Alter
<1>2. methods' \in [Classes \X Sels -> Nat] /\ \A x \in (Classes \X Sels) \ {m} : methods'[x] = methods[x]
  BY <1>1
<1>3. th' = [u \in Threads |-> Altered(t, m, u)]
  BY Zenon DEF Alter, Changed, Altered
<1>4. ASSUME NEW u \in Threads PROVE Altered(t, m, u) \in Locals
  <2> DEFINE p == IF u = t THEN "flush" ELSE th[u].pc
             C == IF u = t THEN Below({m[1]}) ELSE th[u].todo
             V == IF th[u].valid = {} THEN {} ELSE th[u].valid \cup {Found(methods', th[u].cls, th[u].sel)}
  <2>1. th[u] \in Locals /\ th[u].pc \in PCs /\ th[u].todo \in SUBSET Classes /\ th[u].valid \in SUBSET Imps
    BY <1>1, ThreadTyped DEF Locals
  <2>2. p \in PCs
    BY <2>1, Names, Zenon
  <2>3. C \in SUBSET Classes
    BY <2>1, BelowTyped
  <2>4. V \in SUBSET Imps
    <3>1. CASE th[u].valid = {}
      BY <3>1
    <3>2. CASE th[u].valid # {}
      <4>1. th[u].cls \in Classes /\ th[u].sel \in Sels
        BY <3>2, Zenon DEF IInv, Locks, LockInv
      <4>2. Found(methods', th[u].cls, th[u].sel) \in Imps
        BY <1>2, <4>1, FoundTyped
      <4> QED
        BY <2>1, <4>2
    <3> QED
      BY <3>1, <3>2
  <2>5. Altered(t, m, u) = [th[u] EXCEPT !.pc = p, !.todo = C, !.valid = V]
    BY DEF Altered
  <2> HIDE DEF p, C, V
  <2>6. [th[u] EXCEPT !.pc = p, !.todo = C, !.valid = V] \in Locals
    BY <2>1, <2>2, <2>3, <2>4, AssignedChange, Zenon
  <2> QED
    BY <2>5, <2>6
<1>5. \A u \in Threads : th'[u] = Altered(t, m, u)
  BY <1>3
<1>6. th' \in [Threads -> Locals]
  BY <1>3, <1>4
<1> QED
  BY <1>2, <1>5, <1>6

\* Both ways to change a method are the same step, or none.
LEMMA Alters ==
    ASSUME IInv, NEW t \in Threads, Replace(t) \/ AddMethod(t)
    PROVE  \/ \E m \in Classes \X Sels : Alter(t, m) /\ Alterer(t)
           \/ /\ th'[t] = [th[t] EXCEPT !.pc = "read lock"]
              /\ th[t].pc = "resolving"
              /\ Kept(t) /\ th' \in [Threads -> Locals]
              /\ UNCHANGED <<methods, before, cache, buf, garbage, reading, writing, updating>>
<1>1. CASE Replace(t)
  BY <1>1, MethodCacheAssumption DEF Replace, Alterer, At
<1>2. CASE AddMethod(t)
  <2> DEFINE m == <<th[t].cls, th[t].sel>>
  <2>1. m \in Classes \X Sels
    BY <1>2, Zenon DEF AddMethod, At, IInv, Locks, LockInv
  <2>2. CASE methods[m] = 0
    BY <1>2, <2>1, <2>2, Zenon DEF AddMethod, Alterer, At
  <2>3. CASE methods[m] # 0
    <3>1. /\ th' = [th EXCEPT ![t] = [th[t] EXCEPT !.pc = "read lock"]]
          /\ UNCHANGED <<methods, before, cache, buf, garbage, reading, writing, updating>>
      BY <1>2, <2>3, Zenon DEF AddMethod, Goto
    <3>2. TypeOK /\ [th[t] EXCEPT !.pc = "read lock"] \in Locals
      BY ThreadTyped, Assigned, Names, Zenon DEF IInv
    <3>3. th'[t] = [th[t] EXCEPT !.pc = "read lock"] /\ Kept(t) /\ th' \in [Threads -> Locals]
      BY <3>1, <3>2, OneMoves, Zenon
    <3> QED
      BY <1>2, <3>1, <3>3, Zenon DEF AddMethod, At
  <2> QED
    BY <2>2, <2>3, Zenon
<1> QED
  BY <1>1, <1>2, Zenon

LEMMA FlushLockMoves ==
    ASSUME IInv, NEW t \in Threads, FlushLock(t)
    PROVE  /\ th'[t] = [th[t] EXCEPT !.pc = "erase"]
           /\ Kept(t) /\ th' \in [Threads -> Locals]
<1>1. TypeOK /\ [th[t] EXCEPT !.pc = "erase"] \in Locals
  BY ThreadTyped, Assigned, Names, Zenon DEF IInv
<1>2. th' = [th EXCEPT ![t] = [th[t] EXCEPT !.pc = "erase"]]
  BY DEF FlushLock, Goto
<1> QED
  BY <1>1, <1>2, OneMoves

LEMMA EraseMoves ==
    ASSUME IInv, NEW t \in Threads, Erase(t)
    PROVE  \E c \in th[t].todo :
             /\ c \in Classes
             /\ \/ /\ cache[c].occupied > 0 /\ cache[c].buckets \in Buffers
                   /\ cache' = [cache EXCEPT ![c].buckets = EmptyCache, ![c].occupied = 0]
                   /\ garbage' = garbage \cup {cache[c].buckets}
                   /\ \/ th'[t] = [th[t] EXCEPT !.todo = th[t].todo \ {c}, !.old = EmptyCache, !.pc = "erase"]
                      \/ th'[t] = [th[t] EXCEPT !.todo = th[t].todo \ {c}, !.old = EmptyCache, !.pc = "collect",
                                                !.check = Threads \ {t}, !.back = "erase"]
                \/ /\ cache[c].occupied = 0
                   /\ th'[t] = [th[t] EXCEPT !.todo = th[t].todo \ {c}]
                   /\ UNCHANGED <<cache, garbage>>
             /\ Kept(t) /\ th' \in [Threads -> Locals]
<1>1. PICK c \in th[t].todo :
         IF cache[c].occupied > 0
         THEN /\ cache' = [cache EXCEPT ![c].buckets = EmptyCache, ![c].occupied = 0]
              /\ Collect(t, {cache[c].buckets}, th[t].todo \ {c}, "erase")
         ELSE /\ th' = [th EXCEPT ![t].todo = @ \ {c}]
              /\ UNCHANGED <<cache, garbage>>
  BY DEF Erase
<1>2. TypeOK /\ th[t] \in Locals /\ th[t].todo \in SUBSET Classes
  BY ThreadTyped DEF IInv, Locals
<1>3. c \in Classes /\ th[t].todo \ {c} \in SUBSET Classes
  BY <1>2
<1>4. CASE cache[c].occupied > 0
  <2>1. cache[c].buckets \in Buffers
    <3>1. cache[c].buckets = EmptyCache => cache[c].occupied = 0
      BY <1>3, Zenon DEF IInv, Arrays, CacheInv
    <3>2. cache[c].buckets \in Buffers \cup {EmptyCache} /\ cache[c].occupied \in Nat
      BY <1>2, <1>3, CacheTyped
    <3> QED
      BY <1>4, <3>1, <3>2
  <2>2. /\ cache' = [cache EXCEPT ![c].buckets = EmptyCache, ![c].occupied = 0]
        /\ Collect(t, {cache[c].buckets}, th[t].todo \ {c}, "erase")
    BY <1>1, <1>4
  <2>3. /\ garbage' = garbage \cup {cache[c].buckets}
        /\ \/ th'[t] = [th[t] EXCEPT !.todo = th[t].todo \ {c}, !.old = EmptyCache, !.pc = "erase"]
           \/ th'[t] = [th[t] EXCEPT !.todo = th[t].todo \ {c}, !.old = EmptyCache, !.pc = "collect",
                                     !.check = Threads \ {t}, !.back = "erase"]
        /\ Kept(t) /\ th' \in [Threads -> Locals]
    BY <1>2, <1>3, <2>2, CollectMoves, Names, Zenon
  <2> QED
    BY <1>3, <1>4, <2>1, <2>2, <2>3, Zenon
<1>5. CASE ~(cache[c].occupied > 0)
  <2>1. cache[c].occupied = 0
    BY <1>2, <1>3, <1>5, CacheTyped
  <2>2. th' = [th EXCEPT ![t] = [th[t] EXCEPT !.todo = th[t].todo \ {c}]] /\ UNCHANGED <<cache, garbage>>
    BY <1>1, <1>5
  <2>3. [th[t] EXCEPT !.todo = th[t].todo \ {c}] \in Locals
    BY <1>2, <1>3, AssignedFill, Names, Zenon
  <2>4. th'[t] = [th[t] EXCEPT !.todo = th[t].todo \ {c}] /\ Kept(t) /\ th' \in [Threads -> Locals]
    BY <1>2, <2>2, <2>3, OneMoves
  <2> QED
    BY <1>3, <2>1, <2>2, <2>4, Zenon
<1> QED
  BY <1>4, <1>5, Zenon

LEMMA FlushedMoves ==
    ASSUME IInv, NEW t \in Threads, Flushed(t)
    PROVE  /\ th'[t] = IF th[t].tried THEN [th[t] EXCEPT !.pc = "read lock"] ELSE Idle
           /\ Kept(t) /\ th' \in [Threads -> Locals]
<1> DEFINE r == IF th[t].tried THEN [th[t] EXCEPT !.pc = "read lock"] ELSE Idle
<1>1. TypeOK /\ r \in Locals
  BY ThreadTyped, Assigned, Names, IdleTyped, Zenon DEF IInv
<1>2. th' = [th EXCEPT ![t] = r]
  BY Zenon DEF Flushed
<1> HIDE DEF r
<1>3. th'[t] = r /\ Kept(t) /\ th' \in [Threads -> Locals]
  BY <1>1, <1>2, OneMoves
<1> QED
  BY <1>3, Zenon DEF r
-----------------------------------------------------------------------------
\* The same, local by local; q is what r becomes.

Message(q, r) == q.cls = r.cls /\ q.sel = r.sel /\ q.valid = r.valid
Flags(q, r)   == q.locked = r.locked /\ q.tried = r.tried

LEMMA SendSets ==
    ASSUME IInv, NEW t \in Threads, Send(t)
    PROVE  LET r == th[t]
               q == th'[t]
           IN /\ Kept(t) /\ r.pc = "idle" /\ q.pc = "buckets"
              /\ \E m \in Sends :
                   /\ m[1] \in Classes /\ m[2] \in Sels
                   /\ q.cls = m[1] /\ q.sel = m[2] /\ q.cur = m[1] /\ q.mask = cache[m[1]].mask
                   /\ q.valid = {Found(methods, m[1], m[2]), Found(before, m[1], m[2])}
              /\ q.buckets = EmptyCache /\ q.locked = FALSE /\ q.tried = FALSE
              /\ q.todo = {} /\ q.old = EmptyCache
<1>1. TypeOK
  BY DEF IInv
<1>2. PICK m \in Sends : th'[t] = [Idle EXCEPT !.pc = "buckets", !.cls = m[1], !.sel = m[2],
                    !.cur = m[1], !.mask = cache[m[1]].mask,
                    !.valid = {Found(methods, m[1], m[2]), Found(before, m[1], m[2])}]
  BY <1>1, SendMoves, Zenon
<1>3. m[1] \in Classes /\ m[2] \in Sels
  BY MethodCacheAssumption
<1>4. Kept(t) /\ th[t].pc = "idle"
  BY <1>1, SendMoves, Zenon DEF Send, At
<1> QED
  BY <1>2, <1>3, <1>4 DEF Idle

LEMMA LoadBucketsSets ==
    ASSUME IInv, NEW t \in Threads, LoadBuckets(t)
    PROVE  LET r == th[t]
               q == th'[t]
           IN /\ Kept(t) /\ r.pc = "buckets" /\ q.pc = "scan"
              /\ q.buckets = cache[r.cur].buckets
              /\ q.cur = r.cur /\ q.mask = r.mask /\ q.imp = r.imp /\ q.old = r.old /\ q.todo = r.todo
              /\ Message(q, r) /\ Flags(q, r)
<1>1. TypeOK /\ Locks /\ th[t] \in Locals
  BY ThreadTyped DEF IInv
<1>2. th'[t] = [th[t] EXCEPT !.pc = "scan", !.buckets = cache[th[t].cur].buckets] /\ Kept(t)
  BY <1>1, LoadBucketsMoves, Zenon
<1>3. th[t].pc = "buckets"
  BY DEF LoadBuckets, At
<1> QED
  BY <1>1, <1>2, <1>3 DEF Locals, Message, Flags

LEMMA ScanKeysSets ==
    ASSUME IInv, NEW t \in Threads, ScanKeys(t)
    PROVE  LET r == th[t]
               q == th'[t]
           IN /\ Kept(t) /\ r.pc = "scan" /\ q.mask = 0
              /\ \/ /\ q.pc = "imp" /\ r.buckets # EmptyCache /\ q.buckets = r.buckets
                    /\ q.index \in 0..buf[r.buckets].cap - 1
                    /\ buf[r.buckets].slot[q.index].key = r.sel
                 \/ /\ q.pc = IF r.locked THEN "list" ELSE "read lock"
                    /\ q.buckets = EmptyCache
              /\ q.cur = r.cur /\ q.imp = r.imp /\ q.old = r.old /\ q.todo = r.todo
              /\ Message(q, r) /\ Flags(q, r)
<1>1. th[t] \in Locals
  BY ThreadTyped DEF IInv
<1>2. Kept(t) /\ th[t].pc = "scan"
  BY ScanKeysMoves, Zenon DEF ScanKeys, At
<1>3. CASE \E j \in 0..buf[th[t].buckets].cap - 1 :
              /\ th[t].buckets # EmptyCache
              /\ buf[th[t].buckets].slot[j].key = th[t].sel
              /\ th'[t] = [th[t] EXCEPT !.pc = "imp", !.mask = 0, !.index = j]
  <2>1. PICK j \in 0..buf[th[t].buckets].cap - 1 :
              /\ th[t].buckets # EmptyCache
              /\ buf[th[t].buckets].slot[j].key = th[t].sel
              /\ th'[t] = [th[t] EXCEPT !.pc = "imp", !.mask = 0, !.index = j]
    BY <1>3, Zenon
  <2> QED
    BY <1>1, <1>2, <2>1 DEF Locals, Message, Flags
<1>4. CASE th'[t] = [th[t] EXCEPT !.pc = IF th[t].locked THEN "list" ELSE "read lock",
                                  !.mask = 0, !.buckets = EmptyCache]
  BY <1>1, <1>2, <1>4 DEF Locals, Message, Flags
<1> QED
  BY <1>3, <1>4, ScanKeysMoves, Zenon

LEMMA LoadImpSets ==
    ASSUME IInv, NEW t \in Threads, LoadImp(t)
    PROVE  LET r == th[t]
               q == th'[t]
               i == buf[r.buckets].slot[r.index].imp
           IN /\ Kept(t) /\ r.pc = "imp"
              /\ \/ q.pc = "return" /\ r.cur = r.cls /\ q.imp = i /\ q.tried = FALSE
                 \/ q.pc = "resolve" /\ r.cur # r.cls /\ i = Forward /\ q.tried = r.tried
                 \/ q.pc = "fill" /\ r.cur # r.cls /\ q.imp = i /\ q.tried = FALSE
              /\ q.buckets = EmptyCache /\ q.mask = r.mask /\ q.old = r.old /\ q.todo = r.todo
              /\ Message(q, r) /\ q.locked = r.locked
<1> DEFINE i == buf[th[t].buckets].slot[th[t].index].imp
<1>1. th[t] \in Locals /\ Kept(t) /\ th[t].pc = "imp"
  BY ThreadTyped, LoadImpMoves, Zenon DEF IInv, LoadImp, At
<1>2. th'[t] = IF th[t].cur = th[t].cls THEN Got("return", th[t], i)
               ELSE IF i = Forward
               THEN [th[t] EXCEPT !.pc = "resolve", !.buckets = EmptyCache, !.index = 0]
               ELSE Got("fill", th[t], i)
  BY LoadImpMoves, Zenon
<1> HIDE DEF i
<1>3. CASE th[t].cur = th[t].cls
  <2>1. th'[t] = Got("return", th[t], i)
    BY <1>2, <1>3
  <2> QED
    BY <1>1, <1>3, <2>1 DEF Got, Locals, Message, i
<1>4. CASE th[t].cur # th[t].cls /\ i = Forward
  <2>1. th'[t] = [th[t] EXCEPT !.pc = "resolve", !.buckets = EmptyCache, !.index = 0]
    BY <1>2, <1>4
  <2> QED
    BY <1>1, <1>4, <2>1 DEF Locals, Message, i
<1>5. CASE th[t].cur # th[t].cls /\ i # Forward
  <2>1. th'[t] = Got("fill", th[t], i)
    BY <1>2, <1>5
  <2> QED
    BY <1>1, <1>5, <2>1 DEF Got, Locals, Message, i
<1> QED
  BY <1>3, <1>4, <1>5, Zenon

LEMMA ReadLockSets ==
    ASSUME IInv, NEW t \in Threads, ReadLock(t)
    PROVE  LET r == th[t]
               q == th'[t]
           IN /\ Kept(t) /\ r.pc = "read lock" /\ q.pc = "buckets"
              /\ q.cur = r.cls /\ q.locked = TRUE /\ q.mask = cache[r.cls].mask /\ q.tried = r.tried
              /\ q.buckets = r.buckets /\ q.imp = r.imp /\ q.old = r.old /\ q.todo = r.todo
              /\ Message(q, r)
<1>1. TypeOK /\ Locks /\ th[t] \in Locals
  BY ThreadTyped DEF IInv
<1>2. /\ th'[t] = [th[t] EXCEPT !.pc = "buckets", !.cur = th[t].cls, !.locked = TRUE,
                               !.mask = cache[th[t].cls].mask]
      /\ Kept(t)
  BY <1>1, ReadLockMoves, Zenon
<1>3. th[t].pc = "read lock"
  BY Zenon DEF ReadLock, At
<1>4. /\ th'[t].pc = "buckets" /\ th'[t].cur = th[t].cls /\ th'[t].locked = TRUE
      /\ th'[t].mask = cache[th[t].cls].mask
  BY <1>1, <1>2 DEF Locals
<1>5. /\ th'[t].tried = th[t].tried /\ th'[t].buckets = th[t].buckets /\ th'[t].imp = th[t].imp
      /\ th'[t].old = th[t].old /\ th'[t].todo = th[t].todo
  BY <1>1, <1>2 DEF Locals
<1>6. Message(th'[t], th[t])
  BY <1>1, <1>2 DEF Locals, Message
<1> QED
  BY <1>2, <1>3, <1>4, <1>5, <1>6, Zenon

LEMMA SearchListSets ==
    ASSUME IInv, NEW t \in Threads, SearchList(t)
    PROVE  LET r == th[t]
               q == th'[t]
               c == r.cur
               v == methods[<<c, r.sel>>]
           IN /\ Kept(t) /\ r.pc = "list"
              /\ \/ v > 0 /\ q.pc = "fill" /\ q.imp = <<c, v>> /\ q.tried = FALSE
                 \/ ~(v > 0) /\ Super[c] = NoClass /\ q.pc = "resolve" /\ q.tried = r.tried
                 \/ /\ ~(v > 0) /\ Super[c] \in Classes /\ q.pc = "buckets" /\ q.tried = r.tried
                    /\ q.cur = Super[c] /\ q.mask = cache[Super[c]].mask
              /\ q.old = r.old /\ q.todo = r.todo
              /\ Message(q, r) /\ q.locked = r.locked
<1> DEFINE c == th[t].cur
           v == methods[<<c, th[t].sel>>]
<1>1. TypeOK /\ Locks /\ th[t] \in Locals /\ th[t].pc = "list"
  BY ThreadTyped DEF IInv, SearchList, At
<1>2. /\ th'[t] = IF v > 0 THEN Got("fill", th[t], <<c, v>>)
                  ELSE IF Super[c] = NoClass THEN [th[t] EXCEPT !.pc = "resolve"]
                  ELSE [th[t] EXCEPT !.pc = "buckets", !.cur = Super[c], !.mask = cache[Super[c]].mask]
      /\ Kept(t)
  BY <1>1, SearchListMoves, Zenon
<1>3. c \in Classes
  BY <1>1, Zenon DEF Locks, LockInv
<1> HIDE DEF v
<1>4. CASE v > 0
  <2>1. th'[t] = Got("fill", th[t], <<c, v>>)
    BY <1>2, <1>4
  <2>2. /\ th'[t].pc = "fill" /\ th'[t].imp = <<c, v>> /\ th'[t].tried = FALSE
        /\ th'[t].buckets = EmptyCache
    BY <1>1, <2>1 DEF Got, Locals
  <2>3. /\ th'[t].mask = th[t].mask /\ th'[t].old = th[t].old /\ th'[t].todo = th[t].todo
        /\ th'[t].locked = th[t].locked /\ Message(th'[t], th[t])
    BY <1>1, <2>1 DEF Got, Locals, Message
  <2> QED
    BY <1>1, <1>2, <1>4, <2>2, <2>3, Zenon DEF v
<1>5. CASE ~(v > 0) /\ Super[c] = NoClass
  <2>1. th'[t] = [th[t] EXCEPT !.pc = "resolve"]
    BY <1>2, <1>5
  <2> QED
    BY <1>1, <1>2, <1>5, <2>1 DEF Locals, Message, v
<1>6. CASE ~(v > 0) /\ Super[c] # NoClass
  <2>1. th'[t] = [th[t] EXCEPT !.pc = "buckets", !.cur = Super[c], !.mask = cache[Super[c]].mask]
    BY <1>2, <1>6
  <2>2. Super[c] \in Classes
    BY <1>3, <1>6, SuperTyped
  <2> QED
    BY <1>1, <1>2, <1>6, <2>1, <2>2 DEF Locals, Message, v
<1> QED
  BY <1>4, <1>5, <1>6

LEMMA ResolveSets ==
    ASSUME IInv, NEW t \in Threads, Resolve(t)
    PROVE  LET r == th[t]
               q == th'[t]
           IN /\ Kept(t) /\ r.pc = "resolve"
              /\ \/ /\ r.tried /\ q.pc = "fill" /\ q.imp = Forward /\ q.tried = FALSE
                    /\ q.locked = r.locked /\ reading' = reading
                 \/ /\ ~r.tried /\ q.pc \in {"resolving", "read lock"} /\ q.tried = TRUE
                    /\ q.locked = FALSE /\ reading' = reading \ {t}
              /\ q.old = r.old /\ q.todo = r.todo
              /\ Message(q, r)
<1>1. TypeOK /\ th[t] \in Locals /\ th[t].pc = "resolve"
  BY ThreadTyped, Zenon DEF IInv, Resolve, At
<1>2. Kept(t)
  BY <1>1, ResolveMoves, Zenon
<1>3. CASE th[t].tried
  <2>1. th'[t] = Got("fill", th[t], Forward) /\ reading' = reading
    BY <1>1, <1>3, ResolveMoves, Zenon
  <2> QED
    BY <1>1, <1>2, <1>3, <2>1 DEF Got, Locals, Message
<1>4. CASE ~th[t].tried
  <2>1. PICK p \in {"resolving", "read lock"} :
           th'[t] = [th[t] EXCEPT !.tried = TRUE, !.locked = FALSE, !.pc = p]
    BY <1>1, <1>4, ResolveMoves, Zenon
  <2>2. reading' = reading \ {t}
    BY <1>1, <1>4, ResolveMoves, Zenon
  <2> QED
    BY <1>1, <1>2, <1>4, <2>1, <2>2, Zenon DEF Locals, Message
<1> QED
  BY <1>3, <1>4, Zenon

LEMMA ReturnSets ==
    ASSUME IInv, NEW t \in Threads, Return(t)
    PROVE  LET r == th[t]
               q == th'[t]
           IN /\ Kept(t) /\ r.pc = "return" /\ q.pc = "idle"
              /\ q.cls = NoClass /\ q.locked = FALSE /\ q.tried = FALSE /\ q.valid = {} /\ q.todo = {}
<1>1. TypeOK /\ th[t].pc = "return"
  BY DEF IInv, Return, At
<1> QED
  BY <1>1, ReturnMoves DEF Idle

LEMMA FillLockSets ==
    ASSUME IInv, NEW t \in Threads, FillLock(t)
    PROVE  LET r == th[t]
               q == th'[t]
               c == r.cls
           IN /\ Kept(t) /\ r.pc = "fill" /\ c \in Classes /\ updating = NoThread
              /\ q.imp = r.imp /\ q.back = r.back /\ q.todo = r.todo
              /\ Message(q, r) /\ Flags(q, r)
              /\ \/ /\ q.pc = "return" /\ UNCHANGED <<cache, buf, updating>>
                 \/ /\ q.pc = "insert" /\ updating' = t /\ UNCHANGED <<cache, buf>>
                    /\ cache[c].buckets # EmptyCache
                    /\ cache[c].occupied + 1 < buf[cache[c].buckets].cap
                 \/ /\ q.pc = "new mask" /\ q.old = cache[c].buckets /\ updating' = t
                    /\ \E b \in Buffers, n \in Nat :
                          /\ buf[b] = Freed /\ n >= 4 /\ n >= cache[c].mask + 1
                          /\ buf' = [buf EXCEPT ![b] = NewBuckets(n)]
                          /\ cache' = [cache EXCEPT ![c].buckets = b]
<1> DEFINE c == th[t].cls
           Made == \E b \in Buffers, n \in Nat :
                          /\ buf[b] = Freed /\ n >= 4 /\ n >= cache[c].mask + 1
                          /\ buf' = [buf EXCEPT ![b] = NewBuckets(n)]
                          /\ cache' = [cache EXCEPT ![c].buckets = b]
<1>1. th[t] \in Locals /\ th[t].pc = "fill" /\ Kept(t) /\ c \in Classes /\ updating = NoThread
  BY ThreadTyped, FillLockMoves, Zenon DEF IInv, FillLock, At
<1>2. CASE th'[t] = [th[t] EXCEPT !.pc = "return"] /\ UNCHANGED <<cache, buf, updating>>
  BY <1>1, <1>2 DEF Locals, Message, Flags
<1>3. CASE /\ th'[t] = [th[t] EXCEPT !.pc = "insert"]
           /\ updating' = t /\ UNCHANGED <<cache, buf>>
           /\ cache[c].buckets # EmptyCache
           /\ cache[c].occupied + 1 < buf[cache[c].buckets].cap
  BY <1>1, <1>3 DEF Locals, Message, Flags
<1>4. CASE /\ th'[t] = [th[t] EXCEPT !.pc = "new mask", !.old = cache[c].buckets]
           /\ updating' = t /\ Made
  <2> HIDE DEF Made
  <2>1. /\ th'[t].pc = "new mask" /\ th'[t].old = cache[c].buckets /\ th'[t].imp = th[t].imp
        /\ th'[t].back = th[t].back /\ th'[t].todo = th[t].todo
        /\ Message(th'[t], th[t]) /\ Flags(th'[t], th[t])
    BY <1>1, <1>4 DEF Locals, Message, Flags
  <2> QED
    BY <1>1, <1>4, <2>1, Zenon DEF Made
<1>5. \/ th'[t] = [th[t] EXCEPT !.pc = "return"] /\ UNCHANGED <<cache, buf, updating>>
      \/ /\ th'[t] = [th[t] EXCEPT !.pc = "insert"]
         /\ updating' = t /\ UNCHANGED <<cache, buf>>
         /\ cache[c].buckets # EmptyCache
         /\ cache[c].occupied + 1 < buf[cache[c].buckets].cap
      \/ /\ th'[t] = [th[t] EXCEPT !.pc = "new mask", !.old = cache[c].buckets]
         /\ updating' = t /\ Made
  BY FillLockMoves, Zenon
<1> QED
  BY <1>2, <1>3, <1>4, <1>5, Zenon

LEMMA StoreMaskSets ==
    ASSUME IInv, NEW t \in Threads, StoreMask(t)
    PROVE  LET r == th[t]
               q == th'[t]
           IN /\ Kept(t) /\ r.pc = "new mask"
              /\ \/ q.pc = "insert"
                 \/ q.pc = "collect" /\ q.check = Threads \ {t} /\ q.back = "insert"
              /\ q.old = EmptyCache /\ q.todo = {} /\ q.imp = r.imp
              /\ Message(q, r) /\ Flags(q, r)
              /\ garbage' = garbage \cup ({r.old} \ {EmptyCache})
<1>1. th[t] \in Locals /\ th[t].pc = "new mask" /\ Kept(t) /\ garbage' = garbage \cup ({th[t].old} \ {EmptyCache})
  BY ThreadTyped, StoreMaskMoves, Zenon DEF IInv, StoreMask, At
<1>2. CASE th'[t] = [th[t] EXCEPT !.todo = {}, !.old = EmptyCache, !.pc = "insert"]
  <2>1. /\ th'[t].pc = "insert" /\ th'[t].old = EmptyCache /\ th'[t].todo = {}
        /\ th'[t].imp = th[t].imp
    BY <1>1, <1>2, Zenon DEF Locals
  <2>2. Message(th'[t], th[t])
    BY <1>1, <1>2, Zenon DEF Locals, Message
  <2>3. Flags(th'[t], th[t])
    BY <1>1, <1>2, Zenon DEF Locals, Flags
  <2> QED
    BY <1>1, <2>1, <2>2, <2>3, Zenon
<1>3. CASE th'[t] = [th[t] EXCEPT !.todo = {}, !.old = EmptyCache, !.pc = "collect",
                                  !.check = Threads \ {t}, !.back = "insert"]
  <2>1. /\ th'[t].pc = "collect" /\ th'[t].check = Threads \ {t} /\ th'[t].back = "insert"
        /\ th'[t].old = EmptyCache /\ th'[t].todo = {} /\ th'[t].imp = th[t].imp
    BY <1>1, <1>3, Zenon DEF Locals
  <2>2. Message(th'[t], th[t])
    BY <1>1, <1>3, Zenon DEF Locals, Message
  <2>3. Flags(th'[t], th[t])
    BY <1>1, <1>3, Zenon DEF Locals, Flags
  <2> QED
    BY <1>1, <2>1, <2>2, <2>3, Zenon
<1> QED
  BY <1>2, <1>3, StoreMaskMoves, Zenon

LEMMA StoreImpSets ==
    ASSUME IInv, NEW t \in Threads, StoreImp(t)
    PROVE  LET r == th[t]
               q == th'[t]
               b == cache[r.cls].buckets
           IN /\ Kept(t) /\ r.pc = "insert" /\ q.pc = "key"
              /\ q.index \in 0..buf[b].cap - 1
              /\ buf[b].slot[q.index].key \in {r.sel, NoSel}
              /\ buf' = [buf EXCEPT ![b].slot[q.index].imp = r.imp]
              /\ cache' = [cache EXCEPT ![r.cls].occupied = @ + 1]
              /\ q.imp = r.imp /\ q.todo = r.todo /\ q.old = r.old
              /\ Message(q, r) /\ Flags(q, r)
<1> DEFINE b == cache[th[t].cls].buckets
<1>1. th[t] \in Locals /\ th[t].pc = "insert"
  BY ThreadTyped, Zenon DEF IInv, StoreImp, At
<1>2. PICK i \in 0..buf[b].cap - 1 :
        /\ buf[b].slot[i].key \in {th[t].sel, NoSel}
        /\ buf' = [buf EXCEPT ![b].slot[i].imp = th[t].imp]
        /\ cache' = [cache EXCEPT ![th[t].cls].occupied = @ + 1]
        /\ th'[t] = [th[t] EXCEPT !.pc = "key", !.index = i]
        /\ Kept(t)
  BY StoreImpMoves, Zenon
<1>3. th'[t].index = i
  BY <1>1, <1>2, Zenon DEF Locals
<1>4. /\ th'[t].pc = "key" /\ th'[t].imp = th[t].imp /\ th'[t].todo = th[t].todo /\ th'[t].old = th[t].old
      /\ Message(th'[t], th[t]) /\ Flags(th'[t], th[t])
  BY <1>1, <1>2, Zenon DEF Locals, Message, Flags
<1> QED
  BY <1>1, <1>2, <1>3, <1>4, Zenon

LEMMA StoreKeySets ==
    ASSUME IInv, NEW t \in Threads, StoreKey(t)
    PROVE  LET r == th[t]
               q == th'[t]
           IN /\ Kept(t) /\ r.pc = "key" /\ q.pc = "return" /\ q.imp = r.imp /\ q.todo = r.todo
              /\ Message(q, r) /\ Flags(q, r)
<1>1. th[t] \in Locals /\ th[t].pc = "key"
  BY ThreadTyped, Zenon DEF IInv, StoreKey, At
<1>2. th'[t] = [th[t] EXCEPT !.pc = "return", !.index = 0] /\ Kept(t)
  BY StoreKeyMoves, Zenon
<1> QED
  BY <1>1, <1>2 DEF Locals, Message, Flags

LEMMA CheckThreadSets ==
    ASSUME IInv, NEW t \in Threads, CheckThread(t)
    PROVE  LET r == th[t]
               q == th'[t]
           IN /\ Kept(t) /\ r.pc = "collect"
              /\ \E u \in r.check :
                    \/ Reader(th[u]) /\ q.pc = r.back
                    \/ ~Reader(th[u]) /\ q.pc = "collect" /\ q.back = r.back /\ q.check = r.check \ {u}
              /\ q.imp = r.imp /\ q.todo = r.todo
              /\ Message(q, r) /\ Flags(q, r)
<1>1. th[t] \in Locals /\ th[t].pc = "collect"
  BY ThreadTyped DEF IInv, CheckThread, At
<1>2. PICK u \in th[t].check :
                \/ /\ Reader(th[u])
                   /\ th'[t] = [th[t] EXCEPT !.pc = th[t].back, !.check = {}, !.back = "idle"]
                \/ /\ ~Reader(th[u])
                   /\ th'[t] = [th[t] EXCEPT !.check = @ \ {u}]
  BY CheckThreadMoves, Zenon
<1>3. Kept(t)
  BY CheckThreadMoves, Zenon
<1>4. CASE /\ Reader(th[u])
           /\ th'[t] = [th[t] EXCEPT !.pc = th[t].back, !.check = {}, !.back = "idle"]
  BY <1>1, <1>3, <1>4 DEF Locals, Message, Flags
<1>5. CASE /\ ~Reader(th[u])
           /\ th'[t] = [th[t] EXCEPT !.check = @ \ {u}]
  BY <1>1, <1>3, <1>5 DEF Locals, Message, Flags
<1> QED
  BY <1>2, <1>4, <1>5

LEMMA FreeGarbageSets ==
    ASSUME IInv, NEW t \in Threads, FreeGarbage(t)
    PROVE  LET r == th[t]
               q == th'[t]
           IN /\ Kept(t) /\ r.pc = "collect" /\ q.pc = r.back /\ q.imp = r.imp /\ q.todo = r.todo
              /\ Message(q, r) /\ Flags(q, r)
<1>1. th[t] \in Locals /\ th[t].pc = "collect"
  BY ThreadTyped DEF IInv, FreeGarbage, At
<1>2. th'[t] = [th[t] EXCEPT !.pc = th[t].back, !.back = "idle"] /\ Kept(t)
  BY FreeGarbageMoves, Zenon
<1> QED
  BY <1>1, <1>2 DEF Locals, Message, Flags

\* A change keeps all but the results that are valid of the other threads.
AlterSets(t, m) ==
    /\ \A u \in Threads :
         LET r == th[u]
             q == th'[u]
         IN /\ q.cls = r.cls /\ q.sel = r.sel /\ q.cur = r.cur /\ q.mask = r.mask
            /\ q.buckets = r.buckets /\ q.index = r.index /\ q.imp = r.imp
            /\ Flags(q, r) /\ q.old = r.old /\ q.check = r.check /\ q.back = r.back
            /\ IF r.valid = {} THEN q.valid = {}
               ELSE q.valid = r.valid \cup {Found(methods', r.cls, r.sel)}
            /\ IF u = t THEN q.pc = "flush" /\ q.todo = Below({m[1]})
                        ELSE q.pc = r.pc /\ q.todo = r.todo
    /\ methods' \in [Classes \X Sels -> Nat]
    /\ \A x \in (Classes \X Sels) \ {m} : methods'[x] = methods[x]

LEMMA AltersSets ==
    ASSUME IInv, NEW t \in Threads, NEW m \in Classes \X Sels, Alter(t, m)
    PROVE  AlterSets(t, m)
<1>1. ASSUME NEW u \in Threads
      PROVE  LET r == th[u]
                 q == th'[u]
             IN /\ q.cls = r.cls /\ q.sel = r.sel /\ q.cur = r.cur /\ q.mask = r.mask
                /\ q.buckets = r.buckets /\ q.index = r.index /\ q.imp = r.imp
                /\ Flags(q, r) /\ q.old = r.old /\ q.check = r.check /\ q.back = r.back
                /\ IF r.valid = {} THEN q.valid = {}
                   ELSE q.valid = r.valid \cup {Found(methods', r.cls, r.sel)}
                /\ IF u = t THEN q.pc = "flush" /\ q.todo = Below({m[1]})
                            ELSE q.pc = r.pc /\ q.todo = r.todo
  <2>1. th[u] \in Locals
    BY ThreadTyped DEF IInv
  <2>2. th'[u] = Altered(t, m, u)
    BY AlterMoves
  <2> QED
    BY <2>1, <2>2 DEF Altered, Locals, Flags
<1> QED
  BY <1>1, AlterMoves DEF AlterSets

LEMMA NothingToAdd ==
    ASSUME IInv, NEW t \in Threads, th[t].pc = "resolving", th'[t] = [th[t] EXCEPT !.pc = "read lock"]
    PROVE  LET r == th[t]
               q == th'[t]
           IN q.pc = "read lock" /\ q.todo = r.todo /\ Message(q, r) /\ Flags(q, r)
<1>1. th[t] \in Locals
  BY ThreadTyped, Zenon DEF IInv
<1> QED
  BY <1>1, Zenon DEF Locals, Message, Flags

LEMMA FlushLockSets ==
    ASSUME IInv, NEW t \in Threads, FlushLock(t)
    PROVE  LET r == th[t]
               q == th'[t]
           IN /\ Kept(t) /\ r.pc = "flush" /\ q.pc = "erase" /\ q.todo = r.todo
              /\ Message(q, r) /\ Flags(q, r)
<1>1. th[t] \in Locals /\ th[t].pc = "flush"
  BY ThreadTyped DEF IInv, FlushLock, At
<1>2. th'[t] = [th[t] EXCEPT !.pc = "erase"] /\ Kept(t)
  BY FlushLockMoves
<1> QED
  BY <1>1, <1>2 DEF Locals, Message, Flags

LEMMA EraseSets ==
    ASSUME IInv, NEW t \in Threads, Erase(t)
    PROVE  LET r == th[t]
               q == th'[t]
           IN /\ Kept(t) /\ r.pc = "erase"
              /\ \/ q.pc = "erase"
                 \/ q.pc = "collect" /\ q.check = Threads \ {t} /\ q.back = "erase"
              /\ Message(q, r) /\ Flags(q, r)
              /\ \E c \in r.todo :
                   /\ c \in Classes
                   /\ q.todo = r.todo \ {c}
                   /\ \/ /\ cache[c].occupied > 0 /\ cache[c].buckets \in Buffers
                         /\ cache' = [cache EXCEPT ![c].buckets = EmptyCache, ![c].occupied = 0]
                         /\ garbage' = garbage \cup {cache[c].buckets}
                      \/ /\ cache[c].occupied = 0 /\ q.pc = "erase"
                         /\ UNCHANGED <<cache, garbage>>
<1>1. th[t] \in Locals /\ th[t].pc = "erase"
  BY ThreadTyped DEF IInv, Erase, At
<1>2. PICK c \in th[t].todo :
             /\ c \in Classes
             /\ \/ /\ cache[c].occupied > 0 /\ cache[c].buckets \in Buffers
                   /\ cache' = [cache EXCEPT ![c].buckets = EmptyCache, ![c].occupied = 0]
                   /\ garbage' = garbage \cup {cache[c].buckets}
                   /\ \/ th'[t] = [th[t] EXCEPT !.todo = th[t].todo \ {c}, !.old = EmptyCache, !.pc = "erase"]
                      \/ th'[t] = [th[t] EXCEPT !.todo = th[t].todo \ {c}, !.old = EmptyCache, !.pc = "collect",
                                                !.check = Threads \ {t}, !.back = "erase"]
                \/ /\ cache[c].occupied = 0
                   /\ th'[t] = [th[t] EXCEPT !.todo = th[t].todo \ {c}]
                   /\ UNCHANGED <<cache, garbage>>
             /\ Kept(t)
  BY EraseMoves, Zenon
<1> DEFINE Emptied == /\ cache[c].occupied > 0 /\ cache[c].buckets \in Buffers
                      /\ cache' = [cache EXCEPT ![c].buckets = EmptyCache, ![c].occupied = 0]
                      /\ garbage' = garbage \cup {cache[c].buckets}
           Passed == cache[c].occupied = 0 /\ UNCHANGED <<cache, garbage>>
<1> HIDE DEF Emptied, Passed
<1>3. CASE Emptied /\ th'[t] = [th[t] EXCEPT !.todo = th[t].todo \ {c}, !.old = EmptyCache, !.pc = "erase"]
  <2>1. /\ th'[t].pc = "erase" /\ th'[t].todo = th[t].todo \ {c}
        /\ Message(th'[t], th[t]) /\ Flags(th'[t], th[t])
    BY <1>1, <1>3 DEF Locals, Message, Flags
  <2> QED
    BY <1>1, <1>2, <1>3, <2>1 DEF Emptied
<1>4. CASE Emptied /\ th'[t] = [th[t] EXCEPT !.todo = th[t].todo \ {c}, !.old = EmptyCache, !.pc = "collect",
                                             !.check = Threads \ {t}, !.back = "erase"]
  <2>1. /\ th'[t].pc = "collect" /\ th'[t].todo = th[t].todo \ {c}
        /\ th'[t].check = Threads \ {t} /\ th'[t].back = "erase"
        /\ Message(th'[t], th[t]) /\ Flags(th'[t], th[t])
    BY <1>1, <1>4 DEF Locals, Message, Flags
  <2> QED
    BY <1>1, <1>2, <1>4, <2>1 DEF Emptied
<1>5. CASE Passed /\ th'[t] = [th[t] EXCEPT !.todo = th[t].todo \ {c}]
  <2>1. /\ th'[t].pc = "erase" /\ th'[t].todo = th[t].todo \ {c}
        /\ Message(th'[t], th[t]) /\ Flags(th'[t], th[t])
    BY <1>1, <1>5 DEF Locals, Message, Flags
  <2> QED
    BY <1>1, <1>2, <1>5, <2>1 DEF Passed
<1> QED
  BY <1>2, <1>3, <1>4, <1>5 DEF Emptied, Passed

LEMMA FlushedSets ==
    ASSUME IInv, NEW t \in Threads, Flushed(t)
    PROVE  LET r == th[t]
               q == th'[t]
           IN /\ Kept(t) /\ r.pc = "erase" /\ r.todo = {} /\ q.todo = {}
              /\ \/ r.tried /\ q.pc = "read lock" /\ Message(q, r) /\ Flags(q, r)
                 \/ ~r.tried /\ q.pc = "idle" /\ q.cls = NoClass /\ q.valid = {}
                    /\ q.locked = FALSE /\ q.tried = FALSE
<1>1. th[t] \in Locals /\ th[t].pc = "erase" /\ th[t].todo = {}
  BY ThreadTyped, Zenon DEF IInv, Flushed, At
<1>2. th'[t] = (IF th[t].tried THEN [th[t] EXCEPT !.pc = "read lock"] ELSE Idle) /\ Kept(t)
  BY FlushedMoves, Zenon
<1>3. CASE th[t].tried
  <2>1. th'[t] = [th[t] EXCEPT !.pc = "read lock"]
    BY <1>2, <1>3, Zenon
  <2>2. /\ th'[t].pc = "read lock" /\ th'[t].todo = th[t].todo
        /\ Message(th'[t], th[t]) /\ Flags(th'[t], th[t])
    BY <1>1, <2>1, Zenon DEF Locals, Message, Flags
  <2> QED
    BY <1>1, <1>2, <1>3, <2>2, Zenon
<1>4. CASE ~th[t].tried
  <2>1. th'[t] = Idle
    BY <1>2, <1>4
  <2> QED
    BY <1>1, <1>2, <1>4, <2>1 DEF Idle
<1> QED
  BY <1>3, <1>4, Zenon
-----------------------------------------------------------------------------
\* The locks.

LEMMA Nones == NoThread \notin Threads /\ NoClass \notin Classes /\ NoSel \notin Sels
BY MethodCacheAssumption

LEMMA OthersLocked ==
    ASSUME IInv, NEW t \in Threads, NEW u \in Threads \ {t}, th'[u] = th[u],
           u \in reading => u \in reading',
           \/ writing' = writing
           \/ writing' # u /\ writing # u /\ (th[u].locked => writing' = NoThread),
           updating' = updating \/ updating \in {t, NoThread}
    PROVE  LockInv(u)'
<1>1. LockInv(u)
  BY DEF IInv, Locks
<1>2. u # NoThread
  BY MethodCacheAssumption
<1>3. Updater(th[u]) => updating' = u
  BY <1>1, <1>2, Zenon DEF LockInv
<1>4. Writer(th[u]) <=> writing' = u
  BY <1>1, Zenon DEF LockInv
<1>5. th[u].locked => u \in reading' /\ writing' = NoThread
  BY <1>1, Zenon DEF LockInv
<1> QED
  BY <1>1, <1>3, <1>4, <1>5, Zenon DEF LockInv

\* When nothing happens to the locks.
LEMMA SameLocks ==
    ASSUME IInv, NEW t \in Threads, Kept(t), LockInv(t)',
           UNCHANGED <<methods, before, reading, writing>>,
           updating' = updating \/ updating \in {t, NoThread}
    PROVE  Locks'
<1>1. \A u \in Threads \ {t} : LockInv(u)'
  BY OthersLocked DEF Kept
<1>2. writing' = NoThread => before' = methods'
  BY DEF IInv, Locks
<1> QED
  BY <1>1, <1>2 DEF Locks

LEMMA ReadLocks ==
    ASSUME IInv, NEW t \in Threads, Read(t)
    PROVE  Locks'
<1>0. LockInv(t) /\ UNCHANGED <<methods, before, reading, writing, updating>>
  BY Zenon DEF IInv, Locks, Read, Send, LoadBuckets, ScanKeys, LoadImp
<1>1. CASE Send(t)
  <2>1. LockInv(t)'
    <3>1. /\ th'[t].pc = "buckets" /\ th'[t].cls \in Classes /\ th'[t].sel \in Sels /\ th'[t].cur = th'[t].cls
          /\ ~th'[t].locked /\ ~th'[t].tried /\ th[t].pc = "idle"
      BY <1>1, SendSets
    <3> QED
      BY <1>0, <3>1, Nones DEF LockInv, Reader, Writer, Filling, Updater
  <2> QED
    BY <1>0, <1>1, <2>1, SendSets, SameLocks
<1>2. CASE LoadBuckets(t)
  <2>1. LockInv(t)'
    BY <1>0, <1>2, LoadBucketsSets, Zenon
       DEF LockInv, Reader, Writer, Filling, Updater, Message, Flags
  <2> QED
    BY <1>0, <1>2, <2>1, LoadBucketsSets, SameLocks
<1>3. CASE ScanKeys(t)
  <2>1. LockInv(t)'
    BY <1>0, <1>3, ScanKeysSets, Zenon DEF LockInv, Reader, Writer, Filling, Updater, Message, Flags
  <2> QED
    BY <1>0, <1>3, <2>1, ScanKeysSets, SameLocks, Zenon
<1>4. CASE LoadImp(t)
  <2>1. LockInv(t)'
    BY <1>0, <1>4, LoadImpSets, Zenon DEF LockInv, Reader, Writer, Filling, Updater, Message, Flags
  <2> QED
    BY <1>0, <1>4, <2>1, LoadImpSets, SameLocks
<1> QED
  BY <1>1, <1>2, <1>3, <1>4 DEF Read

\* When one thread's hold on the lock for reading changes.
LEMMA ReaderLocks ==
    ASSUME IInv, NEW t \in Threads, Kept(t), LockInv(t)',
           UNCHANGED <<methods, before, writing, updating>>,
           reading \ {t} \subseteq reading'
    PROVE  Locks'
<1>1. \A u \in Threads \ {t} : LockInv(u)'
  BY OthersLocked DEF Kept
<1>2. writing' = NoThread => before' = methods'
  BY DEF IInv, Locks
<1> QED
  BY <1>1, <1>2 DEF Locks

LEMMA LookUpLocks ==
    ASSUME IInv, NEW t \in Threads, LookUp(t)
    PROVE  Locks'
<1>0. LockInv(t) /\ UNCHANGED <<methods, before, writing, updating>>
  BY Zenon DEF IInv, Locks, LookUp, ReadLock, SearchList, Resolve, Return
<1>1. CASE ReadLock(t)
  <2>1. reading' = reading \cup {t} /\ writing = NoThread
    BY <1>1, Zenon DEF ReadLock
  <2>2. LockInv(t)'
    BY <1>0, <1>1, <2>1, ReadLockSets, Zenon DEF LockInv, Reader, Writer, Filling, Updater, Message
  <2> QED
    BY <1>0, <1>1, <2>1, <2>2, ReadLockSets, ReaderLocks, Zenon
<1>2. CASE SearchList(t)
  <2>1. reading' = reading
    BY <1>2 DEF SearchList
  <2>2. LockInv(t)'
    BY <1>0, <1>2, <2>1, SearchListSets, Zenon
       DEF LockInv, Reader, Writer, Filling, Updater, Message
  <2> QED
    BY <1>0, <1>2, <2>1, <2>2, SearchListSets, ReaderLocks
<1>3. CASE Resolve(t)
  <2>1. LockInv(t)'
    <3>1. th[t].cls \in Classes /\ th[t].sel \in Sels /\ th[t].pc = "resolve" /\ th[t].locked
      BY <1>0, <1>3, ResolveSets, Zenon DEF LockInv, Filling
    <3>2. th'[t].pc = "fill" => th'[t].locked /\ ~th'[t].tried /\ reading' = reading
      BY <1>3, <3>1, ResolveSets, Zenon
    <3>3. th'[t].pc # "fill" => th'[t].pc \in {"resolving", "read lock"} /\ ~th'[t].locked
      BY <1>3, ResolveSets, Zenon
    <3>4. Message(th'[t], th[t]) /\ th'[t].pc \in {"fill", "resolving", "read lock"}
      BY <1>3, ResolveSets, Zenon
    <3> QED
      BY <1>0, <3>1, <3>2, <3>3, <3>4, Nones, Zenon
         DEF LockInv, Reader, Writer, Filling, Updater, Message
  <2>2. reading \ {t} \subseteq reading' /\ Kept(t)
    BY <1>3, ResolveSets, Zenon
  <2> QED
    BY <1>0, <2>1, <2>2, ReaderLocks
<1>4. CASE Return(t)
  <2>1. reading' = reading \ {t}
    BY <1>4 DEF Return
  <2>2. LockInv(t)'
    BY <1>0, <1>4, <2>1, ReturnSets, Zenon DEF LockInv, Reader, Writer, Filling, Updater
  <2> QED
    BY <1>0, <1>4, <2>1, <2>2, ReturnSets, ReaderLocks
<1> QED
  BY <1>1, <1>2, <1>3, <1>4 DEF LookUp

LEMMA FillLocks ==
    ASSUME IInv, NEW t \in Threads, Fill(t) \/ Collection(t)
    PROVE  Locks'
<1>0. LockInv(t) /\ UNCHANGED <<methods, before, reading, writing>>
  BY Zenon
     DEF IInv, Locks, Fill, FillLock, StoreMask, StoreImp, StoreKey, Collection, CheckThread, FreeGarbage
<1>1. CASE FillLock(t)
  <2>1. LockInv(t)'
    BY <1>0, <1>1, FillLockSets, Zenon DEF LockInv, Reader, Writer, Filling, Updater, Message, Flags
  <2> QED
    BY <1>0, <1>1, <2>1, FillLockSets, SameLocks, Zenon
<1>2. CASE StoreMask(t)
  <2>1. updating' = updating
    BY <1>2, Zenon DEF StoreMask
  <2>2. LockInv(t)'
    BY <1>0, <1>2, <2>1, StoreMaskSets, Zenon
       DEF LockInv, Reader, Writer, Filling, Updater, Message, Flags
  <2> QED
    BY <1>0, <1>2, <2>1, <2>2, StoreMaskSets, SameLocks, Zenon
<1>3. CASE StoreImp(t)
  <2>1. updating' = updating
    BY <1>3, Zenon DEF StoreImp
  <2>2. LockInv(t)'
    BY <1>0, <1>3, <2>1, StoreImpSets, Zenon
       DEF LockInv, Reader, Writer, Filling, Updater, Message, Flags
  <2> QED
    BY <1>0, <1>3, <2>1, <2>2, StoreImpSets, SameLocks, Zenon
<1>4. CASE StoreKey(t)
  <2>1. updating' = NoThread /\ updating = t
    BY <1>0, <1>4, StoreKeySets, Zenon DEF StoreKey, LockInv, Updater
  <2>2. LockInv(t)'
    BY <1>0, <1>4, <2>1, StoreKeySets, Zenon
       DEF LockInv, Reader, Writer, Filling, Updater, Message, Flags
  <2> QED
    BY <1>0, <1>4, <2>1, <2>2, StoreKeySets, SameLocks
<1>5. CASE CheckThread(t)
  <2>1. updating' = updating
    BY <1>5 DEF CheckThread
  <2>2. LockInv(t)'
    BY <1>0, <1>5, <2>1, CheckThreadSets, Zenon
       DEF LockInv, Reader, Writer, Filling, Updater, Message, Flags
  <2> QED
    BY <1>0, <1>5, <2>1, <2>2, CheckThreadSets, SameLocks
<1>6. CASE FreeGarbage(t)
  <2>1. updating' = updating
    BY <1>6 DEF FreeGarbage
  <2>2. LockInv(t)'
    BY <1>0, <1>6, <2>1, FreeGarbageSets, Zenon
       DEF LockInv, Reader, Writer, Filling, Updater, Message, Flags
  <2> QED
    BY <1>0, <1>6, <2>1, <2>2, FreeGarbageSets, SameLocks
<1> QED
  BY <1>1, <1>2, <1>3, <1>4, <1>5, <1>6 DEF Fill, Collection

LEMMA ChangeLocks ==
    ASSUME IInv, NEW t \in Threads, Change(t)
    PROVE  Locks'
<1>0. LockInv(t) /\ t # NoThread
  BY MethodCacheAssumption DEF IInv, Locks
<1>1. ASSUME NEW m \in Classes \X Sels, Alter(t, m), Alterer(t)
      PROVE  Locks'
  <2>1. writing = NoThread /\ reading = {} /\ writing' = t /\ reading' = reading /\ updating' = updating
    BY <1>1 DEF Alter
  <2>2. ASSUME NEW u \in Threads, u # t PROVE LockInv(u)'
    <3>1. LockInv(u)
      BY DEF IInv, Locks
    <3>2. ~th[u].locked /\ ~Writer(th[u])
      BY <2>1, <3>1, MethodCacheAssumption, Zenon DEF LockInv
    <3>3. LET r == th[u]
              q == th'[u]
          IN /\ q.pc = r.pc /\ q.back = r.back /\ q.cls = r.cls /\ q.sel = r.sel /\ q.cur = r.cur
             /\ q.locked = r.locked /\ q.tried = r.tried /\ (q.valid # {} => r.valid # {})
      <4>1. AlterSets(t, m)
        BY <1>1, AltersSets
      <4>2. th'[u].valid # {} => th[u].valid # {}
        BY <4>1 DEF AlterSets
      <4> QED
        BY <2>2, <4>1, <4>2 DEF AlterSets, Flags
    <3> QED
      BY <2>1, <2>2, <3>1, <3>2, <3>3, Zenon DEF LockInv, Reader, Writer, Filling, Updater
  <2>3. LockInv(t)'
    <3>1. LET r == th[t]
              q == th'[t]
          IN /\ q.pc = "flush" /\ q.cls = r.cls /\ q.sel = r.sel
             /\ q.locked = r.locked /\ q.tried = r.tried /\ (q.valid # {} => r.valid # {})
      BY <1>1, AltersSets DEF AlterSets, Flags
    <3>2. ~th[t].locked
      BY <1>0, <2>1, Zenon DEF LockInv
    <3> QED
      BY <1>0, <2>1, <3>1, <3>2, Zenon DEF LockInv, Reader, Writer, Filling, Updater
  <2>4. writing' # NoThread
    BY <1>0, <2>1
  <2> QED
    BY <2>2, <2>3, <2>4 DEF Locks
<1>2. CASE Replace(t) \/ AddMethod(t)
  <2>1. CASE \E m \in Classes \X Sels : Alter(t, m) /\ Alterer(t)
    BY <1>1, <2>1
  <2>2. CASE /\ th'[t] = [th[t] EXCEPT !.pc = "read lock"]
             /\ th[t].pc = "resolving" /\ Kept(t)
             /\ UNCHANGED <<methods, before, cache, buf, garbage, reading, writing, updating>>
    <3>1. LockInv(t)'
      BY <1>0, <2>2, NothingToAdd, Zenon
         DEF LockInv, Reader, Writer, Filling, Updater, Message, Flags
    <3> QED
      BY <2>2, <3>1, SameLocks, Zenon
  <2> QED
    BY <1>2, <2>1, <2>2, Alters, Zenon
<1>3. CASE FlushLock(t)
  <2>1. updating' = t /\ updating = NoThread /\ UNCHANGED <<methods, before, reading, writing>>
    BY <1>3 DEF FlushLock
  <2>2. LockInv(t)'
    BY <1>0, <1>3, <2>1, FlushLockSets, Zenon
       DEF LockInv, Reader, Writer, Filling, Updater, Message, Flags
  <2> QED
    BY <1>3, <2>1, <2>2, FlushLockSets, SameLocks
<1>4. CASE Erase(t)
  <2>1. updating' = updating /\ UNCHANGED <<methods, before, reading, writing>>
    BY <1>4 DEF Erase
  <2>2. LockInv(t)'
    BY <1>0, <1>4, <2>1, EraseSets, Zenon
       DEF LockInv, Reader, Writer, Filling, Updater, Message, Flags
  <2> QED
    BY <1>4, <2>1, <2>2, EraseSets, SameLocks
<1>5. CASE Flushed(t)
  <2>1. /\ updating' = NoThread /\ writing' = NoThread /\ before' = methods
        /\ UNCHANGED <<methods, reading>>
    BY <1>5, Zenon DEF Flushed
  <2>2. LockInv(t)'
    BY <1>0, <1>5, <2>1, FlushedSets, Zenon
       DEF LockInv, Reader, Writer, Filling, Updater, Message, Flags
  <2>3. writing = t
    BY <1>0, <1>5, FlushedSets, Zenon DEF LockInv, Writer
  <2>4. \A u \in Threads \ {t} : LockInv(u)'
    <3>1. Kept(t) /\ updating = t
      BY <1>0, <1>5, FlushedSets, Zenon DEF LockInv, Updater
    <3> SUFFICES ASSUME NEW u \in Threads \ {t} PROVE LockInv(u)'
      OBVIOUS
    <3>2. th'[u] = th[u] /\ writing' # u /\ writing # u
      BY <2>1, <2>3, <3>1, Nones DEF Kept
    <3> QED
      BY <2>1, <3>1, <3>2, OthersLocked
  <2> QED
    BY <2>1, <2>2, <2>4 DEF Locks
<1> QED
  BY <1>2, <1>3, <1>4, <1>5 DEF Change

LEMMA NextLocks == IInv /\ Next => Locks'
BY ReadLocks, LookUpLocks, FillLocks, ChangeLocks DEF Next
-----------------------------------------------------------------------------
\* Types.

\* A write of bucket i of array b changes nothing else.
Wrote(b, i, e) ==
    /\ buf' = [d \in Buffers |-> buf'[d]]
    /\ \A d \in Buffers \ {b} : buf'[d] = buf[d]
    /\ Array(buf'[b]) /\ buf'[b] # Freed /\ buf'[b].cap = buf[b].cap
    /\ buf'[b].slot[i] = e
    /\ \A j \in 0..buf[b].cap - 1 : j # i => buf'[b].slot[j] = buf[b].slot[j]

LEMMA SlotWritten ==
    ASSUME IInv, NEW b \in Buffers, buf[b] # Freed, NEW i \in 0..buf[b].cap - 1, NEW e \in Bucket,
           buf' = [buf EXCEPT ![b] = [cap |-> buf[b].cap, slot |-> [buf[b].slot EXCEPT ![i] = e]]]
    PROVE  Wrote(b, i, e)
<1>1. buf = [d \in Buffers |-> buf[d]]
  BY DEF IInv, TypeOK
<1>2. Array(buf[b])
  BY ArrayTyped
<1> DEFINE s == [buf[b].slot EXCEPT ![i] = e]
<1>3. /\ s \in [0..buf[b].cap - 1 -> Bucket] /\ s[i] = e
      /\ \A j \in 0..buf[b].cap - 1 : j # i => s[j] = buf[b].slot[j]
  BY <1>2 DEF Array
<1> HIDE DEF s
<1>4. buf' = [d \in Buffers |-> IF d = b THEN [cap |-> buf[b].cap, slot |-> s] ELSE buf[d]]
  BY <1>1 DEF s
<1>5. buf'[b] = [cap |-> buf[b].cap, slot |-> s] /\ \A d \in Buffers \ {b} : buf'[d] = buf[d]
  BY <1>4
<1>6. buf'[b].cap = buf[b].cap /\ buf'[b].slot = s
  BY <1>5
<1>7. buf[b].cap \in Nat /\ buf[b].cap # 0
  BY <1>2 DEF Array
<1>8. Array(buf'[b])
  BY <1>3, <1>5, <1>6, <1>7 DEF Array
<1>9. buf'[b] # Freed
  BY <1>6, <1>7 DEF Freed
<1>10. buf' = [d \in Buffers |-> buf'[d]]
  BY <1>4
<1> QED
  BY <1>3, <1>5, <1>6, <1>8, <1>9, <1>10 DEF Wrote

LEMMA ImpWritten ==
    ASSUME IInv, NEW b \in Buffers, buf[b] # Freed, NEW i \in 0..buf[b].cap - 1, NEW x \in Imps,
           buf' = [buf EXCEPT ![b].slot[i].imp = x]
    PROVE  Wrote(b, i, [key |-> buf[b].slot[i].key, imp |-> x])
<1>1. Array(buf[b]) /\ buf[b].slot[i] \in Bucket
  BY ArrayTyped, BucketTyped
<1> DEFINE e == [key |-> buf[b].slot[i].key, imp |-> x]
<1>2. e = [buf[b].slot[i] EXCEPT !.imp = x]
  BY <1>1 DEF Bucket
<1>3. e \in Bucket
  BY <1>1 DEF Bucket
<1> HIDE DEF e
<1>4. buf[b] = [cap |-> buf[b].cap, slot |-> buf[b].slot]
  BY <1>1 DEF Array
<1>5. [buf[b] EXCEPT !.slot[i].imp = x] = [cap |-> buf[b].cap, slot |-> [buf[b].slot EXCEPT ![i] = e]]
  <2>1. [buf[b] EXCEPT !.slot[i].imp = x] = [buf[b] EXCEPT !.slot = [buf[b].slot EXCEPT ![i] = e]]
    BY <1>2
  <2> QED
    BY <1>4, <2>1
<1>6. buf' = [buf EXCEPT ![b] = [cap |-> buf[b].cap, slot |-> [buf[b].slot EXCEPT ![i] = e]]]
  BY <1>5
<1>7. Wrote(b, i, e)
  BY <1>3, <1>6, SlotWritten
<1> QED
  BY <1>7 DEF e

LEMMA KeyWritten ==
    ASSUME IInv, NEW b \in Buffers, buf[b] # Freed, NEW i \in 0..buf[b].cap - 1, NEW x \in Sels,
           buf' = [buf EXCEPT ![b].slot[i].key = x]
    PROVE  Wrote(b, i, [key |-> x, imp |-> buf[b].slot[i].imp])
<1>1. Array(buf[b]) /\ buf[b].slot[i] \in Bucket
  BY ArrayTyped, BucketTyped
<1> DEFINE e == [key |-> x, imp |-> buf[b].slot[i].imp]
<1>2. e = [buf[b].slot[i] EXCEPT !.key = x]
  BY <1>1 DEF Bucket
<1>3. e \in Bucket
  BY <1>1 DEF Bucket
<1> HIDE DEF e
<1>4. buf[b] = [cap |-> buf[b].cap, slot |-> buf[b].slot]
  BY <1>1 DEF Array
<1>5. [buf[b] EXCEPT !.slot[i].key = x] = [cap |-> buf[b].cap, slot |-> [buf[b].slot EXCEPT ![i] = e]]
  <2>1. [buf[b] EXCEPT !.slot[i].key = x] = [buf[b] EXCEPT !.slot = [buf[b].slot EXCEPT ![i] = e]]
    BY <1>2
  <2> QED
    BY <1>4, <2>1
<1>6. buf' = [buf EXCEPT ![b] = [cap |-> buf[b].cap, slot |-> [buf[b].slot EXCEPT ![i] = e]]]
  BY <1>5
<1>7. Wrote(b, i, e)
  BY <1>3, <1>6, SlotWritten, Zenon
<1> QED
  BY <1>7 DEF e

\* What StoreImp and StoreKey write.
LEMMA StoreImpWrites ==
    ASSUME IInv, NEW t \in Threads, StoreImp(t)
    PROVE  LET b == cache[th[t].cls].buckets
               i == th'[t].index
           IN Wrote(b, i, [key |-> buf[b].slot[i].key, imp |-> th[t].imp])
<1>1. /\ cache[th[t].cls].buckets \in Buffers /\ buf[cache[th[t].cls].buckets] # Freed
  BY StoreImpSets, FillerHolds, Zenon DEF Filling
<1>2. th[t].imp \in Imps
  BY ThreadTyped DEF IInv, Locals
<1>3. /\ th'[t].index \in 0..buf[cache[th[t].cls].buckets].cap - 1
      /\ buf' = [buf EXCEPT ![cache[th[t].cls].buckets].slot[th'[t].index].imp = th[t].imp]
  BY StoreImpSets, Zenon
<1> QED
  BY <1>1, <1>2, <1>3, ImpWritten, Zenon

LEMMA StoreKeyWrites ==
    ASSUME IInv, NEW t \in Threads, StoreKey(t)
    PROVE  LET b == cache[th[t].cls].buckets
               i == th[t].index
           IN /\ i \in 0..buf[b].cap - 1 /\ buf[b].slot[i].imp = th[t].imp
              /\ Wrote(b, i, [key |-> th[t].sel, imp |-> th[t].imp])
<1>1. /\ cache[th[t].cls].buckets \in Buffers /\ buf[cache[th[t].cls].buckets] # Freed
      /\ th[t].sel \in Sels
  BY StoreKeySets, FillerHolds, Zenon DEF Filling
<1>2. th[t].pc = "key" /\ SearchInv(t)
  BY StoreKeySets DEF IInv, Entries
<1>3. /\ th[t].index \in 0..buf[cache[th[t].cls].buckets].cap - 1
      /\ buf[cache[th[t].cls].buckets].slot[th[t].index].imp = th[t].imp
  BY <1>2 DEF SearchInv, KeyInv
<1>4. buf' = [buf EXCEPT ![cache[th[t].cls].buckets].slot[th[t].index].key = th[t].sel]
  BY Zenon DEF StoreKey
<1>5. Wrote(cache[th[t].cls].buckets, th[t].index,
            [key |-> th[t].sel, imp |-> buf[cache[th[t].cls].buckets].slot[th[t].index].imp])
  BY <1>1, <1>3, <1>4, KeyWritten, Zenon
<1> QED
  BY <1>3, <1>5

LEMMA NewTyped ==
    ASSUME NEW n \in Nat, n >= 4
    PROVE  /\ Array(NewBuckets(n)) /\ NewBuckets(n) # Freed /\ NewBuckets(n).cap = n
           /\ \A i \in 0..n - 1 : NewBuckets(n).slot[i] = Unused
<1>1. Unused \in Bucket
  BY DEF Unused, Bucket, NoImp, Imps
<1>2. NewBuckets(n).cap = n /\ NewBuckets(n).slot = [i \in 0..n - 1 |-> Unused]
  BY DEF NewBuckets
<1>3. Array(NewBuckets(n))
  BY <1>1, <1>2 DEF NewBuckets, Array
<1> QED
  BY <1>2, <1>3 DEF Freed

LEMMA MovesTyped ==
    ASSUME IInv, NEW t \in Threads, Read(t) \/ LookUp(t) \/ Fill(t) \/ Collection(t) \/ Change(t)
    PROVE  th' \in [Threads -> Locals]
<1>0. TypeOK /\ Locks
  BY DEF IInv
<1>1. CASE Read(t)
  BY <1>0, <1>1, SendMoves, LoadBucketsMoves, ScanKeysMoves, LoadImpMoves, Zenon DEF Read
<1>2. CASE LookUp(t)
  BY <1>0, <1>2, ReadLockMoves, SearchListMoves, ResolveMoves, ReturnMoves, Zenon DEF LookUp
<1>3. CASE Fill(t)
  BY <1>3, FillLockMoves, StoreMaskMoves, StoreImpMoves, StoreKeyMoves, Zenon DEF Fill
<1>4. CASE Collection(t)
  BY <1>4, CheckThreadMoves, FreeGarbageMoves, Zenon DEF Collection
<1>5. CASE Change(t)
  <2>1. CASE Replace(t) \/ AddMethod(t)
    <3>1. ASSUME NEW m \in Classes \X Sels, Alter(t, m)
          PROVE  th' \in [Threads -> Locals]
      BY <3>1, AlterMoves
    <3> QED
      BY <2>1, <3>1, Alters, Zenon
  <2> QED
    BY <1>5, <2>1, FlushLockMoves, EraseMoves, FlushedMoves, Zenon DEF Change
<1> QED
  BY <1>1, <1>2, <1>3, <1>4, <1>5

\* The steps that leave every array and every cache alone.
Quiet(t) == Read(t) \/ LookUp(t) \/ CheckThread(t) \/ Replace(t) \/ AddMethod(t) \/ FlushLock(t) \/ Flushed(t)

LEMMA QuietKeeps ==
    ASSUME NEW t \in Threads, Quiet(t)
    PROVE  UNCHANGED <<cache, buf, garbage>>
BY Zenon
   DEF Quiet, Read, Send, LoadBuckets, ScanKeys, LoadImp, LookUp, ReadLock, SearchList, Resolve, Return,
       CheckThread, Replace, AddMethod, Alter, FlushLock, Flushed

LEMMA LocksTyped ==
    ASSUME IInv, NEW t \in Threads, Read(t) \/ LookUp(t) \/ Fill(t) \/ Collection(t) \/ Change(t)
    PROVE  /\ methods' \in [Classes \X Sels -> Nat] /\ before' \in [Classes \X Sels -> Nat]
           /\ reading' \subseteq Threads
           /\ writing' \in Threads \cup {NoThread} /\ updating' \in Threads \cup {NoThread}
<1>0. /\ methods \in [Classes \X Sels -> Nat] /\ before \in [Classes \X Sels -> Nat]
      /\ reading \subseteq Threads
      /\ writing \in Threads \cup {NoThread} /\ updating \in Threads \cup {NoThread}
  BY DEF IInv, TypeOK
<1>1. CASE Read(t)
  BY <1>0, <1>1, Zenon DEF Read, Send, LoadBuckets, ScanKeys, LoadImp
<1>2. CASE LookUp(t)
  BY <1>0, <1>2, Zenon DEF LookUp, ReadLock, SearchList, Resolve, Return
<1>3. CASE Fill(t) \/ Collection(t)
  BY <1>0, <1>3, Zenon
     DEF Fill, FillLock, StoreMask, StoreImp, StoreKey, Collection, CheckThread, FreeGarbage
<1>4. CASE Change(t)
  <2>1. ASSUME NEW m \in Classes \X Sels, Alter(t, m)
        PROVE  /\ methods' \in [Classes \X Sels -> Nat] /\ before' = before
               /\ reading' = reading /\ writing' = t /\ updating' = updating
    BY <2>1, AlterMoves DEF Alter
  <2>2. CASE Replace(t) \/ AddMethod(t)
    BY <1>0, <2>1, <2>2, Alters, Zenon
  <2>3. CASE FlushLock(t) \/ Erase(t) \/ Flushed(t)
    BY <1>0, <2>3, Zenon DEF FlushLock, Erase, Flushed
  <2> QED
    BY <1>4, <2>2, <2>3 DEF Change
<1> QED
  BY <1>1, <1>2, <1>3, <1>4

LEMMA CachesTyped ==
    ASSUME TypeOK, NEW c \in Classes, NEW k, cache' = [cache EXCEPT ![c] = k],
           k \in [buckets : Buffers \cup {EmptyCache}, mask : Nat, occupied : Nat]
    PROVE  /\ cache' \in [Classes -> [buckets : Buffers \cup {EmptyCache}, mask : Nat, occupied : Nat]]
           /\ cache'[c] = k /\ \A d \in Classes \ {c} : cache'[d] = cache[d]
BY DEF TypeOK

\* A cache that changes, field by field.
LEMMA CacheSets ==
    ASSUME TypeOK, NEW c \in Classes
    PROVE  /\ \A b \in Buffers : cache' = [cache EXCEPT ![c].buckets = b] =>
                /\ cache'[c].buckets = b /\ cache'[c].mask = cache[c].mask
                /\ cache'[c].occupied = cache[c].occupied
           /\ \A n \in Nat : cache' = [cache EXCEPT ![c].mask = n, ![c].occupied = 0] =>
                /\ cache'[c].buckets = cache[c].buckets /\ cache'[c].mask = n /\ cache'[c].occupied = 0
           /\ cache' = [cache EXCEPT ![c].occupied = @ + 1] =>
                /\ cache'[c].buckets = cache[c].buckets /\ cache'[c].mask = cache[c].mask
                /\ cache'[c].occupied = cache[c].occupied + 1
           /\ cache' = [cache EXCEPT ![c].buckets = EmptyCache, ![c].occupied = 0] =>
                /\ cache'[c].buckets = EmptyCache /\ cache'[c].mask = cache[c].mask
                /\ cache'[c].occupied = 0
BY DEF TypeOK

\* Cache c changes, to what is of its type, and no other.
OneCache(c) ==
    /\ cache' \in [Classes -> [buckets : Buffers \cup {EmptyCache}, mask : Nat, occupied : Nat]]
    /\ \A d \in Classes \ {c} : cache'[d] = cache[d]

LEMMA CacheMoves ==
    ASSUME TypeOK, NEW c \in Classes,
           \/ \E b \in Buffers : cache' = [cache EXCEPT ![c].buckets = b]
           \/ \E n \in Nat : cache' = [cache EXCEPT ![c].mask = n, ![c].occupied = 0]
           \/ cache' = [cache EXCEPT ![c].occupied = @ + 1]
           \/ cache' = [cache EXCEPT ![c].buckets = EmptyCache, ![c].occupied = 0]
    PROVE  OneCache(c)
<1>1. cache[c] \in [buckets : Buffers \cup {EmptyCache}, mask : Nat, occupied : Nat]
  BY CacheTyped
<1>2. ASSUME NEW b \in Buffers, cache' = [cache EXCEPT ![c].buckets = b]
      PROVE  OneCache(c)
  <2>1. [cache[c] EXCEPT !.buckets = b] \in [buckets : Buffers \cup {EmptyCache}, mask : Nat, occupied : Nat]
    BY <1>1
  <2>2. cache' = [cache EXCEPT ![c] = [cache[c] EXCEPT !.buckets = b]]
    BY <1>2
  <2> QED
    BY <2>1, <2>2, CachesTyped DEF OneCache
<1>3. ASSUME NEW n \in Nat, cache' = [cache EXCEPT ![c].mask = n, ![c].occupied = 0]
      PROVE  OneCache(c)
  <2>1. [cache[c] EXCEPT !.mask = n, !.occupied = 0]
          \in [buckets : Buffers \cup {EmptyCache}, mask : Nat, occupied : Nat]
    BY <1>1
  <2>2. cache' = [cache EXCEPT ![c] = [cache[c] EXCEPT !.mask = n, !.occupied = 0]]
    BY <1>3
  <2> QED
    BY <2>1, <2>2, CachesTyped DEF OneCache
<1>4. CASE cache' = [cache EXCEPT ![c].occupied = @ + 1]
  <2>1. [cache[c] EXCEPT !.occupied = @ + 1] \in [buckets : Buffers \cup {EmptyCache}, mask : Nat, occupied : Nat]
    BY <1>1
  <2>2. cache' = [cache EXCEPT ![c] = [cache[c] EXCEPT !.occupied = @ + 1]]
    BY <1>4
  <2> QED
    BY <2>1, <2>2, CachesTyped DEF OneCache
<1>5. CASE cache' = [cache EXCEPT ![c].buckets = EmptyCache, ![c].occupied = 0]
  <2>1. [cache[c] EXCEPT !.buckets = EmptyCache, !.occupied = 0]
          \in [buckets : Buffers \cup {EmptyCache}, mask : Nat, occupied : Nat]
    BY <1>1
  <2>2. cache' = [cache EXCEPT ![c] = [cache[c] EXCEPT !.buckets = EmptyCache, !.occupied = 0]]
    BY <1>5
  <2> QED
    BY <2>1, <2>2, CachesTyped DEF OneCache
<1> QED
  BY <1>2, <1>3, <1>4, <1>5
-----------------------------------------------------------------------------
\* What each step that is not quiet does to the caches and the arrays.

\* Cache c gets the array b, of n buckets.
NewArray(c, b, n) ==
    /\ buf[b] = Freed /\ n >= 4 /\ n >= cache[c].mask + 1
    /\ buf' = [d \in Buffers |-> buf'[d]]
    /\ \A d \in Buffers \ {b} : buf'[d] = buf[d]
    /\ Array(buf'[b]) /\ buf'[b] # Freed /\ buf'[b].cap = n
    /\ \A i \in 0..n - 1 : buf'[b].slot[i] = Unused
    /\ OneCache(c)
    /\ cache'[c].buckets = b /\ cache'[c].mask = cache[c].mask /\ cache'[c].occupied = cache[c].occupied

LEMMA FillLockStep ==
    ASSUME IInv, NEW t \in Threads, FillLock(t)
    PROVE  LET r == th[t]
               q == th'[t]
               c == r.cls
           IN /\ c \in Classes /\ Kept(t) /\ r.pc = "fill" /\ updating = NoThread /\ garbage' = garbage
              /\ \/ q.pc \in {"return", "insert"} /\ UNCHANGED <<cache, buf>>
                 \/ /\ q.pc = "new mask" /\ q.old = cache[c].buckets
                    /\ \E b \in Buffers, n \in Nat : NewArray(c, b, n)
<1> DEFINE c == th[t].cls
           q == th'[t]
<1>1. c \in Classes /\ Kept(t) /\ th[t].pc = "fill" /\ updating = NoThread /\ garbage' = garbage /\ TypeOK
  BY FillLockSets, Zenon DEF FillLock, IInv
<1>2. CASE q.pc \in {"return", "insert"} /\ UNCHANGED <<cache, buf>>
  BY <1>1, <1>2, Zenon
<1>3. ASSUME NEW b \in Buffers, NEW n \in Nat,
             buf[b] = Freed /\ n >= 4 /\ n >= cache[c].mask + 1,
             buf' = [buf EXCEPT ![b] = NewBuckets(n)],
             cache' = [cache EXCEPT ![c].buckets = b]
      PROVE  NewArray(c, b, n)
  <2>1. buf = [d \in Buffers |-> buf[d]]
    BY <1>1 DEF TypeOK
  <2>2. buf'[b] = NewBuckets(n) /\ (\A d \in Buffers \ {b} : buf'[d] = buf[d])
        /\ buf' = [d \in Buffers |-> buf'[d]]
    BY <1>3, <2>1
  <2>3. Array(buf'[b]) /\ buf'[b] # Freed /\ buf'[b].cap = n /\ \A i \in 0..n - 1 : buf'[b].slot[i] = Unused
    BY <1>3, <2>2, NewTyped
  <2>4. OneCache(c)
    BY <1>1, <1>3, CacheMoves
  <2>5. cache'[c].buckets = b /\ cache'[c].mask = cache[c].mask /\ cache'[c].occupied = cache[c].occupied
    BY <1>1, <1>3, CacheSets
  <2> QED
    BY <1>3, <2>2, <2>3, <2>4, <2>5 DEF NewArray
<1> HIDE DEF c, q
<1>4. \/ q.pc \in {"return", "insert"} /\ UNCHANGED <<cache, buf>>
      \/ /\ q.pc = "new mask" /\ q.old = cache[c].buckets
         /\ \E b \in Buffers, n \in Nat :
               /\ buf[b] = Freed /\ n >= 4 /\ n >= cache[c].mask + 1
               /\ buf' = [buf EXCEPT ![b] = NewBuckets(n)]
               /\ cache' = [cache EXCEPT ![c].buckets = b]
  BY FillLockSets, Zenon DEF c, q
<1>5. CASE q.pc = "new mask" /\ q.old = cache[c].buckets /\ \E b \in Buffers, n \in Nat : NewArray(c, b, n)
  BY <1>1, <1>5, Zenon DEF c, q
<1> QED
  BY <1>2, <1>3, <1>4, <1>5, Zenon DEF c, q

LEMMA StoreMaskStep ==
    ASSUME IInv, NEW t \in Threads, StoreMask(t)
    PROVE  LET c == th[t].cls
           IN /\ c \in Classes /\ buf' = buf
              /\ OneCache(c)
              /\ cache'[c].buckets = cache[c].buckets /\ cache'[c].mask = buf[cache[c].buckets].cap - 1
              /\ cache'[c].occupied = 0
              /\ cache'[c].mask >= cache[c].mask /\ cache'[c].mask >= 3
              /\ cache'[c].mask + 1 = buf[cache[c].buckets].cap
<1> DEFINE c == th[t].cls
           n == buf[cache[c].buckets].cap - 1
<1>1. c \in Classes /\ cache[c].buckets \in Buffers /\ buf[cache[c].buckets] # Freed
      /\ cache[c].buckets # EmptyCache /\ cache[c].mask \in Nat
  BY StoreMaskSets, FillerHolds, Zenon DEF Filling
<1>2. buf[cache[c].buckets].cap >= 4 /\ cache[c].mask + 1 <= buf[cache[c].buckets].cap
  BY <1>1, Zenon DEF IInv, Arrays, CacheInv
<1>3. buf[cache[c].buckets].cap \in Nat
  BY <1>1, ArrayTyped
<1>4. n \in Nat /\ n >= cache[c].mask /\ n >= 3 /\ n + 1 = buf[cache[c].buckets].cap
  BY <1>1, <1>2, <1>3
<1>5. cache' = [cache EXCEPT ![c].mask = n, ![c].occupied = 0] /\ buf' = buf
  BY Zenon DEF StoreMask
<1> HIDE DEF n
<1>6. TypeOK
  BY DEF IInv
<1>7. OneCache(c)
  BY <1>1, <1>4, <1>5, <1>6, CacheMoves, Zenon
<1>8. cache'[c].buckets = cache[c].buckets /\ cache'[c].mask = n /\ cache'[c].occupied = 0
  BY <1>1, <1>4, <1>5, <1>6, CacheSets, Zenon
<1> QED
  BY <1>1, <1>4, <1>5, <1>7, <1>8, Zenon DEF n

LEMMA StoreImpStep ==
    ASSUME IInv, NEW t \in Threads, StoreImp(t)
    PROVE  LET c == th[t].cls
           IN /\ c \in Classes /\ garbage' = garbage
              /\ OneCache(c)
              /\ cache'[c].buckets = cache[c].buckets /\ cache'[c].mask = cache[c].mask
              /\ cache'[c].occupied = cache[c].occupied + 1
<1> DEFINE c == th[t].cls
<1>1. c \in Classes /\ cache' = [cache EXCEPT ![c].occupied = @ + 1] /\ TypeOK
  BY StoreImpSets, FillerHolds, Zenon DEF Filling, IInv
<1>2. OneCache(c)
  BY <1>1, CacheMoves
<1>3. /\ cache'[c].buckets = cache[c].buckets /\ cache'[c].mask = cache[c].mask
      /\ cache'[c].occupied = cache[c].occupied + 1
  BY <1>1, CacheSets
<1> QED
  BY <1>1, <1>2, <1>3, Zenon DEF StoreImp

\* The cache c is emptied.
Erased(c) ==
    /\ cache[c].occupied > 0 /\ cache[c].buckets \in Buffers
    /\ OneCache(c)
    /\ cache'[c].buckets = EmptyCache /\ cache'[c].mask = cache[c].mask /\ cache'[c].occupied = 0
    /\ garbage' = garbage \cup {cache[c].buckets}

LEMMA EraseStep ==
    ASSUME IInv, NEW t \in Threads, Erase(t)
    PROVE  \E c \in Classes :
             /\ c \in th[t].todo /\ th'[t].todo = th[t].todo \ {c} /\ buf' = buf
             /\ \/ Erased(c)
                \/ cache[c].occupied = 0 /\ th'[t].pc = "erase" /\ UNCHANGED <<cache, garbage>>
<1>1. PICK c \in th[t].todo :
         /\ c \in Classes
         /\ th'[t].todo = th[t].todo \ {c}
         /\ \/ /\ cache[c].occupied > 0 /\ cache[c].buckets \in Buffers
               /\ cache' = [cache EXCEPT ![c].buckets = EmptyCache, ![c].occupied = 0]
               /\ garbage' = garbage \cup {cache[c].buckets}
            \/ /\ cache[c].occupied = 0 /\ th'[t].pc = "erase"
               /\ UNCHANGED <<cache, garbage>>
  BY EraseSets
<1>2. buf' = buf /\ TypeOK
  BY DEF Erase, IInv
<1>3. CASE /\ cache[c].occupied > 0 /\ cache[c].buckets \in Buffers
           /\ cache' = [cache EXCEPT ![c].buckets = EmptyCache, ![c].occupied = 0]
           /\ garbage' = garbage \cup {cache[c].buckets}
  <2>1. OneCache(c)
    BY <1>1, <1>2, <1>3, CacheMoves
  <2>2. cache'[c].buckets = EmptyCache /\ cache'[c].mask = cache[c].mask /\ cache'[c].occupied = 0
    BY <1>1, <1>2, <1>3, CacheSets
  <2>3. Erased(c)
    BY <1>3, <2>1, <2>2 DEF Erased
  <2> QED
    BY <1>1, <1>2, <2>3
<1>4. CASE cache[c].occupied = 0 /\ th'[t].pc = "erase" /\ UNCHANGED <<cache, garbage>>
  BY <1>1, <1>2, <1>4
<1> QED
  BY <1>1, <1>3, <1>4

LEMMA FreeGarbageStep ==
    ASSUME IInv, NEW t \in Threads, FreeGarbage(t)
    PROVE  /\ cache' = cache /\ garbage' = {} /\ th[t].check = {}
           /\ buf' = [b \in Buffers |-> buf'[b]]
           /\ \A b \in Buffers : buf'[b] = IF b \in garbage THEN Freed ELSE buf[b]
BY DEF FreeGarbage

\* Arrays that are written are arrays.
LEMMA WroteTyped ==
    ASSUME TypeOK, NEW b \in Buffers, NEW i, NEW e, Wrote(b, i, e)
    PROVE  buf' = [d \in Buffers |-> buf'[d]] /\ \A d \in Buffers : buf'[d] = Freed \/ Array(buf'[d])
BY DEF TypeOK, Wrote

LEMMA ArraysTyped ==
    ASSUME IInv, NEW t \in Threads, Read(t) \/ LookUp(t) \/ Fill(t) \/ Collection(t) \/ Change(t)
    PROVE  /\ cache' \in [Classes -> [buckets : Buffers \cup {EmptyCache}, mask : Nat, occupied : Nat]]
           /\ buf' = [b \in Buffers |-> buf'[b]]
           /\ \A b \in Buffers : buf'[b] = Freed \/ Array(buf'[b])
           /\ garbage' \subseteq Buffers
<1>0. /\ TypeOK
      /\ cache \in [Classes -> [buckets : Buffers \cup {EmptyCache}, mask : Nat, occupied : Nat]]
      /\ buf = [b \in Buffers |-> buf[b]]
      /\ \A b \in Buffers : buf[b] = Freed \/ Array(buf[b])
      /\ garbage \subseteq Buffers
  BY DEF IInv, TypeOK
<1>1. CASE Quiet(t)
  <2>1. UNCHANGED <<cache, buf, garbage>>
    BY <1>1, QuietKeeps
  <2> QED
    BY <1>0, <2>1
<1>2. CASE FillLock(t)
  <2>1. CASE UNCHANGED <<cache, buf>>
    BY <1>0, <1>2, <2>1, Zenon DEF FillLock
  <2>2. ASSUME NEW c \in Classes, NEW b \in Buffers, NEW n \in Nat, NewArray(c, b, n)
        PROVE  /\ cache' \in [Classes -> [buckets : Buffers \cup {EmptyCache}, mask : Nat, occupied : Nat]]
               /\ buf' = [d \in Buffers |-> buf'[d]]
               /\ \A d \in Buffers : buf'[d] = Freed \/ Array(buf'[d])
    BY <1>0, <2>2 DEF NewArray, OneCache
  <2> QED
    BY <1>0, <1>2, <2>1, <2>2, FillLockStep, Zenon
<1>3. CASE StoreMask(t)
  <2>1. th[t].old \in Buffers \cup {EmptyCache}
    BY <1>0, ThreadTyped DEF Locals
  <2>2. garbage' \subseteq Buffers
    <3>1. garbage' = garbage \cup ({th[t].old} \ {EmptyCache})
      BY <1>3, StoreMaskSets, Zenon
    <3> QED
      BY <1>0, <2>1, <3>1
  <2>3. /\ cache' \in [Classes -> [buckets : Buffers \cup {EmptyCache}, mask : Nat, occupied : Nat]]
        /\ buf' = buf
    BY <1>3, StoreMaskStep DEF OneCache
  <2> QED
    BY <1>0, <2>2, <2>3
<1>4. CASE StoreImp(t)
  <2>1. cache[th[t].cls].buckets \in Buffers
    BY <1>4, StoreImpSets, FillerHolds, Zenon DEF Filling
  <2> QED
    BY <1>0, <1>4, <2>1, StoreImpStep, StoreImpWrites, WroteTyped, Zenon DEF OneCache
<1>5. CASE StoreKey(t)
  <2>1. cache[th[t].cls].buckets \in Buffers
    BY <1>5, StoreKeySets, FillerHolds, Zenon DEF Filling
  <2>2. cache' = cache /\ garbage' = garbage
    BY <1>5, Zenon DEF StoreKey
  <2> QED
    BY <1>0, <1>5, <2>1, <2>2, StoreKeyWrites, WroteTyped, Zenon
<1>6. CASE FreeGarbage(t)
  BY <1>0, <1>6, FreeGarbageStep
<1>7. CASE Erase(t)
  BY <1>0, <1>7, EraseStep DEF Erased, OneCache
<1> QED
  BY <1>1, <1>2, <1>3, <1>4, <1>5, <1>6, <1>7 DEF Quiet, Fill, Collection, Change

LEMMA NextTyped == IInv /\ Next => TypeOK'
BY MovesTyped, LocksTyped, ArraysTyped DEF TypeOK, Next
-----------------------------------------------------------------------------
\* Arrays in use.

LEMMA OnlyUpdater ==
    ASSUME IInv, NEW t \in Threads, updating \in {t, NoThread}, NEW u \in Threads \ {t}
    PROVE  ~Updater(th[u]) /\ ~Filling(th[u])
<1>1. LockInv(u) /\ u # NoThread
  BY Nones DEF IInv, Locks
<1>2. ~Updater(th[u])
  BY <1>1, Zenon DEF LockInv
<1> QED
  BY <1>2, Zenon DEF Updater, Filling

LEMMA UpdaterHolds ==
    ASSUME IInv, NEW t \in Threads, Updater(th[t])
    PROVE  updating = t
BY Zenon DEF IInv, Locks, LockInv

\* A thread that fills continues to, or does not begin to.
FillsOn(u) ==
    /\ Filling(th'[u]) <=> Filling(th[u])
    /\ Filling(th[u]) =>
         /\ th'[u].cls = th[u].cls /\ th'[u].old = th[u].old
         /\ th'[u].pc = th[u].pc \/ {th'[u].pc, th[u].pc} \subseteq {"insert", "collect"}

LEMMA KeptFills == ASSUME NEW u, th'[u] = th[u] PROVE FillsOn(u)
BY DEF FillsOn

LEMMA QuietFills ==
    ASSUME IInv, NEW t \in Threads, Quiet(t), NEW u \in Threads
    PROVE  FillsOn(u)
<1>1. CASE Kept(t)
  <2>1. CASE u # t
    BY <1>1, <2>1 DEF Kept, FillsOn
  <2>2. CASE u = t
    <3>1. CASE Read(t)
      <4>1. CASE Send(t)
        BY <2>2, <4>1, SendSets, Zenon DEF FillsOn, Filling
      <4>2. CASE LoadBuckets(t)
        BY <2>2, <4>2, LoadBucketsSets, Zenon DEF FillsOn, Filling
      <4>3. CASE ScanKeys(t)
        BY <2>2, <4>3, ScanKeysSets, Zenon DEF FillsOn, Filling
      <4>4. CASE LoadImp(t)
        BY <2>2, <4>4, LoadImpSets, Zenon DEF FillsOn, Filling
      <4> QED
        BY <3>1, <4>1, <4>2, <4>3, <4>4 DEF Read
    <3>2. CASE LookUp(t)
      <4>1. CASE ReadLock(t)
        BY <2>2, <4>1, ReadLockSets, Zenon DEF FillsOn, Filling
      <4>2. CASE SearchList(t)
        BY <2>2, <4>2, SearchListSets, Zenon DEF FillsOn, Filling
      <4>3. CASE Resolve(t)
        BY <2>2, <4>3, ResolveSets, Zenon DEF FillsOn, Filling
      <4>4. CASE Return(t)
        BY <2>2, <4>4, ReturnSets, Zenon DEF FillsOn, Filling
      <4> QED
        BY <3>2, <4>1, <4>2, <4>3, <4>4 DEF LookUp
    <3>3. CASE CheckThread(t)
      <4>1. th[t] \in Locals /\ LockInv(t)
        BY ThreadTyped DEF IInv, Locks
      <4>2. \/ \E v \in th[t].check : th'[t] = [th[t] EXCEPT !.pc = th[t].back, !.check = {}, !.back = "idle"]
            \/ \E v \in th[t].check : th'[t] = [th[t] EXCEPT !.check = @ \ {v}]
        BY <3>3, CheckThreadMoves, Zenon
      <4>3. th'[t].cls = th[t].cls /\ th'[t].old = th[t].old
        BY <4>1, <4>2 DEF Locals
      <4>4. th[t].pc = "collect" /\ (th'[t].pc = th[t].back \/ (th'[t].pc = "collect" /\ th'[t].back = th[t].back))
        BY <3>3, CheckThreadSets
      <4>5. th[t].back \in {"insert", "erase"}
        BY <4>1, <4>4 DEF LockInv
      <4> QED
        BY <2>2, <4>3, <4>4, <4>5, Zenon DEF FillsOn, Filling
    <3>4. CASE FlushLock(t) \/ Flushed(t)
      BY <2>2, <3>4, FlushLockSets, FlushedSets, Zenon DEF FillsOn, Filling
    <3>5. CASE Replace(t) \/ AddMethod(t)
      <4>1. CASE \E m \in Classes \X Sels : Alter(t, m) /\ Alterer(t)
        BY <2>2, <4>1, AltersSets, Zenon DEF AlterSets, FillsOn, Filling, Alterer
      <4>2. CASE th'[t] = [th[t] EXCEPT !.pc = "read lock"] /\ th[t].pc = "resolving"
        BY <2>2, <4>2, NothingToAdd, Zenon DEF FillsOn, Filling
      <4> QED
        BY <3>5, <4>1, <4>2, Alters, Zenon
    <3> QED
      BY <3>1, <3>2, <3>3, <3>4, <3>5 DEF Quiet
  <2> QED
    BY <2>1, <2>2
<1>2. ASSUME NEW m \in Classes \X Sels, Alter(t, m), Alterer(t)
      PROVE  FillsOn(u)
  <2>1. AlterSets(t, m)
    BY <1>2, AltersSets
  <2>2. /\ th'[u].cls = th[u].cls /\ th'[u].old = th[u].old /\ th'[u].back = th[u].back
        /\ IF u = t THEN th'[u].pc = "flush" ELSE th'[u].pc = th[u].pc
    BY <2>1 DEF AlterSets
  <2> QED
    BY <1>2, <2>2, Zenon DEF FillsOn, Filling, Alterer
<1>3. Kept(t) \/ \E m \in Classes \X Sels : Alter(t, m) /\ Alterer(t)
  <2>1. CASE Replace(t) \/ AddMethod(t)
    BY <2>1, Alters, Zenon
  <2>2. CASE Read(t)
    BY <2>2, SendSets, LoadBucketsSets, ScanKeysSets, LoadImpSets, Zenon DEF Read
  <2>3. CASE LookUp(t)
    BY <2>3, ReadLockSets, SearchListSets, ResolveSets, ReturnSets, Zenon DEF LookUp
  <2>4. CASE CheckThread(t) \/ FlushLock(t) \/ Flushed(t)
    BY <2>4, CheckThreadSets, FlushLockSets, FlushedSets, Zenon
  <2> QED
    BY <2>1, <2>2, <2>3, <2>4 DEF Quiet
<1> QED
  BY <1>1, <1>2, <1>3

LEMMA SameFills ==
    ASSUME \A u \in Threads : FillsOn(u), NEW c
    PROVE  /\ Fills(c, {"new mask"})' <=> Fills(c, {"new mask"})
           /\ Fills(c, {"key"})' <=> Fills(c, {"key"})
           /\ Fills(c, {"insert", "collect"})' <=> Fills(c, {"insert", "collect"})
<1>1. Fills(c, {"new mask"})' <=> Fills(c, {"new mask"})
  BY Zenon DEF FillsOn, Fills
<1>2. Fills(c, {"key"})' <=> Fills(c, {"key"})
  BY DEF FillsOn, Fills
<1>3. Fills(c, {"insert", "collect"})' <=> Fills(c, {"insert", "collect"})
  BY DEF FillsOn, Fills
<1> QED
  BY <1>1, <1>2, <1>3, Zenon

\* When only t may fill, before the step and after it.
LEMMA OneFills ==
    ASSUME IInv, NEW t \in Threads, Kept(t), updating \in {t, NoThread}, NEW c, NEW P
    PROVE  /\ Fills(c, P) <=> Filling(th[t]) /\ th[t].pc \in P /\ th[t].cls = c
           /\ Fills(c, P)' <=> Filling(th'[t]) /\ th'[t].pc \in P /\ th'[t].cls = c
<1>1. \A u \in Threads \ {t} : ~Filling(th[u]) /\ th'[u] = th[u]
  BY OnlyUpdater DEF Kept
<1> QED
  BY <1>1 DEF Fills

\* What thread u reads stays as it is.
LEMMA ReadKept ==
    ASSUME IInv, NEW u \in Threads,
           /\ th'[u].pc = th[u].pc /\ th'[u].buckets = th[u].buckets
           /\ th'[u].mask = th[u].mask /\ th'[u].cur = th[u].cur,
           \A c \in Classes : cache'[c].mask \in Nat /\ cache'[c].mask >= cache[c].mask,
           th[u].pc \in {"scan", "imp"} /\ th[u].buckets # EmptyCache /\ buf[th[u].buckets] # Freed =>
               buf'[th[u].buckets] # Freed /\ buf'[th[u].buckets].cap = buf[th[u].buckets].cap,
           th[u].pc \in {"scan", "imp"} /\ th[u].buckets \in garbage' =>
               \A v \in Threads : th'[v].pc = "collect" => u \in th'[v].check
    PROVE  ReadInv(u)'
<1>1. ReadInv(u) /\ th[u] \in Locals /\ (th[u].pc = "buckets" => th[u].cur \in Classes)
  BY ThreadTyped, Zenon DEF IInv, Arrays, Locks, LockInv, Reader
<1>2. th[u].pc = "buckets" => th[u].mask <= cache'[th[u].cur].mask
  <2> SUFFICES ASSUME th[u].pc = "buckets" PROVE th[u].mask <= cache'[th[u].cur].mask
    OBVIOUS
  <2>1. th[u].mask \in Nat /\ th[u].cur \in Classes /\ cache[th[u].cur].mask \in Nat
    BY <1>1, CacheTyped DEF Locals, IInv
  <2>2. th[u].mask <= cache[th[u].cur].mask
    BY <1>1 DEF ReadInv
  <2> QED
    BY <2>1, <2>2
<1> QED
  BY <1>1, <1>2 DEF ReadInv

\* A thread that no longer reads.
LEMMA ReadNot ==
    ASSUME NEW u \in Threads, ~Reader(th'[u])
    PROVE  ReadInv(u)'
BY DEF ReadInv, Reader

LEMMA SendReads ==
    ASSUME IInv, NEW t \in Threads, Read(t)
    PROVE  ReadInv(t)'
<1>0. ReadInv(t) /\ th[t] \in Locals /\ UNCHANGED <<cache, buf, garbage>>
  BY ThreadTyped, QuietKeeps DEF IInv, Arrays, Quiet
<1>1. CASE Send(t)
  <2>1. th'[t].pc = "buckets" /\ th'[t].cur \in Classes /\ th'[t].mask = cache[th'[t].cur].mask
    BY <1>1, SendSets
  <2>2. cache[th'[t].cur].mask \in Nat
    BY <2>1, CacheTyped DEF IInv
  <2> QED
    BY <1>0, <2>1, <2>2 DEF ReadInv
<1>2. CASE LoadBuckets(t)
  <2> DEFINE c == th[t].cur
             b == cache[c].buckets
  <2>1. /\ th'[t].pc = "scan" /\ th'[t].buckets = b /\ th'[t].mask = th[t].mask /\ th[t].pc = "buckets"
    BY <1>2, LoadBucketsSets
  <2>2. c \in Classes
    BY <2>1, Zenon DEF IInv, Locks, LockInv, Reader
  <2>3. th[t].mask \in Nat /\ th[t].mask <= cache[c].mask /\ cache[c].mask \in Nat
    BY <1>0, <2>1, <2>2, CacheTyped DEF ReadInv, Locals, IInv
  <2>4. CASE b = EmptyCache
    BY <2>1, <2>4 DEF ReadInv
  <2>5. CASE b # EmptyCache
    <3>1. buf[b] # Freed /\ b \notin garbage /\ cache[c].mask + 1 <= buf[b].cap /\ b \in Buffers
      BY <2>2, <2>5, CacheTyped, Zenon DEF IInv, Arrays, CacheInv
    <3>2. buf[b].cap \in Nat
      BY <3>1, ArrayTyped
    <3>3. th[t].mask + 1 <= buf[b].cap
      BY <2>3, <3>1, <3>2
    <3> HIDE DEF b
    <3> QED
      BY <1>0, <2>1, <3>1, <3>3 DEF ReadInv
  <2> QED
    BY <2>4, <2>5
<1>3. CASE ScanKeys(t)
  <2>1. CASE th'[t].buckets = EmptyCache /\ ~Reader(th'[t])
    BY <2>1, ReadNot
  <2>2. CASE th'[t].pc = "imp" /\ th[t].buckets # EmptyCache /\ th'[t].buckets = th[t].buckets
    <3>1. th'[t].mask = 0 /\ th[t].pc = "scan" /\ Kept(t)
      BY <1>3, ScanKeysSets, Zenon
    <3>2. /\ buf[th[t].buckets] # Freed /\ th[t].mask + 1 <= buf[th[t].buckets].cap
          /\ th[t].buckets \in garbage => \A v \in Threads : th[v].pc = "collect" => t \in th[v].check
      BY <1>0, <2>2, <3>1 DEF ReadInv
    <3>3. buf[th[t].buckets].cap \in Nat /\ th[t].mask \in Nat
      BY <1>0, <2>2, <3>2, ArrayTyped DEF Locals
    <3>4. 0 + 1 <= buf[th[t].buckets].cap
      BY <3>2, <3>3
    <3>5. \A v \in Threads : th'[v].pc = "collect" => v # t /\ th'[v] = th[v]
      BY <2>2, <3>1 DEF Kept
    <3> QED
      BY <1>0, <2>2, <3>1, <3>2, <3>4, <3>5 DEF ReadInv
  <2> QED
    BY <1>3, <2>1, <2>2, ScanKeysSets, Zenon DEF Reader
<1>4. CASE LoadImp(t)
  BY <1>4, LoadImpSets, ReadNot DEF Reader
<1> QED
  BY <1>1, <1>2, <1>3, <1>4 DEF Read

LEMMA LookUpReads ==
    ASSUME IInv, NEW t \in Threads, LookUp(t)
    PROVE  ReadInv(t)'
<1>0. UNCHANGED <<cache, buf, garbage>>
  BY QuietKeeps DEF Quiet
<1>1. ASSUME th'[t].pc = "buckets", th'[t].cur \in Classes, th'[t].mask = cache[th'[t].cur].mask
      PROVE  ReadInv(t)'
  <2>1. cache[th'[t].cur].mask \in Nat
    BY <1>1, CacheTyped DEF IInv
  <2> QED
    BY <1>0, <1>1, <2>1 DEF ReadInv
<1>2. CASE ReadLock(t)
  <2>1. th[t].cls \in Classes
    BY <1>2, ReadLockSets, Zenon DEF IInv, Locks, LockInv
  <2> QED
    BY <1>1, <1>2, <2>1, ReadLockSets, Zenon
<1>3. CASE SearchList(t)
  <2>1. CASE ~Reader(th'[t])
    BY <2>1, ReadNot
  <2>2. CASE Super[th[t].cur] \in Classes /\ th'[t].pc = "buckets" /\ th'[t].cur = Super[th[t].cur]
             /\ th'[t].mask = cache[Super[th[t].cur]].mask
    BY <1>1, <2>2
  <2> QED
    BY <1>3, <2>1, <2>2, SearchListSets DEF Reader
<1>4. CASE Resolve(t)
  BY <1>4, ResolveSets, ReadNot, Zenon DEF Reader
<1>5. CASE Return(t)
  BY <1>5, ReturnSets, ReadNot DEF Reader
<1> QED
  BY <1>2, <1>3, <1>4, <1>5 DEF LookUp

\* The others' reads, in a step that starts no collection.
LEMMA QuietReads ==
    ASSUME IInv, NEW t \in Threads, Kept(t), UNCHANGED <<cache, buf, garbage>>, ReadInv(t)',
           th'[t].pc # "collect"
    PROVE  \A u \in Threads : ReadInv(u)'
<1> SUFFICES ASSUME NEW u \in Threads \ {t} PROVE ReadInv(u)'
  OBVIOUS
<1>1. th'[u] = th[u]
  BY DEF Kept
<1>2. \A c \in Classes : cache'[c].mask \in Nat /\ cache'[c].mask >= cache[c].mask
  <2>1. \A c \in Classes : cache[c].mask \in Nat
    BY CacheTyped DEF IInv
  <2> QED
    BY <2>1
<1>3. ReadInv(u)
  BY DEF IInv, Arrays
<1>4. th[u].pc \in {"scan", "imp"} /\ th[u].buckets \in garbage =>
        \A v \in Threads : th'[v].pc = "collect" => u \in th'[v].check
  <2> SUFFICES ASSUME th[u].pc \in {"scan", "imp"}, th[u].buckets \in garbage,
                      NEW v \in Threads, th'[v].pc = "collect"
               PROVE  u \in th'[v].check
    OBVIOUS
  <2>1. v # t /\ th'[v] = th[v]
    BY DEF Kept
  <2>2. th[u].buckets # EmptyCache
    BY Distinct DEF IInv, TypeOK
  <2> QED
    BY <1>3, <2>1, <2>2 DEF ReadInv
<1> QED
  BY <1>1, <1>2, <1>4, ReadKept

\* The collector takes no thread off its list that reads.
LEMMA CheckThreadReads ==
    ASSUME IInv, NEW t \in Threads, CheckThread(t)
    PROVE  \A u \in Threads : ReadInv(u)'
<1>0. Kept(t) /\ th[t].pc = "collect" /\ UNCHANGED <<cache, buf, garbage>>
  BY CheckThreadSets, QuietKeeps DEF Quiet
<1>1. ReadInv(t)'
  <2>1. th'[t].pc \in {"collect", th[t].back}
    BY CheckThreadSets
  <2>2. th[t].back \in {"insert", "erase"}
    BY <1>0, Zenon DEF IInv, Locks, LockInv
  <2> QED
    BY <2>1, <2>2, ReadNot DEF Reader
<1>2. CASE th'[t].pc # "collect"
  BY <1>0, <1>1, <1>2, QuietReads
<1>3. ASSUME NEW w \in th[t].check, ~Reader(th[w]), th'[t].check = th[t].check \ {w}
      PROVE  \A u \in Threads : ReadInv(u)'
  <2> SUFFICES ASSUME NEW u \in Threads \ {t} PROVE ReadInv(u)'
    BY <1>1
  <2>1. th'[u] = th[u]
    BY <1>0 DEF Kept
  <2>2. \A c \in Classes : cache'[c].mask \in Nat /\ cache'[c].mask >= cache[c].mask
    <3>1. \A c \in Classes : cache[c].mask \in Nat
      BY CacheTyped DEF IInv
    <3> QED
      BY <1>0, <3>1
  <2>3. ReadInv(u)
    BY DEF IInv, Arrays
  <2>4. th[u].pc \in {"scan", "imp"} /\ th[u].buckets \in garbage =>
          \A v \in Threads : th'[v].pc = "collect" => u \in th'[v].check
    <3> SUFFICES ASSUME th[u].pc \in {"scan", "imp"}, th[u].buckets \in garbage,
                        NEW v \in Threads, th'[v].pc = "collect"
                 PROVE  u \in th'[v].check
      OBVIOUS
    <3>1. th[u].buckets # EmptyCache
      BY Distinct DEF IInv, TypeOK
    <3>2. \A x \in Threads : th[x].pc = "collect" => u \in th[x].check
      BY <2>3, <3>1 DEF ReadInv
    <3>3. u # w
      BY <1>3 DEF Reader
    <3>4. CASE v = t
      BY <1>0, <1>3, <3>2, <3>3, <3>4
    <3>5. CASE v # t
      BY <1>0, <3>2, <3>5 DEF Kept
    <3> QED
      BY <3>4, <3>5
  <2> QED
    BY <1>0, <2>1, <2>2, <2>4, ReadKept
<1>4. \/ th'[t].pc = th[t].back
      \/ \E w \in th[t].check : ~Reader(th[w]) /\ th'[t].check = th[t].check \ {w}
  BY CheckThreadSets
<1>5. th[t].back # "collect"
  BY <1>0, Zenon DEF IInv, Locks, LockInv
<1> QED
  BY <1>2, <1>3, <1>4, <1>5

LEMMA AlterReads ==
    ASSUME IInv, NEW t \in Threads, NEW m \in Classes \X Sels, Alter(t, m), Alterer(t)
    PROVE  \A u \in Threads : ReadInv(u)'
<1>0. UNCHANGED <<cache, buf, garbage>> /\ AlterSets(t, m)
  BY AltersSets DEF Alter
<1>1. ReadInv(t)'
  BY <1>0, ReadNot DEF AlterSets, Reader
<1> SUFFICES ASSUME NEW u \in Threads \ {t} PROVE ReadInv(u)'
  BY <1>1
<1>2. /\ th'[u].pc = th[u].pc /\ th'[u].buckets = th[u].buckets
      /\ th'[u].mask = th[u].mask /\ th'[u].cur = th[u].cur
  BY <1>0 DEF AlterSets
<1>3. \A c \in Classes : cache'[c].mask \in Nat /\ cache'[c].mask >= cache[c].mask
  <2>1. \A c \in Classes : cache[c].mask \in Nat
    BY CacheTyped DEF IInv
  <2> QED
    BY <1>0, <2>1
<1>4. th[u].pc \in {"scan", "imp"} /\ th[u].buckets \in garbage =>
        \A v \in Threads : th'[v].pc = "collect" => u \in th'[v].check
  <2> SUFFICES ASSUME th[u].pc \in {"scan", "imp"}, th[u].buckets \in garbage,
                      NEW v \in Threads, th'[v].pc = "collect"
               PROVE  u \in th'[v].check
    OBVIOUS
  <2>1. th[v].pc = "collect" /\ th'[v].check = th[v].check
    <3>1. v # t
      BY <1>0 DEF AlterSets
    <3>2. th'[v].pc = th[v].pc /\ th'[v].check = th[v].check
      BY <1>0, <3>1 DEF AlterSets
    <3> QED
      BY <3>2
  <2>2. th[u].buckets # EmptyCache
    BY Distinct DEF IInv, TypeOK
  <2>3. ReadInv(u)
    BY DEF IInv, Arrays
  <2> QED
    BY <2>1, <2>2, <2>3 DEF ReadInv
<1> QED
  BY <1>0, <1>2, <1>3, <1>4, ReadKept

\* The others' reads, in a step of the thread that may change caches.
LEMMA UpdaterReads ==
    ASSUME IInv, NEW t \in Threads, Kept(t), updating \in {t, NoThread},
           ~Reader(th'[t]),
           \A c \in Classes : cache'[c].mask \in Nat /\ cache'[c].mask >= cache[c].mask,
           \A b \in Buffers : buf[b] # Freed =>
               (buf'[b] # Freed /\ buf'[b].cap = buf[b].cap) \/ (b \in garbage /\ th[t].check = {}),
           th[t].check = {} => th[t].pc = "collect" \/ \A b \in Buffers : buf[b] # Freed =>
               (buf'[b] # Freed /\ buf'[b].cap = buf[b].cap),
           th'[t].pc = "collect" => th'[t].check = Threads \ {t}
    PROVE  \A u \in Threads : ReadInv(u)'
<1>1. ReadInv(t)'
  BY ReadNot
<1> SUFFICES ASSUME NEW u \in Threads \ {t} PROVE ReadInv(u)'
  BY <1>1
<1>2. th'[u] = th[u]
  BY DEF Kept
<1>3. th[u].buckets \in Buffers \cup {EmptyCache}
  BY ThreadTyped DEF IInv, Locals
<1>4. th[u].pc \in {"scan", "imp"} /\ th[u].buckets # EmptyCache /\ buf[th[u].buckets] # Freed =>
        buf'[th[u].buckets] # Freed /\ buf'[th[u].buckets].cap = buf[th[u].buckets].cap
  <2> SUFFICES ASSUME th[u].pc \in {"scan", "imp"}, th[u].buckets # EmptyCache, buf[th[u].buckets] # Freed,
                      th[u].buckets \in garbage, th[t].check = {}, th[t].pc = "collect"
               PROVE  FALSE
    BY <1>3
  <2>1. ReadInv(u)
    BY DEF IInv, Arrays
  <2> QED
    BY <2>1 DEF ReadInv
<1>5. \A v \in Threads : th'[v].pc = "collect" => u \in th'[v].check
  <2> SUFFICES ASSUME NEW v \in Threads, th'[v].pc = "collect" PROVE u \in th'[v].check
    OBVIOUS
  <2>1. CASE v = t
    BY <2>1
  <2>2. CASE v # t
    BY <2>2, OnlyUpdater, Zenon DEF Kept, Updater
  <2> QED
    BY <2>1, <2>2
<1> QED
  BY <1>2, <1>4, <1>5, ReadKept

LEMMA MasksTyped == ASSUME IInv PROVE \A c \in Classes : cache[c].mask \in Nat /\ cache[c].mask >= cache[c].mask
<1>1. \A c \in Classes : cache[c].mask \in Nat
  BY CacheTyped DEF IInv
<1> QED
  BY <1>1

LEMMA OneMask ==
    ASSUME IInv, NEW c \in Classes, OneCache(c), cache'[c].mask >= cache[c].mask
    PROVE  \A d \in Classes : cache'[d].mask \in Nat /\ cache'[d].mask >= cache[d].mask
<1>1. \A d \in Classes : cache'[d].mask \in Nat
  BY DEF OneCache
<1> QED
  BY <1>1, MasksTyped DEF OneCache

LEMMA FillReads ==
    ASSUME IInv, NEW t \in Threads, Fill(t)
    PROVE  \A u \in Threads : ReadInv(u)'
<1>1. CASE FillLock(t)
  <2>1. Kept(t) /\ updating = NoThread /\ th'[t].pc \in {"return", "insert", "new mask"}
    BY <1>1, FillLockStep, Zenon
  <2>2. CASE UNCHANGED <<cache, buf>>
    BY <2>1, <2>2, MasksTyped, UpdaterReads, Zenon DEF Reader
  <2>3. ASSUME NEW c \in Classes, NEW b \in Buffers, NEW n \in Nat, NewArray(c, b, n)
        PROVE  \A u \in Threads : ReadInv(u)'
    <3>1. OneCache(c) /\ cache'[c].mask = cache[c].mask /\ cache'[c].mask >= cache[c].mask
      BY <2>3, MasksTyped DEF NewArray
    <3>2. \A d \in Buffers : buf[d] # Freed => buf'[d] = buf[d]
      BY <2>3 DEF NewArray
    <3> QED
      BY <2>1, <3>1, <3>2, OneMask, UpdaterReads, Zenon DEF Reader
  <2> QED
    BY <1>1, <2>2, <2>3, FillLockStep, Zenon
<1>2. CASE StoreMask(t)
  <2>1. Kept(t) /\ updating = t /\ th'[t].pc \in {"insert", "collect"}
        /\ (th'[t].pc = "collect" => th'[t].check = Threads \ {t})
    BY <1>2, StoreMaskSets, UpdaterHolds, Zenon DEF Updater
  <2>2. \A c \in Classes : cache'[c].mask \in Nat /\ cache'[c].mask >= cache[c].mask
    BY <1>2, StoreMaskStep, OneMask
  <2>3. buf' = buf
    BY <1>2, StoreMaskStep
  <2> QED
    BY <2>1, <2>2, <2>3, UpdaterReads DEF Reader
<1>3. CASE StoreImp(t)
  <2>1. Kept(t) /\ updating = t /\ th'[t].pc = "key"
    BY <1>3, StoreImpSets, UpdaterHolds, Zenon DEF Updater
  <2>2. \A c \in Classes : cache'[c].mask \in Nat /\ cache'[c].mask >= cache[c].mask
    <3>1. /\ th[t].cls \in Classes /\ OneCache(th[t].cls)
          /\ cache'[th[t].cls].mask = cache[th[t].cls].mask
      BY <1>3, StoreImpStep
    <3> QED
      BY <3>1, MasksTyped, OneMask
  <2>3. \A b \in Buffers : buf[b] # Freed => buf'[b] # Freed /\ buf'[b].cap = buf[b].cap
    BY <1>3, StoreImpWrites, Zenon DEF Wrote
  <2> QED
    BY <2>1, <2>2, <2>3, UpdaterReads DEF Reader
<1>4. CASE StoreKey(t)
  <2>1. Kept(t) /\ updating = t /\ th'[t].pc = "return" /\ cache' = cache
    BY <1>4, StoreKeySets, UpdaterHolds, Zenon DEF Updater, StoreKey
  <2>2. \A b \in Buffers : buf[b] # Freed => buf'[b] # Freed /\ buf'[b].cap = buf[b].cap
    BY <1>4, StoreKeyWrites DEF Wrote
  <2> QED
    BY <2>1, <2>2, MasksTyped, UpdaterReads DEF Reader
<1> QED
  BY <1>1, <1>2, <1>3, <1>4 DEF Fill

LEMMA FreeGarbageReads ==
    ASSUME IInv, NEW t \in Threads, FreeGarbage(t)
    PROVE  \A u \in Threads : ReadInv(u)'
<1>1. Kept(t) /\ th[t].pc = "collect" /\ th'[t].pc = th[t].back /\ updating = t
  BY FreeGarbageSets, UpdaterHolds, Zenon DEF Updater
<1>2. th[t].back \in {"insert", "erase"}
  BY <1>1, Zenon DEF IInv, Locks, LockInv
<1>3. cache' = cache /\ th[t].check = {}
      /\ \A b \in Buffers : buf'[b] = buf[b] \/ b \in garbage
  BY FreeGarbageStep
<1> QED
  BY <1>1, <1>2, <1>3, MasksTyped, UpdaterReads DEF Reader

LEMMA EraseReads ==
    ASSUME IInv, NEW t \in Threads, Erase(t)
    PROVE  \A u \in Threads : ReadInv(u)'
<1>1. Kept(t) /\ updating = t /\ th'[t].pc \in {"erase", "collect"}
      /\ (th'[t].pc = "collect" => th'[t].check = Threads \ {t})
  BY EraseSets, UpdaterHolds, Zenon DEF Updater
<1>2. buf' = buf
  BY EraseStep
<1>3. \A d \in Classes : cache'[d].mask \in Nat /\ cache'[d].mask >= cache[d].mask
  <2>1. ASSUME NEW c \in Classes, Erased(c)
        PROVE  \A d \in Classes : cache'[d].mask \in Nat /\ cache'[d].mask >= cache[d].mask
    BY <2>1, MasksTyped, OneMask DEF Erased
  <2> QED
    BY <2>1, EraseStep, MasksTyped
<1> QED
  BY <1>1, <1>2, <1>3, UpdaterReads DEF Reader

LEMMA NextReads == IInv /\ Next => \A u \in Threads : ReadInv(u)'
<1> SUFFICES ASSUME IInv, NEW t \in Threads,
                    Read(t) \/ LookUp(t) \/ Fill(t) \/ Collection(t) \/ Change(t)
             PROVE  \A u \in Threads : ReadInv(u)'
  BY DEF Next
<1>1. CASE Read(t)
  <2>1. Kept(t) /\ th'[t].pc # "collect" /\ UNCHANGED <<cache, buf, garbage>>
    BY <1>1, SendSets, LoadBucketsSets, ScanKeysSets, LoadImpSets, QuietKeeps, Zenon DEF Read, Quiet
  <2> QED
    BY <1>1, <2>1, SendReads, QuietReads
<1>2. CASE LookUp(t)
  <2>1. Kept(t) /\ th'[t].pc # "collect" /\ UNCHANGED <<cache, buf, garbage>>
    BY <1>2, ReadLockSets, SearchListSets, ResolveSets, ReturnSets, QuietKeeps, Zenon
       DEF LookUp, Quiet
  <2> QED
    BY <1>2, <2>1, LookUpReads, QuietReads
<1>3. CASE Fill(t) \/ Collection(t)
  BY <1>3, FillReads, CheckThreadReads, FreeGarbageReads DEF Collection
<1>4. CASE Replace(t) \/ AddMethod(t)
  <2>1. CASE \E m \in Classes \X Sels : Alter(t, m) /\ Alterer(t)
    BY <2>1, AlterReads
  <2>2. CASE th'[t] = [th[t] EXCEPT !.pc = "read lock"] /\ th[t].pc = "resolving" /\ Kept(t)
             /\ UNCHANGED <<cache, buf, garbage>>
    BY <2>2, NothingToAdd, ReadNot, QuietReads, Zenon DEF Reader
  <2> QED
    BY <1>4, <2>1, <2>2, Alters, Zenon
<1>5. CASE FlushLock(t) \/ Flushed(t)
  <2>1. Kept(t) /\ th'[t].pc # "collect" /\ UNCHANGED <<cache, buf, garbage>> /\ ~Reader(th'[t])
    BY <1>5, FlushLockSets, FlushedSets, QuietKeeps, Zenon DEF Quiet, Reader
  <2> QED
    BY <2>1, ReadNot, QuietReads
<1>6. CASE Erase(t)
  BY <1>6, EraseReads
<1> QED
  BY <1>1, <1>2, <1>3, <1>4, <1>5, <1>6 DEF Change

\* A cache that does not change, in a step of the thread that may.
LEMMA CacheKept ==
    ASSUME IInv, NEW t \in Threads, NEW c \in Classes, cache'[c] = cache[c],
           cache[c].buckets # EmptyCache =>
               /\ buf'[cache[c].buckets] # Freed /\ buf'[cache[c].buckets].cap = buf[cache[c].buckets].cap
               /\ cache[c].buckets \notin garbage'
               /\ \A d \in Classes : cache'[d].buckets = cache[c].buckets => d = c,
           Fills(c, {"new mask"}) => Fills(c, {"new mask"})'
    PROVE  CacheInv(c)'
<1>1. CacheInv(c)
  BY Zenon DEF IInv, Arrays
<1> QED
  BY <1>1, Zenon DEF CacheInv

LEMMA LiveCaches ==
    ASSUME IInv, NEW c \in Classes, cache[c].buckets # EmptyCache
    PROVE  /\ cache[c].buckets \in Buffers /\ buf[cache[c].buckets] # Freed
           /\ cache[c].buckets \notin garbage
           /\ \A d \in Classes : cache[d].buckets = cache[c].buckets => d = c
<1>1. CacheInv(c)
  BY DEF IInv, Arrays
<1>2. cache[c].buckets \in Buffers
  BY CacheTyped DEF IInv
<1> QED
  BY <1>1, <1>2, Zenon DEF CacheInv

LEMMA QuietArrays ==
    ASSUME IInv, UNCHANGED <<cache, buf, garbage>>, \A u \in Threads : FillsOn(u)
    PROVE  /\ \A c \in Classes : CacheInv(c)'
           /\ \A u \in Threads : FillInv(u)'
<1>1. ASSUME NEW c \in Classes PROVE CacheInv(c)'
  <2>1. CacheInv(c)
    BY DEF IInv, Arrays
  <2>2. Fills(c, {"new mask"})' <=> Fills(c, {"new mask"})
    BY SameFills, Zenon
  <2> QED
    BY <2>1, <2>2, Zenon DEF CacheInv
<1>2. ASSUME NEW u \in Threads PROVE FillInv(u)'
  <2>1. FillInv(u)
    BY DEF IInv, Arrays
  <2>2. FillsOn(u)
    OBVIOUS
  <2>3. CASE Filling(th[u])
    <3>1. th'[u].cls = th[u].cls /\ th'[u].old = th[u].old /\ (th'[u].pc = "new mask" => th[u].pc = "new mask")
      BY <2>2, <2>3, Zenon DEF FillsOn
    <3> QED
      BY <2>1, <2>3, <3>1, Zenon DEF FillInv
  <2>4. CASE ~Filling(th[u])
    <3>1. ~Filling(th'[u])
      BY <2>2, <2>4 DEF FillsOn
    <3> QED
      BY <3>1, Zenon DEF FillInv, Filling
  <2> QED
    BY <2>3, <2>4
<1> QED
  BY <1>1, <1>2

\* In a step of the thread that may change caches no other fills.
LEMMA UpdaterFills ==
    ASSUME IInv, NEW t \in Threads, Kept(t), updating \in {t, NoThread}, FillInv(t)'
    PROVE  \A u \in Threads : FillInv(u)'
<1>1. \A u \in Threads \ {t} : ~Filling(th'[u])
  BY OnlyUpdater DEF Kept
<1> QED
  BY <1>1, Zenon DEF FillInv, Filling

LEMMA FillLockArrays ==
    ASSUME IInv, NEW t \in Threads, FillLock(t)
    PROVE  /\ \A c \in Classes : CacheInv(c)'
           /\ \A u \in Threads : FillInv(u)'
           /\ \A b \in garbage' : buf'[b] # Freed
<1> DEFINE k == th[t].cls
<1>0. /\ k \in Classes /\ Kept(t) /\ th[t].pc = "fill" /\ updating = NoThread /\ garbage' = garbage
      /\ th'[t].cls = k
  BY FillLockStep, FillLockSets, Zenon DEF Message
<1>1. ~Filling(th[t])
  BY <1>0 DEF Filling
<1>2. \A b \in garbage : b \in Buffers /\ buf[b] # Freed
  BY DEF IInv, Arrays, TypeOK
<1>3. \A c \in Classes : ~Fills(c, {"new mask"})
  BY <1>0, <1>1, OneFills, Zenon
<1>4. CASE th'[t].pc \in {"return", "insert"} /\ UNCHANGED <<cache, buf>>
  <2>1. ASSUME NEW c \in Classes PROVE CacheInv(c)'
    BY <1>0, <1>3, <1>4, LiveCaches, CacheKept, Zenon
  <2>2. FillInv(t)'
    <3>1. th'[t].pc = "insert" => cache[k].buckets # EmptyCache
      BY FillLockSets, Zenon
    <3> QED
      BY <1>0, <1>4, <3>1, Zenon DEF FillInv, Filling
  <2> QED
    BY <1>0, <1>2, <1>4, <2>1, <2>2, UpdaterFills
<1>5. ASSUME NEW b \in Buffers, NEW n \in Nat, NewArray(k, b, n),
             th'[t].pc = "new mask", th'[t].old = cache[k].buckets
      PROVE  /\ \A c \in Classes : CacheInv(c)'
             /\ FillInv(t)'
             /\ \A a \in garbage : buf'[a] # Freed
  <2>1. /\ \A d \in Buffers \ {b} : buf'[d] = buf[d]
        /\ buf[b] = Freed /\ buf'[b] # Freed /\ buf'[b].cap = n /\ n >= 4 /\ n >= cache[k].mask + 1
        /\ cache'[k].buckets = b /\ cache'[k].mask = cache[k].mask
        /\ \A d \in Classes \ {k} : cache'[d] = cache[d]
    BY <1>5, Zenon DEF NewArray, OneCache
  <2>2. \A a \in garbage : a # b /\ buf'[a] # Freed
    BY <1>2, <2>1
  <2>3. \A d \in Classes : cache[d].buckets # b
    <3> SUFFICES ASSUME NEW d \in Classes, cache[d].buckets = b PROVE FALSE
      OBVIOUS
    <3>1. cache[d].buckets # EmptyCache
      BY Distinct
    <3> QED
      BY <2>1, <3>1, LiveCaches
  <2>4. ASSUME NEW c \in Classes \ {k} PROVE CacheInv(c)'
    <3>1. cache'[c] = cache[c]
      BY <2>1
    <3>2. cache[c].buckets # EmptyCache =>
               /\ buf'[cache[c].buckets] # Freed /\ buf'[cache[c].buckets].cap = buf[cache[c].buckets].cap
               /\ cache[c].buckets \notin garbage'
               /\ \A d \in Classes : cache'[d].buckets = cache[c].buckets => d = c
      BY <1>0, <2>1, <2>3, LiveCaches
    <3> QED
      BY <1>3, <3>1, <3>2, CacheKept, Zenon
  <2>5. ASSUME NEW c \in Classes, c = k PROVE CacheInv(c)'
    <3>1. CacheInv(c)
      BY <1>0 DEF IInv, Arrays
    <3>2. Fills(c, {"new mask"})'
      BY <1>0, <1>5, <2>5, OneFills, Zenon DEF Filling
    <3>3. b # EmptyCache /\ b \notin garbage'
      BY <1>0, <2>2, Distinct
    <3>4. \A d \in Classes : cache'[d].buckets = b => d = c
      BY <2>1, <2>3, <2>5
    <3>5. cache'[c].mask = 0 \/ cache'[c].mask >= 3
      BY <2>1, <2>5, <3>1, Zenon DEF CacheInv
    <3>6. cache'[c].mask + 1 <= buf'[b].cap /\ buf'[b].cap >= 4
      <4>1. cache[k].mask \in Nat
        BY <1>0, CacheTyped DEF IInv
      <4> QED
        BY <2>1, <2>5, <4>1
    <3>7. cache'[c].buckets = b
      BY <2>1, <2>5
    <3> HIDE DEF k
    <3> QED
      BY <2>1, <3>7, <3>2, <3>3, <3>4, <3>5, <3>6, Zenon DEF CacheInv
  <2>6. FillInv(t)'
    <3>1. cache'[k].buckets # EmptyCache
      BY <2>1, Distinct
    <3>2. th'[t].old # EmptyCache =>
             /\ buf'[th'[t].old] # Freed /\ th'[t].old \notin garbage'
             /\ \A c \in Classes : cache'[c].buckets # th'[t].old
      <4> SUFFICES ASSUME cache[k].buckets # EmptyCache
                   PROVE  /\ buf'[cache[k].buckets] # Freed /\ cache[k].buckets \notin garbage'
                          /\ \A c \in Classes : cache'[c].buckets # cache[k].buckets
        BY <1>5, Zenon
      <4>1. /\ cache[k].buckets \in Buffers /\ buf[cache[k].buckets] # Freed
            /\ cache[k].buckets \notin garbage
            /\ \A d \in Classes : cache[d].buckets = cache[k].buckets => d = k
        BY <1>0, LiveCaches
      <4>2. cache[k].buckets # b
        BY <1>0, <2>3
      <4> QED
        BY <1>0, <2>1, <4>1, <4>2
    <3> QED
      BY <1>0, <1>5, <3>1, <3>2, Zenon DEF FillInv
  <2> QED
    BY <2>2, <2>4, <2>5, <2>6
<1>6. CASE /\ th'[t].pc = "new mask" /\ th'[t].old = cache[k].buckets
           /\ \E b \in Buffers, n \in Nat : NewArray(k, b, n)
  <2>1. /\ \A c \in Classes : CacheInv(c)'
        /\ FillInv(t)'
        /\ \A a \in garbage : buf'[a] # Freed
    BY <1>5, <1>6, Zenon
  <2> QED
    BY <1>0, <2>1, UpdaterFills
<1> HIDE DEF k
<1>7. \/ th'[t].pc \in {"return", "insert"} /\ UNCHANGED <<cache, buf>>
      \/ /\ th'[t].pc = "new mask" /\ th'[t].old = cache[k].buckets
         /\ \E b \in Buffers, n \in Nat : NewArray(k, b, n)
  BY FillLockStep, Zenon DEF k
<1> QED
  BY <1>4, <1>6, <1>7, Zenon

LEMMA StoreMaskArrays ==
    ASSUME IInv, NEW t \in Threads, StoreMask(t)
    PROVE  /\ \A c \in Classes : CacheInv(c)'
           /\ \A u \in Threads : FillInv(u)'
           /\ \A b \in garbage' : buf'[b] # Freed
<1> DEFINE k == th[t].cls
           a == cache[k].buckets
           o == th[t].old
<1>0. /\ Kept(t) /\ th[t].pc = "new mask" /\ updating = t
      /\ th'[t].cls = k /\ garbage' = garbage \cup ({o} \ {EmptyCache})
      /\ Filling(th[t]) /\ Filling(th'[t]) /\ th'[t].pc \in {"insert", "collect"}
  BY StoreMaskSets, UpdaterHolds, Zenon DEF Message, Updater, Filling
<1>1. /\ k \in Classes /\ buf' = buf /\ OneCache(k)
      /\ cache'[k].buckets = a /\ cache'[k].occupied = 0
      /\ cache'[k].mask >= 3 /\ cache'[k].mask + 1 = buf[a].cap
  BY StoreMaskStep
<1>2. FillInv(t)
  BY DEF IInv, Arrays
<1>3. a # EmptyCache
  BY <1>0, <1>2, Zenon DEF FillInv
<1>4. o # EmptyCache => buf[o] # Freed /\ \A c \in Classes : cache[c].buckets # o
  BY <1>0, <1>2, Zenon DEF FillInv
<1>5. \A b \in garbage' : buf'[b] # Freed
  <2>1. \A b \in garbage : buf[b] # Freed
    BY DEF IInv, Arrays
  <2> QED
    BY <1>0, <1>1, <1>4, <2>1, Zenon
<1>6. \A c \in Classes : cache'[c].buckets = cache[c].buckets
  BY <1>1 DEF OneCache
<1>7. ASSUME NEW c \in Classes, c # k PROVE CacheInv(c)'
  <2>1. cache'[c] = cache[c]
    BY <1>1, <1>7 DEF OneCache
  <2>2. cache[c].buckets # EmptyCache =>
               /\ buf'[cache[c].buckets] # Freed /\ buf'[cache[c].buckets].cap = buf[cache[c].buckets].cap
               /\ cache[c].buckets \notin garbage'
               /\ \A d \in Classes : cache'[d].buckets = cache[c].buckets => d = c
    BY <1>0, <1>1, <1>4, <1>6, LiveCaches, Zenon
  <2>3. ~Fills(c, {"new mask"})
    BY <1>0, <1>7, OneFills, Zenon
  <2> QED
    BY <2>1, <2>2, <2>3, CacheKept, Zenon
<1>8. ASSUME NEW c \in Classes, c = k PROVE CacheInv(c)'
  <2>1. a \in Buffers /\ buf[a] # Freed /\ a \notin garbage /\ \A d \in Classes : cache[d].buckets = a => d = k
    BY <1>1, <1>3, LiveCaches
  <2>2. a \notin garbage'
    BY <1>0, <1>1, <1>4, <2>1, Zenon
  <2>3. buf[a].cap >= 4 /\ cache'[k].mask + 1 <= buf[a].cap
    <3>1. cache'[k].mask \in Nat
      BY <1>1 DEF OneCache
    <3>2. CacheInv(k)
      BY <1>1 DEF IInv, Arrays
    <3>3. buf[a].cap >= 4
      BY <1>3, <3>2, Zenon DEF CacheInv
    <3>4. buf[a].cap \in Nat
      BY <2>1, ArrayTyped
    <3> QED
      BY <1>1, <3>1, <3>3, <3>4
  <2>4. \A d \in Classes : cache'[d].buckets = a => d = c
    BY <1>6, <1>8, <2>1
  <2>5. /\ cache'[c].buckets = a /\ cache'[c].mask >= 3 /\ cache'[c].mask + 1 = buf[a].cap
        /\ cache'[c].mask + 1 <= buf[a].cap
    BY <1>1, <1>8, <2>3
  <2> HIDE DEF a, k
  <2> QED
    BY <1>1, <1>3, <2>1, <2>2, <2>3, <2>4, <2>5, Zenon DEF CacheInv
<1>9. FillInv(t)'
  BY <1>0, <1>1, <1>3, Zenon DEF FillInv
<1> QED
  BY <1>0, <1>5, <1>7, <1>8, <1>9, UpdaterFills, Zenon

\* A write of a bucket takes no array from anyone.
LEMMA WriteArrays ==
    ASSUME IInv, NEW t \in Threads, Kept(t), updating = t,
           NEW b \in Buffers, buf[b] # Freed, NEW i, NEW e, Wrote(b, i, e), garbage' = garbage,
           \A c \in Classes : cache'[c].buckets = cache[c].buckets /\ cache'[c].mask = cache[c].mask,
           \A c \in Classes : cache'[c] = cache[c] \/ cache[c].buckets # EmptyCache,
           \A c \in Classes : ~Fills(c, {"new mask"}), FillInv(t)'
    PROVE  /\ \A c \in Classes : CacheInv(c)'
           /\ \A u \in Threads : FillInv(u)'
           /\ \A a \in garbage' : buf'[a] # Freed
<1>1. \A d \in Buffers : buf[d] # Freed => buf'[d] # Freed /\ buf'[d].cap = buf[d].cap
  BY Zenon DEF Wrote
<1>2. \A a \in garbage : a \in Buffers /\ buf[a] # Freed
  BY Zenon DEF IInv, Arrays, TypeOK
<1>3. ASSUME NEW c \in Classes PROVE CacheInv(c)'
  <2>1. CacheInv(c)
    BY Zenon DEF IInv, Arrays
  <2>2. CASE cache[c].buckets = EmptyCache
    <3>1. cache'[c] = cache[c]
      BY <2>2, Zenon
    <3> QED
      BY <2>1, <2>2, <3>1, Zenon DEF CacheInv
  <2>3. CASE cache[c].buckets # EmptyCache
    <3>1. cache[c].buckets \in Buffers /\ cache[c].buckets \notin garbage
          /\ buf'[cache[c].buckets] # Freed /\ buf'[cache[c].buckets].cap = buf[cache[c].buckets].cap
      BY <1>1, <2>3, LiveCaches, Zenon
    <3>2. /\ buf[cache[c].buckets].cap >= 4 /\ buf[cache[c].buckets].cap = cache[c].mask + 1
          /\ cache[c].mask + 1 <= buf[cache[c].buckets].cap
          /\ cache[c].mask = 0 \/ cache[c].mask >= 3
          /\ \A d \in Classes : cache[d].buckets = cache[c].buckets => d = c
      BY <2>1, <2>3, Zenon DEF CacheInv
    <3> QED
      BY <2>3, <3>1, <3>2, Zenon DEF CacheInv
  <2> QED
    BY <2>2, <2>3, Zenon
<1> QED
  BY <1>1, <1>2, <1>3, UpdaterFills, Zenon

LEMMA StoreArrays ==
    ASSUME IInv, NEW t \in Threads, StoreImp(t) \/ StoreKey(t)
    PROVE  /\ \A c \in Classes : CacheInv(c)'
           /\ \A u \in Threads : FillInv(u)'
           /\ \A b \in garbage' : buf'[b] # Freed
<1>0. /\ Kept(t) /\ th[t].pc \in {"insert", "key"} /\ updating = t /\ Filling(th[t])
      /\ th'[t].pc \in {"key", "return"} /\ th'[t].cls = th[t].cls
  BY StoreImpSets, StoreKeySets, UpdaterHolds, Zenon DEF Updater, Filling, Message
<1>1. /\ cache[th[t].cls].buckets \in Buffers /\ cache[th[t].cls].buckets # EmptyCache
      /\ buf[cache[th[t].cls].buckets] # Freed /\ th[t].cls \in Classes
  BY <1>0, FillerHolds
<1>2. \A c \in Classes : ~Fills(c, {"new mask"})
  BY <1>0, OneFills, Zenon
<1>3. PICK i, e : Wrote(cache[th[t].cls].buckets, i, e)
  BY StoreImpWrites, StoreKeyWrites, Zenon
<1>4. garbage' = garbage
  BY Zenon DEF StoreImp, StoreKey
<1>5. /\ \A c \in Classes : cache'[c].buckets = cache[c].buckets /\ cache'[c].mask = cache[c].mask
      /\ \A c \in Classes : cache'[c] = cache[c] \/ cache[c].buckets # EmptyCache
  <2>1. CASE StoreImp(t)
    BY <1>1, <2>1, StoreImpStep DEF OneCache
  <2>2. CASE StoreKey(t)
    BY <2>2, Zenon DEF StoreKey
  <2> QED
    BY <2>1, <2>2
<1>6. FillInv(t)'
  BY <1>0, <1>1, <1>5, Zenon DEF FillInv, Filling
<1> QED
  BY <1>0, <1>1, <1>2, <1>3, <1>4, <1>5, <1>6, WriteArrays, Zenon

LEMMA FreeGarbageArrays ==
    ASSUME IInv, NEW t \in Threads, FreeGarbage(t)
    PROVE  /\ \A c \in Classes : CacheInv(c)'
           /\ \A u \in Threads : FillInv(u)'
           /\ \A b \in garbage' : buf'[b] # Freed
<1>0. Kept(t) /\ th[t].pc = "collect" /\ th'[t].pc = th[t].back /\ updating = t
  BY FreeGarbageSets, UpdaterHolds, Zenon DEF Updater
<1>1. cache' = cache /\ garbage' = {} /\ \A b \in Buffers : b \notin garbage => buf'[b] = buf[b]
  BY FreeGarbageStep
<1>2. th[t].back \in {"insert", "erase"} /\ th'[t].cls = th[t].cls
  BY <1>0, FreeGarbageSets, Zenon DEF IInv, Locks, LockInv, Message
<1>3. \A c \in Classes : ~Fills(c, {"new mask"})
  <2>1. th[t].pc \notin {"new mask"}
    BY <1>0
  <2> QED
    BY <1>0, <2>1, OneFills, Zenon
<1>4. ASSUME NEW c \in Classes PROVE CacheInv(c)'
  <2>1. cache'[c] = cache[c] /\ \A d \in Classes : cache'[d] = cache[d]
    BY <1>1
  <2>2. cache[c].buckets # EmptyCache =>
               /\ buf'[cache[c].buckets] # Freed /\ buf'[cache[c].buckets].cap = buf[cache[c].buckets].cap
               /\ cache[c].buckets \notin garbage'
               /\ \A d \in Classes : cache'[d].buckets = cache[c].buckets => d = c
    BY <1>1, <2>1, LiveCaches
  <2> QED
    BY <1>0, <1>3, <2>1, <2>2, CacheKept, Zenon
<1>5. FillInv(t)'
  <2>1. CASE th[t].back = "insert"
    <3>1. Filling(th[t])
      BY <1>0, <2>1 DEF Filling
    <3>2. cache[th[t].cls].buckets # EmptyCache
      BY <3>1, FillerHolds
    <3> QED
      BY <1>0, <1>1, <1>2, <2>1, <3>2 DEF FillInv
  <2>2. CASE th[t].back = "erase"
    BY <1>0, <2>2 DEF FillInv, Filling
  <2> QED
    BY <1>2, <2>1, <2>2
<1> QED
  BY <1>0, <1>1, <1>4, <1>5, UpdaterFills

LEMMA EraseArrays ==
    ASSUME IInv, NEW t \in Threads, Erase(t)
    PROVE  /\ \A c \in Classes : CacheInv(c)'
           /\ \A u \in Threads : FillInv(u)'
           /\ \A b \in garbage' : buf'[b] # Freed
<1>0. /\ Kept(t) /\ th[t].pc = "erase" /\ updating = t
      /\ th'[t].pc = "erase" \/ (th'[t].pc = "collect" /\ th'[t].back = "erase")
  BY EraseSets, UpdaterHolds, Zenon DEF Updater
<1>1. buf' = buf
  BY EraseStep
<1>2. \A c \in Classes : ~Fills(c, {"new mask"})
  BY <1>0, OneFills, Zenon
<1>3. FillInv(t)'
  BY <1>0, Zenon DEF FillInv, Filling
<1>4. \A b \in garbage : buf[b] # Freed
  BY DEF IInv, Arrays
<1>5. CASE UNCHANGED <<cache, garbage>>
  <2>1. ASSUME NEW c \in Classes PROVE CacheInv(c)'
    BY <1>0, <1>1, <1>2, <1>5, LiveCaches, CacheKept, Zenon
  <2> QED
    BY <1>0, <1>1, <1>3, <1>4, <1>5, <2>1, UpdaterFills
<1>6. ASSUME NEW k \in Classes, Erased(k)
      PROVE  /\ \A c \in Classes : CacheInv(c)'
             /\ \A b \in garbage' : buf'[b] # Freed
  <2>1. /\ cache[k].buckets \in Buffers
        /\ \A c \in Classes \ {k} : cache'[c] = cache[c]
        /\ cache'[k].buckets = EmptyCache /\ cache'[k].mask = cache[k].mask /\ cache'[k].occupied = 0
        /\ garbage' = garbage \cup {cache[k].buckets}
    BY <1>6 DEF Erased, OneCache
  <2>2. cache[k].buckets # EmptyCache
    BY <2>1, Distinct
  <2>3. buf[cache[k].buckets] # Freed /\ \A c \in Classes : cache[c].buckets = cache[k].buckets => c = k
    <3>1. /\ buf[cache[k].buckets] # Freed
          /\ \A d \in Classes : cache[d].buckets = cache[k].buckets => d = k
      BY <2>2, LiveCaches
    <3> QED
      BY <3>1
  <2>4. ASSUME NEW c \in Classes \ {k} PROVE CacheInv(c)'
    <3>1. cache'[c] = cache[c]
      BY <2>1
    <3>2. cache[c].buckets # EmptyCache =>
               /\ buf'[cache[c].buckets] # Freed /\ buf'[cache[c].buckets].cap = buf[cache[c].buckets].cap
               /\ cache[c].buckets \notin garbage'
               /\ \A d \in Classes : cache'[d].buckets = cache[c].buckets => d = c
      <4> SUFFICES ASSUME cache[c].buckets # EmptyCache
                   PROVE  /\ cache[c].buckets \notin garbage'
                          /\ \A d \in Classes : cache'[d].buckets = cache[c].buckets => d = c
        BY <1>1, LiveCaches
      <4>1. cache[c].buckets \notin garbage /\ cache[c].buckets # cache[k].buckets
        BY <2>3, LiveCaches
      <4>2. \A d \in Classes : cache[d].buckets = cache[c].buckets => d = c
        BY LiveCaches
      <4> QED
        BY <2>1, <4>1, <4>2
    <3> QED
      BY <1>2, <3>1, <3>2, CacheKept, Zenon
  <2>5. CacheInv(k)'
    <3>1. CacheInv(k)
      BY DEF IInv, Arrays
    <3>2. cache[k].mask = 0 \/ cache[k].mask >= 3
      BY <3>1, Zenon DEF CacheInv
    <3> QED
      BY <2>1, <3>2 DEF CacheInv
  <2> QED
    BY <1>1, <1>4, <2>1, <2>3, <2>4, <2>5
<1> QED
  BY <1>0, <1>3, <1>5, <1>6, EraseStep, UpdaterFills

LEMMA NextArrays == IInv /\ Next => Arrays'
<1> SUFFICES ASSUME IInv, NEW t \in Threads,
                    Read(t) \/ LookUp(t) \/ Fill(t) \/ Collection(t) \/ Change(t)
             PROVE  /\ \A c \in Classes : CacheInv(c)'
                    /\ \A u \in Threads : FillInv(u)'
                    /\ \A b \in garbage' : buf'[b] # Freed
  BY NextReads DEF Next, Arrays
<1>1. CASE Quiet(t)
  <2>1. UNCHANGED <<cache, buf, garbage>> /\ \A u \in Threads : FillsOn(u)
    BY <1>1, QuietKeeps, QuietFills
  <2>2. \A b \in garbage' : buf'[b] # Freed
    BY <2>1 DEF IInv, Arrays
  <2> QED
    BY <2>1, <2>2, QuietArrays
<1>2. CASE FillLock(t)
  BY <1>2, FillLockArrays
<1>3. CASE StoreMask(t)
  BY <1>3, StoreMaskArrays
<1>4. CASE StoreImp(t) \/ StoreKey(t)
  BY <1>4, StoreArrays
<1>5. CASE FreeGarbage(t)
  BY <1>5, FreeGarbageArrays
<1>6. CASE Erase(t)
  BY <1>6, EraseArrays
<1> QED
  BY <1>1, <1>2, <1>3, <1>4, <1>5, <1>6 DEF Quiet, Fill, Collection, Change
-----------------------------------------------------------------------------
\* The counts.

LEMMA CountKept ==
    ASSUME IInv, NEW c \in Classes, cache'[c] = cache[c],
           cache[c].buckets # EmptyCache => buf'[cache[c].buckets] = buf[cache[c].buckets],
           Fills(c, {"new mask"})' <=> Fills(c, {"new mask"}),
           Fills(c, {"key"})' <=> Fills(c, {"key"}),
           Fills(c, {"insert", "collect"})' <=> Fills(c, {"insert", "collect"})
    PROVE  CountInv(c)'
<1>1. CountInv(c)
  BY Zenon DEF IInv, Counts
<1>2. cache[c].buckets # EmptyCache => Used(cache[c].buckets)' = Used(cache[c].buckets)
  BY UsedIs, Zenon DEF Used
<1> QED
  BY <1>1, <1>2, Zenon DEF CountInv

\* Arrays that stay or become free have an unused bucket still.
LEMMA UnusedKept ==
    ASSUME IInv, NEW b \in Buffers, buf'[b] = buf[b] \/ buf'[b] = Freed, buf'[b] # Freed
    PROVE  Used(b)' # 0..buf'[b].cap - 1
<1>1. buf'[b] = buf[b] /\ Used(b) # 0..buf[b].cap - 1
  BY Zenon DEF IInv, Counts
<1>2. Used(b)' = Used(b)
  BY <1>1 DEF Used
<1> QED
  BY <1>1, <1>2

LEMMA QuietCounts ==
    ASSUME IInv, UNCHANGED <<cache, buf>>, \A u \in Threads : FillsOn(u)
    PROVE  Counts'
<1>1. \A c \in Classes : CountInv(c)'
  BY SameFills, CountKept, Zenon
<1>2. ASSUME NEW u \in Threads, th'[u].pc = "new mask"
      PROVE  Used(cache[th[u].cls].buckets)' = {}
  <2>1. Filling(th'[u]) /\ FillsOn(u)
    BY <1>2, Zenon DEF Filling
  <2>2. th[u].pc = "new mask" /\ th'[u].cls = th[u].cls
    BY <1>2, <2>1, Zenon DEF FillsOn
  <2>3. Used(cache[th[u].cls].buckets) = {}
    BY <2>2, Zenon DEF IInv, Counts
  <2> QED
    BY <2>2, <2>3, Zenon DEF Used
<1>3. \A b \in Buffers : buf'[b] # Freed => Used(b)' # 0..buf'[b].cap - 1
  BY UnusedKept
<1> QED
  BY <1>1, <1>2, <1>3, Zenon DEF Counts

LEMMA FillLockCounts ==
    ASSUME IInv, NEW t \in Threads, FillLock(t)
    PROVE  Counts'
<1> DEFINE k == th[t].cls
<1>0. /\ k \in Classes /\ Kept(t) /\ th[t].pc = "fill" /\ updating = NoThread /\ th'[t].cls = k
  BY FillLockStep, FillLockSets, Zenon DEF Message
<1>1. \A c \in Classes : ~Fills(c, {"new mask"}) /\ ~Fills(c, {"key"}) /\ ~Fills(c, {"insert", "collect"})
  BY <1>0, OneFills, Zenon DEF Filling
<1>2. \A u \in Threads \ {t} : th'[u].pc # "new mask"
  BY <1>0, OnlyUpdater, Zenon DEF Kept, Updater
<1>3. \A c \in Classes \ {k} : ~Fills(c, {"new mask"})' /\ ~Fills(c, {"key"})' /\ ~Fills(c, {"insert", "collect"})'
  BY <1>0, OneFills, Zenon
<1>4. CASE th'[t].pc \in {"return", "insert"} /\ UNCHANGED <<cache, buf>>
  <2>1. \A c \in Classes \ {k} : CountInv(c)'
    BY <1>1, <1>3, <1>4, CountKept, Zenon
  <2>2. ASSUME NEW c \in Classes, c = k PROVE CountInv(c)'
    <3>1. CASE th'[t].pc = "return"
      <4>1. ~Fills(c, {"new mask"})' /\ ~Fills(c, {"key"})' /\ ~Fills(c, {"insert", "collect"})'
        BY <1>0, <3>1, OneFills, Zenon
      <4> QED
        BY <1>1, <1>4, <4>1, CountKept, Zenon
    <3>2. CASE th'[t].pc = "insert"
      <4>1. cache[c].buckets # EmptyCache /\ cache[c].occupied + 1 < buf[cache[c].buckets].cap
        BY <2>2, <3>2, FillLockSets, Zenon
      <4>2. ~Fills(c, {"key"})'
        BY <1>0, <3>2, OneFills
      <4>3. CountInv(c)
        BY Zenon DEF IInv, Counts
      <4>4. Cardinality(Used(cache[c].buckets)) + 0 <= cache[c].occupied
        BY <1>1, <4>1, <4>3, Zenon DEF CountInv
      <4>5. /\ cache[c].occupied \in Nat /\ buf[cache[c].buckets].cap \in Nat
            /\ Cardinality(Used(cache[c].buckets)) \in Nat
        <5>1. Array(buf[cache[c].buckets])
          BY <4>1, LiveCaches, ArrayTyped
        <5> QED
          BY <5>1, CacheTyped, UsedFinite DEF IInv, Array
      <4>6. cache[c].occupied + 0 < buf[cache[c].buckets].cap
        BY <4>1, <4>5
      <4>7. Used(cache[c].buckets)' = Used(cache[c].buckets)
        BY <1>4 DEF Used
      <4> HIDE DEF k
      <4> QED
        BY <1>4, <4>1, <4>2, <4>4, <4>6, <4>7, Zenon DEF CountInv
    <3> QED
      BY <1>4, <3>1, <3>2
  <2>3. \A b \in Buffers : buf'[b] # Freed => Used(b)' # 0..buf'[b].cap - 1
    BY <1>4, UnusedKept
  <2> QED
    BY <1>2, <1>4, <2>1, <2>2, <2>3, Zenon DEF Counts
<1>5. ASSUME NEW b \in Buffers, NEW n \in Nat, NewArray(k, b, n), th'[t].pc = "new mask"
      PROVE  Counts'
  <2>1. /\ \A d \in Buffers \ {b} : buf'[d] = buf[d]
        /\ buf[b] = Freed /\ buf'[b].cap = n /\ n >= 4
        /\ cache'[k].buckets = b
        /\ \A d \in Classes \ {k} : cache'[d] = cache[d]
        /\ \A i \in 0..n - 1 : buf'[b].slot[i] = Unused
    BY <1>5, Zenon DEF NewArray, OneCache
  <2>2. ASSUME NEW c \in Classes \ {k} PROVE CountInv(c)'
    <3>1. cache[c].buckets # EmptyCache => buf'[cache[c].buckets] = buf[cache[c].buckets]
      BY <2>1, LiveCaches
    <3> QED
      BY <1>1, <1>3, <2>1, <3>1, CountKept, Zenon
  <2>3. ASSUME NEW c \in Classes, c = k PROVE CountInv(c)'
    <3>1. Fills(c, {"new mask"})'
      BY <1>0, <1>5, <2>3, OneFills, Zenon DEF Filling
    <3> QED
      BY <3>1, Zenon DEF CountInv
  <2>4. Used(b)' = {}
    BY <2>1 DEF Used, Unused
  <2>5. Used(cache[th[t].cls].buckets)' = {}
    BY <1>0, <2>1, <2>4
  <2>6. ASSUME NEW d \in Buffers, buf'[d] # Freed PROVE Used(d)' # 0..buf'[d].cap - 1
    <3>1. CASE d = b
      <4>1. 0 \in 0..n - 1
        BY <2>1
      <4> QED
        BY <2>1, <2>4, <3>1, <4>1
    <3>2. CASE d # b
      BY <2>1, <2>6, <3>2, UnusedKept
    <3> QED
      BY <3>1, <3>2
  <2> QED
    BY <1>2, <2>2, <2>3, <2>5, <2>6, Zenon DEF Counts
<1> HIDE DEF k
<1>6. \/ th'[t].pc \in {"return", "insert"} /\ UNCHANGED <<cache, buf>>
      \/ /\ th'[t].pc = "new mask"
         /\ \E b \in Buffers, n \in Nat : NewArray(k, b, n)
  BY FillLockStep, Zenon DEF k
<1> QED
  BY <1>4, <1>5, <1>6, Zenon

LEMMA StoreMaskCounts ==
    ASSUME IInv, NEW t \in Threads, StoreMask(t)
    PROVE  Counts'
<1> DEFINE k == th[t].cls
           a == cache[k].buckets
<1>0. /\ Kept(t) /\ th[t].pc = "new mask" /\ updating = t
      /\ th'[t].cls = k /\ th'[t].pc \in {"insert", "collect"} /\ Filling(th[t]) /\ Filling(th'[t])
  BY StoreMaskSets, UpdaterHolds, Zenon DEF Message, Updater, Filling
<1>1. /\ k \in Classes /\ buf' = buf /\ OneCache(k)
      /\ cache'[k].buckets = a /\ cache'[k].occupied = 0
  BY StoreMaskStep
<1>2. \A u \in Threads : th'[u].pc # "new mask"
  BY <1>0, OnlyUpdater, Zenon DEF Kept, Updater
<1>3. \A b \in Buffers : buf'[b] # Freed => Used(b)' # 0..buf'[b].cap - 1
  BY <1>1, UnusedKept
<1>4. ASSUME NEW c \in Classes \ {k} PROVE CountInv(c)'
  <2>1. ~Fills(c, {"new mask"})' /\ ~Fills(c, {"key"})' /\ ~Fills(c, {"insert", "collect"})'
    BY <1>0, OneFills, Zenon
  <2>2. ~Fills(c, {"new mask"}) /\ ~Fills(c, {"key"}) /\ ~Fills(c, {"insert", "collect"})
    BY <1>0, OneFills, Zenon
  <2> QED
    BY <1>1, <2>1, <2>2, CountKept, Zenon DEF OneCache
<1>5. ASSUME NEW c \in Classes, c = k PROVE CountInv(c)'
  <2>1. Used(a) = {}
    BY <1>0, Zenon DEF IInv, Counts
  <2>2. a \in Buffers /\ a # EmptyCache /\ buf[a] # Freed /\ buf[a].cap >= 4
    <3>1. a \in Buffers /\ a # EmptyCache /\ buf[a] # Freed
      BY <1>0, FillerHolds, Zenon
    <3>2. CacheInv(k)
      BY <1>1 DEF IInv, Arrays
    <3> QED
      BY <3>1, <3>2, Zenon DEF CacheInv
  <2>3. Cardinality({}) = 0
    BY FS_EmptySet
  <2>4. ~Fills(c, {"key"})'
    BY <1>0, OneFills, Zenon
  <2>5. buf[a].cap \in Nat
    BY <2>2, ArrayTyped
  <2>6. 0 + 1 < buf[a].cap /\ 0 + 0 < buf[a].cap
    BY <2>2, <2>5
  <2>7. cache'[c].buckets = a /\ cache'[c].occupied = 0 /\ Used(cache[c].buckets)' = {}
    BY <1>1, <1>5, <2>1, Zenon DEF Used
  <2>8. /\ cache'[c].occupied + 1 < buf'[cache'[c].buckets].cap
        /\ cache'[c].occupied + 0 < buf'[cache'[c].buckets].cap
    BY <1>1, <2>6, <2>7
  <2>9. Cardinality(Used(cache[c].buckets)') + 0 <= cache'[c].occupied
    BY <2>3, <2>7
  <2> HIDE DEF a, k
  <2> QED
    BY <2>4, <2>8, <2>9, Zenon DEF CountInv
<1> QED
  BY <1>2, <1>3, <1>4, <1>5, Zenon DEF Counts

\* What a filler's count says before its write: Used(a) is below the count.
LEMMA FillerCount ==
    ASSUME IInv, NEW t \in Threads, th[t].pc \in {"insert", "key"}
    PROVE  LET k == th[t].cls
               a == cache[k].buckets
           IN /\ Array(buf[a])
              /\ cache[k].occupied \in Nat /\ buf[a].cap \in Nat /\ Cardinality(Used(a)) \in Nat
              /\ Cardinality(Used(a)) + (IF th[t].pc = "key" THEN 1 ELSE 0) <= cache[k].occupied
              /\ cache[k].occupied + (IF th[t].pc = "insert" THEN 1 ELSE 0) < buf[a].cap
<1> DEFINE k == th[t].cls
           a == cache[k].buckets
<1>1. Filling(th[t]) /\ updating = t
  BY UpdaterHolds, Zenon DEF Filling, Updater
<1>2. /\ k \in Classes /\ a \in Buffers /\ a # EmptyCache /\ buf[a] # Freed
      /\ cache[k].occupied \in Nat
  BY <1>1, FillerHolds
<1>3. Array(buf[a]) /\ buf[a].cap \in Nat /\ Cardinality(Used(a)) \in Nat
  BY <1>2, ArrayTyped, UsedFinite
<1>4. CountInv(k)
  BY <1>2, Zenon DEF IInv, Counts
<1>5. /\ ~Fills(k, {"new mask"})
      /\ Fills(k, {"key"}) <=> th[t].pc = "key"
      /\ Fills(k, {"insert", "collect"}) <=> th[t].pc = "insert"
  <2>1. \A u \in Threads \ {t} : ~Filling(th[u])
    BY <1>1, OnlyUpdater
  <2>2. ~Fills(k, {"new mask"})
    BY <2>1, Zenon DEF Fills
  <2>3. Fills(k, {"key"}) <=> th[t].pc = "key"
    BY <1>1, <2>1 DEF Fills
  <2>4. Fills(k, {"insert", "collect"}) <=> th[t].pc = "insert"
    BY <1>1, <2>1 DEF Fills
  <2> QED
    BY <2>2, <2>3, <2>4, Zenon
<1>6. /\ Cardinality(Used(a)) + (IF th[t].pc = "key" THEN 1 ELSE 0) <= cache[k].occupied
      /\ cache[k].occupied + (IF th[t].pc = "insert" THEN 1 ELSE 0) < buf[a].cap
  <2>1. /\ Cardinality(Used(a)) + (IF Fills(k, {"key"}) THEN 1 ELSE 0) <= cache[k].occupied
        /\ cache[k].occupied + (IF Fills(k, {"insert", "collect"}) THEN 1 ELSE 0) < buf[a].cap
    BY <1>2, <1>4, <1>5, Zenon DEF CountInv
  <2> HIDE DEF k, a
  <2> QED
    BY <1>5, <2>1, Zenon
<1> QED
  BY <1>2, <1>3, <1>6

LEMMA StoreImpCounts ==
    ASSUME IInv, NEW t \in Threads, StoreImp(t)
    PROVE  Counts'
<1> DEFINE k == th[t].cls
           a == cache[k].buckets
<1>0. /\ Kept(t) /\ th[t].pc = "insert" /\ updating = t /\ th'[t].pc = "key" /\ th'[t].cls = k
      /\ Filling(th[t]) /\ Filling(th'[t]) /\ th'[t].index \in 0..buf[a].cap - 1
  BY StoreImpSets, UpdaterHolds, Zenon DEF Updater, Filling, Message
<1>1. Wrote(a, th'[t].index, [key |-> buf[a].slot[th'[t].index].key, imp |-> th[t].imp])
  BY StoreImpWrites, Zenon
<1>2. /\ k \in Classes /\ OneCache(k) /\ cache'[k].buckets = a /\ cache'[k].occupied = cache[k].occupied + 1
  BY StoreImpStep
<1>3. a \in Buffers /\ buf[a] # Freed
  BY <1>0, FillerHolds
<1>4. InUse(buf'[a]) = InUse(buf[a]) /\ buf'[a].cap = buf[a].cap
  <2>1. buf'[a].cap = buf[a].cap /\ buf'[a].slot[th'[t].index].key = buf[a].slot[th'[t].index].key
    <3>1. /\ buf'[a].cap = buf[a].cap
          /\ buf'[a].slot[th'[t].index] = [key |-> buf[a].slot[th'[t].index].key, imp |-> th[t].imp]
      BY <1>1, Zenon DEF Wrote
    <3> HIDE DEF a
    <3> QED
      BY ONLY <3>1
  <2>2. \A i \in 0..buf[a].cap - 1 : i # th'[t].index => buf'[a].slot[i] = buf[a].slot[i]
    BY <1>1, Zenon DEF Wrote
  <2>3. \A i \in 0..buf[a].cap - 1 : buf'[a].slot[i].key = buf[a].slot[i].key
    BY <2>1, <2>2, Zenon
  <2> QED
    BY <2>1, <2>3, Zenon DEF InUse
<1>5. \A u \in Threads : th'[u].pc # "new mask"
  BY <1>0, OnlyUpdater, Zenon DEF Kept, Updater
<1>6. ASSUME NEW d \in Buffers, buf'[d] # Freed PROVE Used(d)' # 0..buf'[d].cap - 1
  <2>1. CASE d = a
    <3>1. Used(a) # 0..buf[a].cap - 1
      BY <1>3, ArrayTyped
    <3>2. Used(d)' = Used(a)
      BY <1>4, <2>1, UsedIs
    <3> QED
      BY <1>4, <2>1, <3>1, <3>2
  <2>2. CASE d # a
    <3>1. buf'[d] = buf[d]
      BY <1>1, <2>2, Zenon DEF Wrote
    <3> QED
      BY <1>6, <3>1, UnusedKept
  <2> QED
    BY <2>1, <2>2
<1>7. ASSUME NEW c \in Classes \ {k} PROVE CountInv(c)'
  <2>1. ~Fills(c, {"new mask"})' /\ ~Fills(c, {"key"})' /\ ~Fills(c, {"insert", "collect"})'
    BY <1>0, OneFills, Zenon
  <2>2. ~Fills(c, {"new mask"}) /\ ~Fills(c, {"key"}) /\ ~Fills(c, {"insert", "collect"})
    BY <1>0, OneFills, Zenon
  <2>3. cache[c].buckets # EmptyCache => buf'[cache[c].buckets] = buf[cache[c].buckets]
    BY <1>1, <1>2, <1>3, LiveCaches, Zenon DEF Wrote
  <2> QED
    BY <1>2, <2>1, <2>2, <2>3, CountKept, Zenon DEF OneCache
<1>8. ASSUME NEW c \in Classes, c = k PROVE CountInv(c)'
  <2>1. /\ cache[k].occupied \in Nat /\ buf[a].cap \in Nat /\ Cardinality(Used(a)) \in Nat
        /\ Cardinality(Used(a)) <= cache[k].occupied /\ cache[k].occupied + 1 < buf[a].cap
    <3>1. /\ cache[k].occupied \in Nat /\ buf[a].cap \in Nat /\ Cardinality(Used(a)) \in Nat
          /\ Cardinality(Used(a)) + 0 <= cache[k].occupied /\ cache[k].occupied + 1 < buf[a].cap
      BY <1>0, FillerCount
    <3> HIDE DEF a, k
    <3> QED
      BY <3>1
  <2>2. Used(cache[c].buckets)' = Used(a) /\ cache'[c].buckets = a /\ cache'[c].occupied = cache[k].occupied + 1
    BY <1>2, <1>4, <1>8, UsedIs
  <2>3. ~Fills(c, {"insert", "collect"})'
    BY <1>0, OneFills
  <2> HIDE DEF a, k
  <2>4. /\ Cardinality(Used(cache[c].buckets)') + 1 <= cache'[c].occupied
        /\ Cardinality(Used(cache[c].buckets)') + 0 <= cache'[c].occupied
        /\ cache'[c].occupied + 0 < buf'[cache'[c].buckets].cap
    BY <1>4, <2>1, <2>2
  <2> QED
    BY <2>3, <2>4, Zenon DEF CountInv
<1> QED
  BY <1>5, <1>6, <1>7, <1>8, Zenon DEF Counts

LEMMA OneMore ==
    ASSUME NEW S, IsFiniteSet(S), Cardinality(S) \in Nat, NEW x, NEW T, T \subseteq S \cup {x}, IsFiniteSet(T)
    PROVE  Cardinality(T) \in Nat /\ Cardinality(T) <= Cardinality(S) + 1
<1>1. IsFiniteSet(S \cup {x}) /\ Cardinality(S \cup {x}) \in {Cardinality(S), Cardinality(S) + 1}
  BY FS_AddElement
<1>2. Cardinality(T) <= Cardinality(S \cup {x}) /\ Cardinality(T) \in Nat
  BY <1>1, FS_Subset, FS_CardinalityType
<1> QED
  BY <1>1, <1>2

LEMMA StoreKeyCounts ==
    ASSUME IInv, NEW t \in Threads, StoreKey(t)
    PROVE  Counts'
<1> DEFINE k == th[t].cls
           a == cache[k].buckets
           j == th[t].index
<1>0. /\ Kept(t) /\ th[t].pc = "key" /\ updating = t /\ th'[t].pc = "return" /\ Filling(th[t])
  BY StoreKeySets, UpdaterHolds, Zenon DEF Updater, Filling
<1>1. Wrote(a, j, [key |-> th[t].sel, imp |-> th[t].imp]) /\ j \in 0..buf[a].cap - 1
  BY StoreKeyWrites
<1>2. cache' = cache
  BY Zenon DEF StoreKey
<1>3. a \in Buffers /\ buf[a] # Freed /\ k \in Classes
  BY <1>0, FillerHolds
<1>4. Array(buf'[a]) /\ buf'[a].cap = buf[a].cap
  BY <1>1, Zenon DEF Wrote
<1>5. \A u \in Threads : th'[u].pc # "new mask"
  BY <1>0, OnlyUpdater, Zenon DEF Kept, Updater
<1>6. InUse(buf'[a]) \subseteq InUse(buf[a]) \cup {j}
  BY <1>1, <1>4, Zenon DEF Wrote, InUse
<1>7. /\ cache[k].occupied \in Nat /\ buf[a].cap \in Nat
      /\ Cardinality(InUse(buf'[a])) \in Nat /\ Cardinality(InUse(buf'[a])) <= cache[k].occupied
      /\ cache[k].occupied < buf[a].cap
  <2>1. /\ Array(buf[a])
        /\ cache[k].occupied \in Nat /\ buf[a].cap \in Nat
        /\ Cardinality(Used(a)) + 1 <= cache[k].occupied /\ cache[k].occupied + 0 < buf[a].cap
    BY <1>0, FillerCount
  <2>2. IsFiniteSet(Used(a)) /\ Cardinality(Used(a)) \in Nat /\ Used(a) = InUse(buf[a])
    BY <2>1, UsedFinite, UsedIs
  <2>3. IsFiniteSet(InUse(buf'[a]))
    BY <1>4, InUseFinite
  <2>4. Cardinality(InUse(buf'[a])) \in Nat /\ Cardinality(InUse(buf'[a])) <= Cardinality(InUse(buf[a])) + 1
    <3> HIDE DEF a, j
    <3> QED
      BY <1>6, <2>2, <2>3, OneMore
  <2> HIDE DEF a, k
  <2> QED
    BY <2>1, <2>2, <2>4
<1>8. ASSUME NEW d \in Buffers, buf'[d] # Freed PROVE Used(d)' # 0..buf'[d].cap - 1
  <2>1. CASE d = a
    <3>1. Cardinality(InUse(buf'[a])) < buf'[a].cap
      <4> HIDE DEF a, k
      <4> QED
        BY <1>4, <1>7
    <3>2. InUse(buf'[a]) # 0..buf'[a].cap - 1
      BY <1>4, <3>1, InUseFinite
    <3>3. Used(d)' = InUse(buf'[a])
      BY <2>1, UsedIs
    <3> QED
      BY <2>1, <3>2, <3>3
  <2>2. CASE d # a
    <3>1. buf'[d] = buf[d]
      BY <1>1, <2>2, Zenon DEF Wrote
    <3> QED
      BY <1>8, <3>1, UnusedKept
  <2> QED
    BY <2>1, <2>2
<1>9. ~Filling(th'[t])
  BY <1>0 DEF Filling
<1>10. ASSUME NEW c \in Classes \ {k} PROVE CountInv(c)'
  <2>1. ~Fills(c, {"new mask"})' /\ ~Fills(c, {"key"})' /\ ~Fills(c, {"insert", "collect"})'
    BY <1>0, <1>9, OneFills, Zenon
  <2>2. ~Fills(c, {"new mask"}) /\ ~Fills(c, {"key"}) /\ ~Fills(c, {"insert", "collect"})
    BY <1>0, OneFills, Zenon
  <2>3. cache[c].buckets # EmptyCache => buf'[cache[c].buckets] = buf[cache[c].buckets]
    BY <1>1, <1>3, LiveCaches, Zenon DEF Wrote
  <2> QED
    BY <1>2, <2>1, <2>2, <2>3, CountKept, Zenon
<1>11. ASSUME NEW c \in Classes, c = k PROVE CountInv(c)'
  <2>1. Used(cache[c].buckets)' = InUse(buf'[a]) /\ cache'[c].buckets = a /\ cache'[c].occupied = cache[k].occupied
    BY <1>2, <1>11, UsedIs
  <2>2. ~Fills(c, {"key"})' /\ ~Fills(c, {"insert", "collect"})'
    BY <1>0, <1>9, OneFills
  <2> HIDE DEF a, k
  <2>3. /\ Cardinality(Used(cache[c].buckets)') + 0 <= cache'[c].occupied
        /\ cache'[c].occupied + 0 < buf'[cache'[c].buckets].cap
    BY <1>4, <1>7, <2>1
  <2> QED
    BY <2>2, <2>3, Zenon DEF CountInv
<1> QED
  BY <1>5, <1>8, <1>10, <1>11, Zenon DEF Counts

LEMMA FreeGarbageCounts ==
    ASSUME IInv, NEW t \in Threads, FreeGarbage(t)
    PROVE  Counts'
<1>0. Kept(t) /\ th[t].pc = "collect" /\ th'[t].pc = th[t].back /\ updating = t
  BY FreeGarbageSets, UpdaterHolds, Zenon DEF Updater
<1>1. cache' = cache /\ \A b \in Buffers : buf'[b] = IF b \in garbage THEN Freed ELSE buf[b]
  BY FreeGarbageStep
<1>2. \A u \in Threads : FillsOn(u)
  <2>1. th[t] \in Locals /\ th[t].back \in {"insert", "erase"}
    BY <1>0, ThreadTyped, Zenon DEF IInv, Locks, LockInv
  <2>2. th'[t].cls = th[t].cls /\ th'[t].old = th[t].old
    <3>1. th'[t] = [th[t] EXCEPT !.pc = th[t].back, !.back = "idle"]
      BY FreeGarbageMoves, Zenon
    <3> QED
      BY <2>1, <3>1 DEF Locals
  <2>3. FillsOn(t)
    BY <1>0, <2>1, <2>2, Zenon DEF FillsOn, Filling
  <2> QED
    BY <1>0, <2>3, KeptFills DEF Kept
<1>3. ASSUME NEW c \in Classes PROVE CountInv(c)'
  <2>1. cache[c].buckets # EmptyCache => buf'[cache[c].buckets] = buf[cache[c].buckets]
    BY <1>1, LiveCaches
  <2> QED
    BY <1>1, <1>2, <2>1, SameFills, CountKept, Zenon
<1>4. \A u \in Threads : th'[u].pc # "new mask"
  <2>1. th[t].back # "new mask"
    BY <1>0, Zenon DEF IInv, Locks, LockInv
  <2> QED
    BY <1>0, <2>1, OnlyUpdater, Zenon DEF Kept, Updater
<1>5. \A b \in Buffers : buf'[b] # Freed => Used(b)' # 0..buf'[b].cap - 1
  BY <1>1, UnusedKept
<1> QED
  BY <1>3, <1>4, <1>5, Zenon DEF Counts

LEMMA EraseCounts ==
    ASSUME IInv, NEW t \in Threads, Erase(t)
    PROVE  Counts'
<1>0. /\ Kept(t) /\ th[t].pc = "erase" /\ updating = t
      /\ th'[t].pc = "erase" \/ (th'[t].pc = "collect" /\ th'[t].back = "erase")
  BY EraseSets, UpdaterHolds, Zenon DEF Updater
<1>1. buf' = buf
  BY EraseStep
<1>2. \A u \in Threads : th'[u].pc # "new mask"
  BY <1>0, OnlyUpdater, Zenon DEF Kept, Updater
<1>3. \A b \in Buffers : buf'[b] # Freed => Used(b)' # 0..buf'[b].cap - 1
  BY <1>1, UnusedKept
<1>4. ~Filling(th[t]) /\ ~Filling(th'[t])
  BY <1>0, Zenon DEF Filling
<1>5. ASSUME NEW c \in Classes, cache'[c] = cache[c] PROVE CountInv(c)'
  <2>1. ~Fills(c, {"new mask"})' /\ ~Fills(c, {"key"})' /\ ~Fills(c, {"insert", "collect"})'
    BY <1>0, <1>4, OneFills, Zenon
  <2>2. ~Fills(c, {"new mask"}) /\ ~Fills(c, {"key"}) /\ ~Fills(c, {"insert", "collect"})
    BY <1>0, <1>4, OneFills, Zenon
  <2> QED
    BY <1>1, <1>5, <2>1, <2>2, CountKept, Zenon
<1>6. ASSUME NEW c \in Classes, Erased(c) PROVE Counts'
  <2>1. CountInv(c)'
    BY <1>6, Zenon DEF Erased, CountInv
  <2>2. \A d \in Classes \ {c} : CountInv(d)'
    BY <1>5, <1>6 DEF Erased, OneCache
  <2> QED
    BY <1>2, <1>3, <2>1, <2>2, Zenon DEF Counts
<1>7. CASE UNCHANGED cache
  BY <1>2, <1>3, <1>5, <1>7, Zenon DEF Counts
<1> QED
  BY <1>6, <1>7, EraseStep

LEMMA NextCounts == IInv /\ Next => Counts'
<1> SUFFICES ASSUME IInv, NEW t \in Threads,
                    Read(t) \/ LookUp(t) \/ Fill(t) \/ Collection(t) \/ Change(t)
             PROVE  Counts'
  BY DEF Next
<1>1. CASE Quiet(t)
  BY <1>1, QuietKeeps, QuietFills, QuietCounts
<1> QED
  BY <1>1, FillLockCounts, StoreMaskCounts, StoreImpCounts, StoreKeyCounts, FreeGarbageCounts, EraseCounts
     DEF Quiet, Fill, Collection, Change
-----------------------------------------------------------------------------
\* The entries.

LEMMA FoundNow ==
    ASSUME IInv, NEW t \in Threads, th[t].cls # NoClass
    PROVE  /\ Found(methods, th[t].cls, th[t].sel) \in th[t].valid
           /\ Found(before, th[t].cls, th[t].sel) \in th[t].valid
BY DEF IInv, Entries, SearchInv, ResultInv

\* Nothing is stale when no change is in progress.
LEMMA NotStale ==
    ASSUME IInv, writing = NoThread, NEW c
    PROVE  ~Stale(c) /\ before = methods
<1>1. ASSUME NEW t \in Threads PROVE ~Writer(th[t])
  BY Nones, Zenon DEF IInv, Locks, LockInv
<1> QED
  BY <1>1 DEF Stale, IInv, Locks

\* What the entries of a cache say, in the array b of class c.
LEMMA EntryIs ==
    ASSUME IInv, NEW c \in Classes, cache[c].buckets # EmptyCache,
           NEW i \in 0..buf[cache[c].buckets].cap - 1, NEW s \in Sels,
           buf[cache[c].buckets].slot[i].key = s
    PROVE  LET e == buf[cache[c].buckets].slot[i]
           IN e.imp = Found(methods, c, s) \/ (Stale(c) /\ e.imp = Found(before, c, s))
<1>1. EntryInv(c)
  BY DEF IInv, Entries
<1>2. i \in Used(cache[c].buckets)
  BY Nones DEF Used
<1> QED
  BY <1>1, <1>2 DEF EntryInv

\* A writer continues to flush what it had to.
WritesOn(u) ==
    /\ Writer(th'[u]) <=> Writer(th[u])
    /\ Writer(th[u]) => th'[u].todo = th[u].todo

LEMMA SameStale ==
    ASSUME \A u \in Threads : WritesOn(u), NEW c
    PROVE  Stale(c)' <=> Stale(c)
BY DEF WritesOn, Stale

LEMMA EntryKept ==
    ASSUME IInv, NEW c \in Classes, UNCHANGED <<methods, before>>, cache'[c].buckets = cache[c].buckets,
           cache[c].buckets # EmptyCache => buf'[cache[c].buckets] = buf[cache[c].buckets],
           Stale(c) => Stale(c)'
    PROVE  EntryInv(c)'
<1>1. EntryInv(c)
  BY DEF IInv, Entries
<1>2. cache[c].buckets # EmptyCache => Used(cache[c].buckets)' = Used(cache[c].buckets)
  BY DEF Used
<1> QED
  BY <1>1, <1>2 DEF EntryInv

\* A search that another thread's step leaves alone.
LEMMA ResultKept ==
    ASSUME IInv, NEW u \in Threads, th'[u] = th[u], UNCHANGED <<methods, before>>
    PROVE  ResultInv(u)'
<1>1. ResultInv(u)
  BY DEF IInv, Entries, SearchInv
<1> QED
  BY <1>1 DEF ResultInv

LEMMA KeyKept ==
    ASSUME IInv, NEW u \in Threads, th'[u] = th[u], th[u].pc = "key" => UNCHANGED <<cache, buf>>
    PROVE  KeyInv(u)'
<1>1. KeyInv(u)
  BY DEF IInv, Entries, SearchInv
<1> QED
  BY <1>1, Zenon DEF KeyInv

LEMMA ScanKept ==
    ASSUME IInv, NEW u \in Threads, th'[u] = th[u], UNCHANGED methods,
           th[u].pc \in {"scan", "imp"} /\ th[u].buckets # EmptyCache =>
               /\ buf'[th[u].buckets] = buf[th[u].buckets]
               /\ \A c \in Classes : cache'[c].buckets = th[u].buckets => cache[c].buckets = th[u].buckets
    PROVE  ScanInv(u)'
<1>1. ScanInv(u)
  BY DEF IInv, Entries, SearchInv
<1> QED
  BY <1>1 DEF ScanInv

\* What a thread that holds an array reads.
LEMMA HeldArray ==
    ASSUME IInv, NEW u \in Threads, th[u].pc \in {"scan", "imp"}, th[u].buckets # EmptyCache
    PROVE  /\ th[u].buckets \in Buffers /\ buf[th[u].buckets] # Freed
           /\ th[u].cls \in Classes /\ th[u].sel \in Sels /\ th[u].cur \in Classes
           /\ th[u].buckets \in garbage => \A v \in Threads : th[v].pc = "collect" => u \in th[v].check
<1>1. th[u].buckets \in Buffers
  BY ThreadTyped DEF IInv, Locals
<1>2. ReadInv(u) /\ LockInv(u)
  BY DEF IInv, Arrays, Locks
<1> QED
  BY <1>1, <1>2, Zenon DEF ReadInv, LockInv, Reader

\* Steps that leave the lists, the caches and the arrays alone.
LEMMA QuietEntries ==
    ASSUME IInv, NEW t \in Threads, Kept(t), UNCHANGED <<methods, before, cache, buf>>,
           WritesOn(t), SearchInv(t)'
    PROVE  Entries'
<1>1. \A u \in Threads : WritesOn(u)
  BY DEF Kept, WritesOn
<1>2. \A c \in Classes : EntryInv(c)'
  BY <1>1, SameStale, EntryKept
<1>3. \A u \in Threads \ {t} : SearchInv(u)'
  BY ResultKept, KeyKept, ScanKept DEF Kept, SearchInv
<1> QED
  BY <1>2, <1>3 DEF Entries

\* Parts of SearchInv that do not concern a thread.
LEMMA NoKey == ASSUME NEW u \in Threads, th'[u].pc # "key" PROVE KeyInv(u)'
BY DEF KeyInv

LEMMA NoScan ==
    ASSUME NEW u \in Threads, th'[u].pc \notin {"scan", "imp"} \/ th'[u].buckets = EmptyCache
    PROVE  ScanInv(u)'
BY DEF ScanInv

\* The results of a thread that sends the same message still.
LEMMA ResultMoves ==
    ASSUME IInv, NEW t \in Threads, Message(th'[t], th[t]), UNCHANGED <<methods, before>>,
           LET q == th'[t]
               found == Found(methods, th[t].cls, th[t].sel)
           IN /\ Reader(q) \/ q.pc = "list" => found = Found(methods, q.cur, th[t].sel)
              /\ q.pc = "resolve" => found = Forward
              /\ q.pc = "fill" \/ Filling(q) => q.imp = found
              /\ q.pc = "return" => q.imp \in th[t].valid
    PROVE  ResultInv(t)'
<1>1. th'[t].cls = th[t].cls /\ th'[t].sel = th[t].sel /\ th'[t].valid = th[t].valid
  BY DEF Message
<1>2. th[t].cls # NoClass =>
         {Found(methods, th[t].cls, th[t].sel), Found(before, th[t].cls, th[t].sel)} \subseteq th[t].valid
  BY FoundNow
<1> QED
  BY <1>1, <1>2 DEF ResultInv

LEMMA SendFinds ==
    ASSUME IInv, NEW t \in Threads, Send(t)
    PROVE  SearchInv(t)'
<1>1. /\ th'[t].pc = "buckets" /\ th'[t].cur = th'[t].cls
      /\ th'[t].valid = {Found(methods, th'[t].cls, th'[t].sel), Found(before, th'[t].cls, th'[t].sel)}
  BY SendSets
<1>2. UNCHANGED <<methods, before>>
  BY DEF Send
<1>3. ResultInv(t)'
  BY <1>1, <1>2 DEF ResultInv, Filling
<1> QED
  BY <1>1, <1>3, NoKey, NoScan DEF SearchInv

\* The buckets of the class: the entries are right, or were when the
\* message was sent.
LEMMA LoadBucketsFinds ==
    ASSUME IInv, NEW t \in Threads, LoadBuckets(t)
    PROVE  SearchInv(t)'
<1> DEFINE r == th[t]
           b == cache[r.cur].buckets
           found == Found(methods, r.cls, r.sel)
<1>1. /\ r.pc = "buckets" /\ th'[t].pc = "scan" /\ th'[t].buckets = b /\ th'[t].cur = r.cur
      /\ Message(th'[t], r) /\ Flags(th'[t], r)
  BY LoadBucketsSets
<1>2. UNCHANGED <<methods, before, cache, buf>>
  BY DEF LoadBuckets
<1>3. /\ r.cur \in Classes /\ r.cls \in Classes /\ r.sel \in Sels /\ r.cls # NoClass
      /\ ~r.locked => r.cur = r.cls
      /\ r.locked => writing = NoThread
  BY <1>1, Nones, Zenon DEF IInv, Locks, LockInv, Reader
<1>4. found = Found(methods, r.cur, r.sel)
  BY <1>1 DEF IInv, Entries, SearchInv, ResultInv, Reader
<1>5. ResultInv(t)'
  BY <1>1, <1>2, <1>4, ResultMoves, Zenon DEF Reader, Filling
<1>6. ScanInv(t)'
  <2>1. CASE b = EmptyCache
    BY <1>1, <2>1, NoScan
  <2>2. CASE b # EmptyCache
    <3>1. \A c \in Classes : cache[c].buckets = b => c = r.cur
      BY <1>3, <2>2, LiveCaches
    <3>2. ASSUME NEW i \in 0..buf[b].cap - 1, buf[b].slot[i].key = r.sel
          PROVE  IF r.locked THEN buf[b].slot[i].imp = found ELSE buf[b].slot[i].imp \in r.valid
      <4>1. \/ buf[b].slot[i].imp = Found(methods, r.cur, r.sel)
            \/ Stale(r.cur) /\ buf[b].slot[i].imp = Found(before, r.cur, r.sel)
        BY <1>3, <2>2, <3>2, EntryIs, Zenon
      <4>2. CASE r.locked
        BY <1>3, <1>4, <4>1, <4>2, NotStale
      <4>3. CASE ~r.locked
        BY <1>3, <1>4, <4>1, <4>3, FoundNow
      <4> QED
        BY <4>2, <4>3
    <3>3. /\ th'[t].locked = r.locked /\ th'[t].valid = r.valid /\ th'[t].sel = r.sel /\ th'[t].cls = r.cls
      BY <1>1 DEF Message, Flags
    <3> HIDE DEF r, b, found
    <3>4. \A i \in 0..buf[b].cap - 1 : buf[b].slot[i].key = r.sel =>
             IF r.locked THEN buf[b].slot[i].imp = found ELSE buf[b].slot[i].imp \in r.valid
      BY <3>2
    <3>5. found = Found(methods, r.cls, r.sel)
      BY DEF found
    <3> QED
      BY <1>1, <1>2, <3>1, <3>3, <3>4, <3>5 DEF ScanInv
  <2> QED
    BY <2>1, <2>2
<1> QED
  BY <1>1, <1>5, <1>6, NoKey DEF SearchInv

LEMMA ScanKeysFinds ==
    ASSUME IInv, NEW t \in Threads, ScanKeys(t)
    PROVE  SearchInv(t)'
<1>1. /\ th[t].pc = "scan" /\ th'[t].cur = th[t].cur
      /\ Message(th'[t], th[t]) /\ Flags(th'[t], th[t])
      /\ \/ /\ th'[t].pc = "imp" /\ th[t].buckets # EmptyCache /\ th'[t].buckets = th[t].buckets
            /\ th'[t].index \in 0..buf[th[t].buckets].cap - 1
            /\ buf[th[t].buckets].slot[th'[t].index].key = th[t].sel
         \/ th'[t].pc \in {"list", "read lock"} /\ th'[t].buckets = EmptyCache
  BY ScanKeysSets, Zenon
<1>2. UNCHANGED <<methods, before, cache, buf>>
  BY Zenon DEF ScanKeys
<1>3. Found(methods, th[t].cls, th[t].sel) = Found(methods, th[t].cur, th[t].sel)
  BY <1>1, Zenon DEF IInv, Entries, SearchInv, ResultInv, Reader
<1>4. ResultInv(t)'
  BY <1>1, <1>2, <1>3, ResultMoves, Zenon DEF Reader, Filling
<1>5. ScanInv(t)'
  <2>1. CASE th'[t].buckets = EmptyCache
    BY <2>1, NoScan
  <2>2. CASE /\ th'[t].pc = "imp" /\ th[t].buckets # EmptyCache /\ th'[t].buckets = th[t].buckets
             /\ th'[t].index \in 0..buf[th[t].buckets].cap - 1
             /\ buf[th[t].buckets].slot[th'[t].index].key = th[t].sel
    <3>1. ScanInv(t)
      BY DEF IInv, Entries, SearchInv
    <3>2. /\ th'[t].locked = th[t].locked /\ th'[t].valid = th[t].valid
          /\ th'[t].sel = th[t].sel /\ th'[t].cls = th[t].cls /\ th'[t].cur = th[t].cur
      BY <1>1, Zenon DEF Message, Flags
    <3>3. th[t].pc = "scan"
      BY <1>1, Zenon
    <3> DEFINE b == th[t].buckets
    <3>4. \A c \in Classes : cache[c].buckets = b => c = th[t].cur
      BY <2>2, <3>1, <3>3, Zenon DEF ScanInv
    <3>5. \A i \in 0..buf[b].cap - 1 : buf[b].slot[i].key = th[t].sel =>
             IF th[t].locked THEN buf[b].slot[i].imp = Found(methods, th[t].cls, th[t].sel)
                             ELSE buf[b].slot[i].imp \in th[t].valid
      BY <2>2, <3>1, <3>3, Zenon DEF ScanInv
    <3>6. th'[t].index \in 0..buf[b].cap - 1 /\ buf[b].slot[th'[t].index].key = th[t].sel
      BY <2>2
    <3>7. th'[t].buckets = b
      BY <2>2
    <3> HIDE DEF b
    <3> QED
      BY <1>2, <3>2, <3>4, <3>5, <3>6, <3>7 DEF ScanInv
  <2> QED
    BY <1>1, <2>1, <2>2, Zenon
<1> QED
  BY <1>1, <1>4, <1>5, NoKey, Zenon DEF SearchInv

LEMMA LoadImpFinds ==
    ASSUME IInv, NEW t \in Threads, LoadImp(t)
    PROVE  SearchInv(t)'
<1> DEFINE i == buf[th[t].buckets].slot[th[t].index].imp
<1>1. /\ th[t].pc = "imp" /\ Message(th'[t], th[t])
      /\ \/ th'[t].pc = "return" /\ th'[t].imp = i
         \/ th'[t].pc = "resolve" /\ th[t].cur # th[t].cls /\ i = Forward
         \/ th'[t].pc = "fill" /\ th[t].cur # th[t].cls /\ th'[t].imp = i
  BY LoadImpSets
<1>2. UNCHANGED <<methods, before, cache, buf>>
  BY DEF LoadImp
<1>3. IF th[t].locked THEN i = Found(methods, th[t].cls, th[t].sel) ELSE i \in th[t].valid
  BY <1>1, ReaderHolds, Zenon
<1>4. th[t].cls # NoClass /\ (~th[t].locked => th[t].cur = th[t].cls)
  BY <1>1, Nones, Zenon DEF IInv, Locks, LockInv, Reader
<1>5. i \in th[t].valid
  BY <1>3, <1>4, FoundNow
<1>6. ResultInv(t)'
  <2> HIDE DEF i
  <2> QED
    BY <1>1, <1>2, <1>3, <1>4, <1>5, ResultMoves, Zenon DEF Reader, Filling
<1>7. th'[t].pc \in {"return", "resolve", "fill"}
  BY <1>1
<1> QED
  BY <1>6, <1>7, NoKey, NoScan DEF SearchInv

LEMMA ReadEntries ==
    ASSUME IInv, NEW t \in Threads, Read(t)
    PROVE  Entries'
<1>1. SearchInv(t)'
  BY SendFinds, LoadBucketsFinds, ScanKeysFinds, LoadImpFinds DEF Read
<1>2. UNCHANGED <<methods, before, cache, buf>>
  BY Zenon DEF Read, Send, LoadBuckets, ScanKeys, LoadImp
<1>3. Kept(t) /\ ~Writer(th[t]) /\ ~Writer(th'[t])
  BY SendSets, LoadBucketsSets, ScanKeysSets, LoadImpSets, Zenon DEF Read, Writer
<1> QED
  BY <1>1, <1>2, <1>3, QuietEntries DEF WritesOn

LEMMA SearchListFinds ==
    ASSUME IInv, NEW t \in Threads, SearchList(t)
    PROVE  SearchInv(t)'
<1> DEFINE r == th[t]
           c == r.cur
           v == methods[<<c, r.sel>>]
<1>1. /\ r.pc = "list" /\ Message(th'[t], r)
      /\ \/ v > 0 /\ th'[t].pc = "fill" /\ th'[t].imp = <<c, v>>
         \/ ~(v > 0) /\ Super[c] = NoClass /\ th'[t].pc = "resolve"
         \/ ~(v > 0) /\ Super[c] \in Classes /\ th'[t].pc = "buckets" /\ th'[t].cur = Super[c]
  BY SearchListSets
<1>2. UNCHANGED <<methods, before, cache, buf>>
  BY DEF SearchList
<1>3. c \in Classes
  BY <1>1, Zenon DEF IInv, Locks, LockInv
<1>4. Found(methods, r.cls, r.sel) = Found(methods, c, r.sel)
  BY <1>1 DEF IInv, Entries, SearchInv, ResultInv
<1>5. Found(methods, c, r.sel) = IF v > 0 THEN <<c, v>>
                                 ELSE IF Super[c] = NoClass THEN Forward ELSE Found(methods, Super[c], r.sel)
  BY <1>3, FoundStep
<1>6. ResultInv(t)'
  <2> DEFINE found == Found(methods, r.cls, r.sel)
  <2>1. CASE v > 0 /\ th'[t].pc = "fill" /\ th'[t].imp = <<c, v>>
    <3>1. th'[t].imp = found
      BY <1>4, <1>5, <2>1
    <3> HIDE DEF c, v
    <3> QED
      BY <1>1, <1>2, <2>1, <3>1, ResultMoves, Zenon DEF Reader, Filling
  <2>2. CASE ~(v > 0) /\ Super[c] = NoClass /\ th'[t].pc = "resolve"
    <3>1. found = Forward
      BY <1>4, <1>5, <2>2
    <3> QED
      BY <1>1, <1>2, <2>2, <3>1, ResultMoves, Zenon DEF Reader, Filling
  <2>3. CASE ~(v > 0) /\ Super[c] \in Classes /\ th'[t].pc = "buckets" /\ th'[t].cur = Super[c]
    <3>1. found = Found(methods, th'[t].cur, r.sel)
      BY <1>4, <1>5, <2>3, Nones
    <3> QED
      BY <1>1, <1>2, <2>3, <3>1, ResultMoves, Zenon DEF Reader, Filling
  <2> QED
    BY <1>1, <2>1, <2>2, <2>3
<1>7. th'[t].pc \in {"fill", "resolve", "buckets"}
  BY <1>1
<1> QED
  BY <1>6, <1>7, NoKey, NoScan DEF SearchInv

LEMMA LookUpEntries ==
    ASSUME IInv, NEW t \in Threads, LookUp(t)
    PROVE  Entries'
<1>1. UNCHANGED <<methods, before, cache, buf>>
  BY Zenon DEF LookUp, ReadLock, SearchList, Resolve, Return
<1>2. Kept(t) /\ ~Writer(th[t]) /\ ~Writer(th'[t]) /\ th'[t].pc \notin {"key", "scan", "imp"}
  BY ReadLockSets, SearchListSets, ResolveSets, ReturnSets, Zenon DEF LookUp, Writer
<1>3. ResultInv(t)'
  <2>1. CASE ReadLock(t)
    <3>1. Message(th'[t], th[t]) /\ th'[t].pc = "buckets" /\ th'[t].cur = th[t].cls
      BY <2>1, ReadLockSets, Zenon
    <3> QED
      BY <1>1, <3>1, ResultMoves, Zenon DEF Reader, Filling
  <2>2. CASE SearchList(t)
    BY <2>2, SearchListFinds DEF SearchInv
  <2>3. CASE Resolve(t)
    <3>1. /\ Message(th'[t], th[t]) /\ th[t].pc = "resolve"
          /\ th'[t].pc \in {"resolving", "read lock"} \/ (th'[t].pc = "fill" /\ th'[t].imp = Forward)
      BY <2>3, ResolveSets, Zenon
    <3>2. Found(methods, th[t].cls, th[t].sel) = Forward
      BY <3>1, Zenon DEF IInv, Entries, SearchInv, ResultInv
    <3> QED
      BY <1>1, <3>1, <3>2, ResultMoves, Zenon DEF Reader, Filling
  <2>4. CASE Return(t)
    BY <2>4, ReturnSets, Zenon DEF ResultInv, Reader, Filling
  <2> QED
    BY <2>1, <2>2, <2>3, <2>4 DEF LookUp
<1>4. SearchInv(t)'
  BY <1>2, <1>3, NoKey, NoScan DEF SearchInv
<1> QED
  BY <1>1, <1>2, <1>4, QuietEntries DEF WritesOn

LEMMA FillerFinds ==
    ASSUME IInv, NEW t \in Threads, Filling(th[t]) \/ th[t].pc = "fill"
    PROVE  th[t].imp = Found(methods, th[t].cls, th[t].sel) /\ th[t].imp \in th[t].valid /\ th[t].cls # NoClass
<1>1. th[t].imp = Found(methods, th[t].cls, th[t].sel)
  BY DEF IInv, Entries, SearchInv, ResultInv
<1>2. th[t].cls # NoClass
  BY Nones, Zenon DEF IInv, Locks, LockInv
<1> QED
  BY <1>1, <1>2, FoundNow

\* What a write of t in array a means to another thread that reads it.
LEMMA WriteScan ==
    ASSUME IInv, NEW t \in Threads, Filling(th[t]), NEW a, a = cache[th[t].cls].buckets,
           NEW j \in 0..buf[a].cap - 1, NEW e, Wrote(a, j, e),
           buf[a].slot[j].key \in {th[t].sel, NoSel}, e.key \in {buf[a].slot[j].key, th[t].sel},
           e.imp = th[t].imp,
           NEW u \in Threads, th'[u] = th[u], UNCHANGED methods,
           \A c \in Classes : cache'[c].buckets = cache[c].buckets
    PROVE  ScanInv(u)'
<1>1. /\ th[t].cls \in Classes /\ th[t].sel \in Sels /\ a \in Buffers
      /\ buf'[a].cap = buf[a].cap
      /\ \A i \in 0..buf[a].cap - 1 : i # j => buf'[a].slot[i] = buf[a].slot[i]
      /\ buf'[a].slot[j] = e
      /\ \A d \in Buffers \ {a} : buf'[d] = buf[d]
  BY FillerHolds, Zenon DEF Wrote
<1>2. CASE th[u].pc \notin {"scan", "imp"} \/ th[u].buckets = EmptyCache
  BY <1>2, NoScan
<1>3. CASE th[u].pc \in {"scan", "imp"} /\ th[u].buckets # EmptyCache
  <2>1. th[u].buckets \in Buffers /\ th[u].sel \in Sels /\ th[u].cls # NoClass
    BY <1>3, HeldArray, Nones
  <2>2. CASE th[u].buckets # a
    BY <1>1, <2>1, <2>2, ScanKept, Zenon
  <2>3. CASE th[u].buckets = a
    <3>1. /\ th[u].pc = "imp" => th[u].index \in 0..buf[a].cap - 1 /\ buf[a].slot[th[u].index].key = th[u].sel
          /\ \A c \in Classes : cache[c].buckets = a => c = th[u].cur
          /\ \A i \in 0..buf[a].cap - 1 : buf[a].slot[i].key = th[u].sel =>
                IF th[u].locked THEN buf[a].slot[i].imp = Found(methods, th[u].cls, th[u].sel)
                                ELSE buf[a].slot[i].imp \in th[u].valid
      <4>1. ScanInv(u)
        BY DEF IInv, Entries, SearchInv
      <4> QED
        BY <1>3, <2>3, <4>1, Zenon DEF ScanInv
    <3>2. th[t].cls = th[u].cur
      BY <1>1, <3>1, Zenon
    <3>3. Found(methods, th[u].cls, th[u].sel) = Found(methods, th[u].cur, th[u].sel)
      BY <1>3 DEF IInv, Entries, SearchInv, ResultInv, Reader
    <3>4. e.key = th[u].sel => IF th[u].locked THEN e.imp = Found(methods, th[u].cls, th[u].sel)
                                               ELSE e.imp \in th[u].valid
      <4> SUFFICES ASSUME e.key = th[u].sel
                   PROVE  e.imp = Found(methods, th[u].cls, th[u].sel)
        BY <2>1, FoundNow, Zenon
      <4>1. th[u].sel = th[t].sel
        BY <2>1, Nones, Zenon
      <4> QED
        BY <3>2, <3>3, <4>1, FillerFinds
    <3>5. th[u].pc = "imp" => buf'[a].slot[th[u].index].key = th[u].sel
      <4> SUFFICES ASSUME th[u].pc = "imp" PROVE buf'[a].slot[th[u].index].key = th[u].sel
        BY Zenon
      <4>1. CASE th[u].index = j
        <5>1. th[u].sel = th[t].sel /\ e.key = th[u].sel
          BY <2>1, <3>1, <4>1, Nones, Zenon
        <5> QED
          BY <1>1, <4>1, <5>1, Zenon
      <4>2. CASE th[u].index # j
        BY <1>1, <3>1, <4>2, Zenon
      <4> QED
        BY <4>1, <4>2, Zenon
    <3>6. ASSUME NEW i \in 0..buf[a].cap - 1, buf'[a].slot[i].key = th[u].sel
          PROVE  IF th[u].locked THEN buf'[a].slot[i].imp = Found(methods, th[u].cls, th[u].sel)
                                 ELSE buf'[a].slot[i].imp \in th[u].valid
      <4>1. CASE i = j
        BY <1>1, <3>4, <3>6, <4>1, Zenon
      <4>2. CASE i # j
        <5>1. buf'[a].slot[i] = buf[a].slot[i]
          BY <1>1, <4>2, Zenon
        <5> QED
          BY <3>1, <3>6, <5>1, Zenon
      <4> QED
        BY <4>1, <4>2, Zenon
    <3>7. th[u].pc = "imp" => th[u].index \in 0..buf'[a].cap - 1
      BY <1>1, <3>1, Zenon
    <3>8. \A c \in Classes : cache'[c].buckets = a => c = th[u].cur
      BY <3>1, Zenon
    <3>9. \A i \in 0..buf'[a].cap - 1 : buf'[a].slot[i].key = th[u].sel =>
             IF th[u].locked THEN buf'[a].slot[i].imp = Found(methods, th[u].cls, th[u].sel)
                             ELSE buf'[a].slot[i].imp \in th[u].valid
      <4>1. 0..buf'[a].cap - 1 = 0..buf[a].cap - 1
        BY <1>1, Zenon
      <4> QED
        BY <3>6, <4>1, Zenon
    <3>10. /\ th'[u] = th[u] /\ th[u].buckets = a /\ methods' = methods
           /\ \A i \in 0..buf'[a].cap - 1 : buf'[a].slot[i].key = th[u].sel =>
                 IF th[u].locked THEN buf'[a].slot[i].imp = Found(methods', th[u].cls, th[u].sel)
                                 ELSE buf'[a].slot[i].imp \in th[u].valid
      BY <2>3, <3>9, Zenon
    <3> QED
      BY ONLY <3>5, <3>7, <3>8, <3>10 DEF ScanInv
  <2> QED
    BY <2>2, <2>3
<1> QED
  BY <1>2, <1>3

\* The same write, and the entries of the cache.
LEMMA WriteEntries ==
    ASSUME IInv, NEW t \in Threads, Filling(th[t]), NEW a, a = cache[th[t].cls].buckets,
           NEW j \in 0..buf[a].cap - 1, NEW e, Wrote(a, j, e),
           e.key \in {th[t].sel, NoSel}, e.imp = th[t].imp,
           UNCHANGED <<methods, before>>, \A u \in Threads : WritesOn(u),
           \A c \in Classes : cache'[c].buckets = cache[c].buckets
    PROVE  \A c \in Classes : EntryInv(c)'
<1>1. /\ th[t].cls \in Classes /\ a \in Buffers
      /\ buf'[a].cap = buf[a].cap
      /\ \A i \in 0..buf[a].cap - 1 : i # j => buf'[a].slot[i] = buf[a].slot[i]
      /\ buf'[a].slot[j] = e
      /\ \A d \in Buffers \ {a} : buf'[d] = buf[d]
  BY FillerHolds, Zenon DEF Wrote
<1> SUFFICES ASSUME NEW c \in Classes PROVE EntryInv(c)'
  OBVIOUS
<1>2. Stale(c)' <=> Stale(c)
  BY SameStale
<1>3. CASE cache[c].buckets # a
  <2>1. cache[c].buckets # EmptyCache => buf'[cache[c].buckets] = buf[cache[c].buckets]
    BY <1>1, <1>3, LiveCaches, Zenon
  <2> QED
    BY <1>2, <2>1, EntryKept
<1>4. CASE cache[c].buckets = a
  <2>1. a # EmptyCache
    BY FillerHolds
  <2>2. c = th[t].cls
    <3>1. \A d \in Classes : cache[d].buckets = cache[c].buckets => d = c
      BY <1>4, <2>1, LiveCaches
    <3> QED
      BY <1>1, <1>4, <3>1
  <2>3. ASSUME NEW i \in 0..buf[a].cap - 1, buf'[a].slot[i].key # NoSel
        PROVE  LET x == buf'[a].slot[i]
               IN x.imp = Found(methods, c, x.key) \/ (Stale(c) /\ x.imp = Found(before, c, x.key))
    <3>1. CASE i = j
      <4>1. buf'[a].slot[i].key = th[t].sel /\ buf'[a].slot[i].imp = th[t].imp
        BY <1>1, <2>3, <3>1, Zenon
      <4> QED
        BY <2>2, <4>1, FillerFinds
    <3>2. CASE i # j
      <4>1. buf'[a].slot[i] = buf[a].slot[i] /\ i \in Used(a)
        BY <1>1, <2>3, <3>2, Zenon DEF Used
      <4>2. EntryInv(c)
        BY DEF IInv, Entries
      <4> QED
        BY <1>4, <2>1, <4>1, <4>2, Zenon DEF EntryInv
    <3> QED
      BY <3>1, <3>2, Zenon
  <2>4. cache'[c].buckets = a
    BY <1>4
  <2> QED
    BY <1>1, <1>2, <2>3, <2>4, Zenon DEF EntryInv, Used
<1> QED
  BY <1>3, <1>4

\* While a thread fills, no other stores a key.
LEMMA OthersKeys ==
    ASSUME IInv, NEW t \in Threads, Kept(t), updating \in {t, NoThread}
    PROVE  \A u \in Threads \ {t} : KeyInv(u)'
<1>1. \A u \in Threads \ {t} : th'[u].pc # "key"
  BY OnlyUpdater, Zenon DEF Kept, Updater
<1> QED
  BY <1>1, NoKey

LEMMA StoreImpEntries ==
    ASSUME IInv, NEW t \in Threads, StoreImp(t)
    PROVE  Entries'
<1> DEFINE a == cache[th[t].cls].buckets
           j == th'[t].index
           e == [key |-> buf[a].slot[j].key, imp |-> th[t].imp]
<1>1. /\ Kept(t) /\ th[t].pc = "insert" /\ th'[t].pc = "key" /\ updating = t /\ Filling(th[t])
      /\ j \in 0..buf[a].cap - 1 /\ buf[a].slot[j].key \in {th[t].sel, NoSel}
      /\ th'[t].imp = th[t].imp /\ Message(th'[t], th[t])
  BY StoreImpSets, UpdaterHolds, Zenon DEF Updater, Filling
<1>2. Wrote(a, j, e)
  BY StoreImpWrites, Zenon
<1>3. UNCHANGED <<methods, before>>
  BY Zenon DEF StoreImp
<1>4. \A c \in Classes : cache'[c].buckets = cache[c].buckets
  BY StoreImpStep DEF OneCache
<1>5. \A u \in Threads : WritesOn(u)
  BY <1>1 DEF Kept, WritesOn, Writer
<1>6. e.key = buf[a].slot[j].key /\ e.imp = th[t].imp
  OBVIOUS
<1> HIDE DEF e
<1>7. \A c \in Classes : EntryInv(c)'
  BY <1>1, <1>2, <1>3, <1>4, <1>5, <1>6, WriteEntries, Zenon
<1>8. ASSUME NEW u \in Threads \ {t} PROVE SearchInv(u)'
  <2>1. th'[u] = th[u]
    BY <1>1 DEF Kept
  <2>2. ScanInv(u)'
    BY <1>1, <1>2, <1>3, <1>4, <1>6, <2>1, WriteScan, Zenon
  <2> QED
    BY <1>1, <1>3, <2>1, <2>2, ResultKept, OthersKeys DEF SearchInv
<1>9. SearchInv(t)'
  <2>1. ResultInv(t)'
    BY <1>1, <1>3, FillerFinds, ResultMoves DEF Reader
  <2>2. KeyInv(t)'
    <3>1. buf'[a].cap = buf[a].cap /\ buf'[a].slot[j] = e
      BY <1>2, Zenon DEF Wrote
    <3>2. cache'[th'[t].cls].buckets = a
      BY <1>1, <1>4, FillerHolds DEF Message
    <3>3. th'[t].sel = th[t].sel
      BY <1>1 DEF Message
    <3> HIDE DEF a
    <3> QED
      BY <1>1, <1>6, <3>1, <3>2, <3>3 DEF KeyInv
  <2> QED
    BY <1>1, <2>1, <2>2, NoScan DEF SearchInv
<1> QED
  BY <1>7, <1>8, <1>9 DEF Entries

LEMMA StoreKeyEntries ==
    ASSUME IInv, NEW t \in Threads, StoreKey(t)
    PROVE  Entries'
<1> DEFINE a == cache[th[t].cls].buckets
           j == th[t].index
           e == [key |-> th[t].sel, imp |-> th[t].imp]
<1>1. /\ Kept(t) /\ th[t].pc = "key" /\ th'[t].pc = "return" /\ updating = t /\ Filling(th[t])
      /\ th'[t].imp = th[t].imp /\ Message(th'[t], th[t])
  BY StoreKeySets, UpdaterHolds, Zenon DEF Updater, Filling
<1>2. Wrote(a, j, e) /\ j \in 0..buf[a].cap - 1
  BY StoreKeyWrites
<1>3. UNCHANGED <<methods, before, cache>>
  BY Zenon DEF StoreKey
<1>4. \A c \in Classes : cache'[c].buckets = cache[c].buckets
  BY <1>3
<1>5. \A u \in Threads : WritesOn(u)
  BY <1>1 DEF Kept, WritesOn, Writer
<1>6. e.key = th[t].sel /\ e.imp = th[t].imp
  OBVIOUS
<1>7. buf[a].slot[j].key \in {th[t].sel, NoSel}
  BY <1>1, Zenon DEF IInv, Entries, SearchInv, KeyInv
<1> HIDE DEF e
<1>8. \A c \in Classes : EntryInv(c)'
  BY <1>1, <1>2, <1>3, <1>4, <1>5, <1>6, WriteEntries
<1>9. ASSUME NEW u \in Threads \ {t} PROVE SearchInv(u)'
  <2>1. th'[u] = th[u]
    BY <1>1 DEF Kept
  <2>2. ScanInv(u)'
    BY <1>1, <1>2, <1>3, <1>4, <1>6, <1>7, <2>1, WriteScan
  <2> QED
    BY <1>1, <1>3, <2>1, <2>2, ResultKept, OthersKeys DEF SearchInv
<1>10. SearchInv(t)'
  <2>1. ResultInv(t)'
    BY <1>1, <1>3, FillerFinds, ResultMoves, Zenon DEF Reader, Filling
  <2> QED
    BY <1>1, <2>1, NoKey, NoScan DEF SearchInv
<1> QED
  BY <1>8, <1>9, <1>10 DEF Entries

\* The others' searches, in a step that writes no bucket.
LEMMA OthersFind ==
    ASSUME IInv, NEW t \in Threads, Kept(t), updating \in {t, NoThread}, UNCHANGED <<methods, before>>,
           \A b \in Buffers : buf[b] # Freed => buf'[b] = buf[b] \/ (b \in garbage /\ th[t].pc = "collect" /\ th[t].check = {}),
           \A c \in Classes : \/ cache'[c].buckets = cache[c].buckets
                              \/ cache'[c].buckets = EmptyCache
                              \/ cache'[c].buckets \in Buffers /\ buf[cache'[c].buckets] = Freed
    PROVE  \A u \in Threads \ {t} : SearchInv(u)'
<1> SUFFICES ASSUME NEW u \in Threads \ {t} PROVE SearchInv(u)'
  OBVIOUS
<1>1. th'[u] = th[u]
  BY DEF Kept
<1>2. th[u].pc \in {"scan", "imp"} /\ th[u].buckets # EmptyCache =>
        /\ buf'[th[u].buckets] = buf[th[u].buckets]
        /\ \A c \in Classes : cache'[c].buckets = th[u].buckets => cache[c].buckets = th[u].buckets
  <2> SUFFICES ASSUME th[u].pc \in {"scan", "imp"}, th[u].buckets # EmptyCache
               PROVE  /\ buf'[th[u].buckets] = buf[th[u].buckets]
                      /\ \A c \in Classes : cache'[c].buckets = th[u].buckets => cache[c].buckets = th[u].buckets
    OBVIOUS
  <2>1. /\ th[u].buckets \in Buffers /\ buf[th[u].buckets] # Freed
        /\ th[u].buckets \in garbage => \A v \in Threads : th[v].pc = "collect" => u \in th[v].check
    BY HeldArray
  <2>2. ~(th[u].buckets \in garbage /\ th[t].pc = "collect" /\ th[t].check = {})
    BY <2>1
  <2> QED
    BY <2>1, <2>2
<1> QED
  BY <1>1, <1>2, ResultKept, OthersKeys, ScanKept DEF SearchInv

LEMMA FillLockEntries ==
    ASSUME IInv, NEW t \in Threads, FillLock(t)
    PROVE  Entries'
<1> DEFINE k == th[t].cls
<1>1. /\ k \in Classes /\ Kept(t) /\ th[t].pc = "fill" /\ updating = NoThread
      /\ th'[t].pc \in {"return", "insert", "new mask"}
      /\ th'[t].imp = th[t].imp /\ Message(th'[t], th[t])
  BY FillLockStep, FillLockSets, Zenon
<1>2. UNCHANGED <<methods, before>>
  BY Zenon DEF FillLock
<1>3. \A u \in Threads : WritesOn(u)
  BY <1>1, Zenon DEF Kept, WritesOn, Writer
<1>4. SearchInv(t)'
  <2>1. ResultInv(t)'
    BY <1>1, <1>2, FillerFinds, ResultMoves, Zenon DEF Reader
  <2> QED
    BY <1>1, <2>1, NoKey, NoScan, Zenon DEF SearchInv
<1>5. CASE UNCHANGED <<cache, buf>>
  <2>1. \A c \in Classes : EntryInv(c)'
    BY <1>2, <1>3, <1>5, SameStale, EntryKept
  <2>2. \A u \in Threads \ {t} : SearchInv(u)'
    BY <1>1, <1>2, <1>5, OthersFind, Zenon
  <2> QED
    BY <1>4, <2>1, <2>2 DEF Entries
<1>6. ASSUME NEW b \in Buffers, NEW n \in Nat, NewArray(k, b, n)
      PROVE  Entries'
  <2>1. /\ \A d \in Buffers \ {b} : buf'[d] = buf[d]
        /\ buf[b] = Freed /\ buf'[b].cap = n
        /\ cache'[k].buckets = b
        /\ \A d \in Classes \ {k} : cache'[d] = cache[d]
        /\ \A i \in 0..n - 1 : buf'[b].slot[i] = Unused
    BY <1>6 DEF NewArray, OneCache
  <2>2. \A u \in Threads \ {t} : SearchInv(u)'
    <3>1. \A d \in Buffers : buf[d] # Freed => buf'[d] = buf[d]
      BY <2>1
    <3>2. \A c \in Classes : \/ cache'[c].buckets = cache[c].buckets
                             \/ cache'[c].buckets \in Buffers /\ buf[cache'[c].buckets] = Freed
      BY <2>1
    <3> QED
      BY <1>1, <1>2, <3>1, <3>2, OthersFind, Zenon
  <2>3. ASSUME NEW c \in Classes \ {k} PROVE EntryInv(c)'
    <3>1. cache[c].buckets # EmptyCache => buf'[cache[c].buckets] = buf[cache[c].buckets]
      BY <2>1, LiveCaches
    <3>2. cache'[c].buckets = cache[c].buckets
      BY <2>1
    <3> QED
      BY <1>2, <1>3, <3>1, <3>2, SameStale, EntryKept
  <2>4. ASSUME NEW c \in Classes, c = k PROVE EntryInv(c)'
    <3>1. Used(b)' = {} /\ cache'[c].buckets = b
      BY <2>1, <2>4 DEF Used, Unused
    <3> QED
      BY <3>1 DEF EntryInv, Used
  <2> QED
    BY <1>4, <2>2, <2>3, <2>4 DEF Entries
<1> HIDE DEF k
<1>7. UNCHANGED <<cache, buf>> \/ \E b \in Buffers, n \in Nat : NewArray(k, b, n)
  BY FillLockStep, Zenon DEF k
<1> QED
  BY <1>5, <1>6, <1>7

LEMMA StoreMaskEntries ==
    ASSUME IInv, NEW t \in Threads, StoreMask(t)
    PROVE  Entries'
<1>1. /\ Kept(t) /\ th[t].pc = "new mask" /\ updating = t /\ Filling(th[t])
      /\ th'[t].pc = "insert" \/ (th'[t].pc = "collect" /\ th'[t].back = "insert")
      /\ th'[t].imp = th[t].imp /\ Message(th'[t], th[t])
  BY StoreMaskSets, UpdaterHolds, Zenon DEF Updater, Filling
<1>2. UNCHANGED <<methods, before>>
  BY Zenon DEF StoreMask
<1>3. \A u \in Threads : WritesOn(u)
  BY <1>1, Zenon DEF Kept, WritesOn, Writer
<1>4. SearchInv(t)'
  <2>1. ResultInv(t)'
    BY <1>1, <1>2, FillerFinds, ResultMoves, Zenon DEF Reader
  <2> QED
    BY <1>1, <2>1, NoKey, NoScan, Zenon DEF SearchInv
<1>5. buf' = buf /\ \A c \in Classes : cache'[c].buckets = cache[c].buckets
  BY StoreMaskStep DEF OneCache
<1>6. \A c \in Classes : EntryInv(c)'
  BY <1>2, <1>3, <1>5, SameStale, EntryKept
<1>7. \A u \in Threads \ {t} : SearchInv(u)'
  BY <1>1, <1>2, <1>5, OthersFind, Zenon
<1> QED
  BY <1>4, <1>6, <1>7 DEF Entries

LEMMA CollectionEntries ==
    ASSUME IInv, NEW t \in Threads, Collection(t)
    PROVE  Entries'
<1>1. /\ Kept(t) /\ th[t].pc = "collect" /\ updating = t
      /\ th'[t].pc = th[t].back \/ (th'[t].pc = "collect" /\ th'[t].back = th[t].back)
      /\ th'[t].imp = th[t].imp /\ Message(th'[t], th[t]) /\ th'[t].todo = th[t].todo
  BY CheckThreadSets, FreeGarbageSets, UpdaterHolds, Zenon DEF Collection, Updater
<1>2. th[t].back \in {"insert", "erase"}
  BY <1>1, Zenon DEF IInv, Locks, LockInv
<1>3. UNCHANGED <<methods, before, cache>>
  BY DEF Collection, CheckThread, FreeGarbage
<1>4. \A u \in Threads : WritesOn(u)
  <2>1. WritesOn(t)
    BY <1>1, <1>2 DEF WritesOn, Writer
  <2> QED
    BY <1>1, <2>1 DEF Kept, WritesOn
<1>5. SearchInv(t)'
  <2>1. Filling(th'[t]) => Filling(th[t])
    BY <1>1, <1>2, Zenon DEF Filling
  <2>2. ResultInv(t)'
    BY <1>1, <1>2, <1>3, <2>1, FillerFinds, ResultMoves DEF Reader
  <2> QED
    BY <1>1, <1>2, <2>2, NoKey, NoScan DEF SearchInv
<1>6. \A b \in Buffers : buf'[b] = buf[b] \/ (b \in garbage /\ th[t].pc = "collect" /\ th[t].check = {})
  <2>1. CASE CheckThread(t)
    BY <2>1 DEF CheckThread
  <2>2. CASE FreeGarbage(t)
    BY <1>1, <2>2, FreeGarbageStep
  <2> QED
    BY <2>1, <2>2 DEF Collection
<1>7. ASSUME NEW c \in Classes PROVE EntryInv(c)'
  <2>1. cache[c].buckets # EmptyCache => buf'[cache[c].buckets] = buf[cache[c].buckets]
    BY <1>6, LiveCaches
  <2> QED
    BY <1>3, <1>4, <2>1, SameStale, EntryKept
<1>8. \A u \in Threads \ {t} : SearchInv(u)'
  BY <1>1, <1>3, <1>6, OthersFind
<1> QED
  BY <1>5, <1>7, <1>8 DEF Entries

\* A cache that counts no entries has none.
LEMMA NothingToErase ==
    ASSUME IInv, NEW t \in Threads, th[t].pc = "erase", NEW c \in Classes,
           cache[c].occupied = 0, cache[c].buckets # EmptyCache
    PROVE  Used(cache[c].buckets) = {}
<1>1. updating = t
  BY UpdaterHolds, Zenon DEF Updater
<1>2. ~Fills(c, {"new mask"}) /\ ~Fills(c, {"key"})
  <2>1. \A u \in Threads \ {t} : ~Filling(th[u])
    BY <1>1, OnlyUpdater
  <2>2. ~Filling(th[t])
    BY DEF Filling
  <2> QED
    BY <2>1, <2>2, Zenon DEF Fills
<1>3. CountInv(c)
  BY Zenon DEF IInv, Counts
<1>4. Cardinality(Used(cache[c].buckets)) + 0 <= 0
  BY <1>2, <1>3, Zenon DEF CountInv
<1>5. Array(buf[cache[c].buckets])
  BY LiveCaches, ArrayTyped
<1>6. Cardinality(Used(cache[c].buckets)) \in Nat
  BY <1>5, UsedFinite
<1>7. Cardinality(Used(cache[c].buckets)) = 0
  BY <1>4, <1>6
<1> QED
  BY <1>5, <1>7, UsedFinite

LEMMA EraseEntries ==
    ASSUME IInv, NEW t \in Threads, Erase(t)
    PROVE  Entries'
<1>1. /\ Kept(t) /\ th[t].pc = "erase" /\ updating = t
      /\ th'[t].pc = "erase" \/ (th'[t].pc = "collect" /\ th'[t].back = "erase")
      /\ Message(th'[t], th[t])
  BY EraseSets, UpdaterHolds, Zenon DEF Updater
<1>2. UNCHANGED <<methods, before>>
  BY DEF Erase
<1>3. PICK k \in Classes :
             /\ k \in th[t].todo /\ th'[t].todo = th[t].todo \ {k} /\ buf' = buf
             /\ \/ Erased(k)
                \/ cache[k].occupied = 0 /\ th'[t].pc = "erase" /\ UNCHANGED <<cache, garbage>>
  BY EraseStep
<1>4. \A c \in Classes \ {k} : Stale(c) => Stale(c)'
  BY <1>1, <1>3 DEF Stale, Writer, Kept
<1>5. SearchInv(t)'
  <2>1. ResultInv(t)'
    BY <1>1, <1>2, ResultMoves, Zenon DEF Reader, Filling
  <2> QED
    BY <1>1, <2>1, NoKey, NoScan DEF SearchInv
<1>6. /\ \A c \in Classes \ {k} : cache'[c].buckets = cache[c].buckets
      /\ \/ cache'[k].buckets = EmptyCache
         \/ cache'[k].buckets = cache[k].buckets /\ cache[k].occupied = 0
  BY <1>3 DEF Erased, OneCache
<1>7. \A u \in Threads \ {t} : SearchInv(u)'
  BY <1>1, <1>2, <1>3, <1>6, OthersFind
<1>8. \A c \in Classes \ {k} : EntryInv(c)'
  BY <1>2, <1>3, <1>4, <1>6, EntryKept
<1>9. EntryInv(k)'
  <2>1. CASE cache'[k].buckets = EmptyCache
    BY <2>1 DEF EntryInv
  <2>2. CASE cache'[k].buckets = cache[k].buckets /\ cache[k].occupied = 0 /\ cache[k].buckets # EmptyCache
    <3>1. Used(cache[k].buckets) = {}
      BY <1>1, <2>2, NothingToErase
    <3> QED
      BY <1>3, <2>2, <3>1 DEF EntryInv, Used
  <2> QED
    BY <1>6, <2>1, <2>2
<1> QED
  BY <1>5, <1>7, <1>8, <1>9 DEF Entries

\* A change of a method: a cached implementation is the one before the
\* change where the change reaches, and is what it was elsewhere.
LEMMA AlterEntries ==
    ASSUME IInv, NEW t \in Threads, NEW m \in Classes \X Sels, Alter(t, m), Alterer(t)
    PROVE  Entries'
<1>1. /\ writing = NoThread /\ reading = {} /\ before' = before /\ cache' = cache /\ buf' = buf
      /\ AlterSets(t, m)
  BY AltersSets DEF Alter
<1>2. before = methods /\ \A c : ~Stale(c)
  BY <1>1, NotStale
<1>3. \A u \in Threads : ~th[u].locked
  BY <1>1, Zenon DEF IInv, Locks, LockInv
<1>4. ASSUME NEW c \in Classes PROVE EntryInv(c)'
  <2> SUFFICES ASSUME cache[c].buckets # EmptyCache, NEW i \in Used(cache[c].buckets)
               PROVE  LET e == buf[cache[c].buckets].slot[i]
                      IN e.imp = Found(methods', c, e.key) \/ (Stale(c)' /\ e.imp = Found(before', c, e.key))
    BY <1>1 DEF EntryInv, Used
  <2> DEFINE e == buf[cache[c].buckets].slot[i]
  <2>1. e.imp = Found(methods, c, e.key)
    <3>1. EntryInv(c)
      BY DEF IInv, Entries
    <3> QED
      BY <1>2, <3>1 DEF EntryInv
  <2>2. e.key \in Sels
    <3>1. cache[c].buckets \in Buffers /\ buf[cache[c].buckets] # Freed
      BY LiveCaches
    <3>2. i \in 0..buf[cache[c].buckets].cap - 1 /\ e.key # NoSel
      BY DEF Used
    <3> QED
      BY <3>1, <3>2, BucketTyped
  <2> HIDE DEF e
  <2>3. CASE c \in Below({m[1]})
    <3>1. th'[t].pc = "flush" /\ th'[t].todo = Below({m[1]})
      BY <1>1 DEF AlterSets
    <3>2. Stale(c)'
      BY <2>3, <3>1 DEF Stale, Writer
    <3> QED
      BY <1>1, <1>2, <2>1, <3>2 DEF e
  <2>4. CASE c \notin Below({m[1]})
    <3>1. m[1] \notin Above[c]
      BY <2>4 DEF Below
    <3>2. ASSUME NEW a \in Above[c] PROVE methods[<<a, e.key>>] = methods'[<<a, e.key>>]
      <4>1. a \in Classes /\ a # m[1]
        BY <3>1, <3>2, AboveTyped
      <4>2. <<a, e.key>> \in (Classes \X Sels) \ {m}
        BY <2>2, <4>1
      <4> QED
        BY <1>1, <4>2 DEF AlterSets
    <3>3. Found(methods, c, e.key) = Found(methods', c, e.key)
      BY <3>2, FoundSame
    <3> QED
      BY <2>1, <3>3 DEF e
  <2> QED
    BY <2>3, <2>4
<1>5. ASSUME NEW u \in Threads PROVE SearchInv(u)'
  <2> DEFINE r == th[u]
             q == th'[u]
  <2>1. /\ q.cls = r.cls /\ q.sel = r.sel /\ q.cur = r.cur /\ q.buckets = r.buckets
        /\ q.index = r.index /\ q.imp = r.imp /\ q.locked = r.locked /\ q.back = r.back
        /\ q.pc = r.pc \/ q.pc = "flush"
    BY <1>1 DEF AlterSets, Flags
  <2>2. /\ r.valid \subseteq q.valid
        /\ r.valid # {} => Found(methods', r.cls, r.sel) \in q.valid
    BY <1>1 DEF AlterSets
  <2>3. ~r.locked
    BY <1>3
  <2>4. LockInv(u) /\ ResultInv(u) /\ ScanInv(u)
    BY DEF IInv, Locks, Entries, SearchInv
  <2>5. q.pc \notin {"list", "resolve", "fill"} /\ ~Filling(q)
    BY <2>1, <2>3, <2>4, Zenon DEF LockInv, Filling
  <2>6. Reader(q) => q.cur = q.cls
    BY <2>1, <2>3, <2>4, Zenon DEF LockInv, Reader
  <2>7. q.cls # NoClass => {Found(methods', q.cls, q.sel), Found(before', q.cls, q.sel)} \subseteq q.valid
    <3> SUFFICES ASSUME r.cls # NoClass
                 PROVE  {Found(methods', r.cls, r.sel), Found(before, r.cls, r.sel)} \subseteq q.valid
      BY <1>1, <2>1
    <3>1. Found(before, r.cls, r.sel) \in r.valid
      BY FoundNow
    <3> QED
      BY <2>2, <3>1
  <2>8. q.pc = "return" => q.imp \in q.valid
    BY <2>1, <2>2, <2>4 DEF ResultInv
  <2>9. ResultInv(u)'
    BY <2>5, <2>6, <2>7, <2>8 DEF ResultInv
  <2>10. KeyInv(u)'
    <3>1. q.pc # "key"
      BY <2>5, Zenon DEF Filling
    <3> QED
      BY <3>1, NoKey
  <2>11. ScanInv(u)'
    <3>1. CASE q.pc \notin {"scan", "imp"} \/ r.buckets = EmptyCache
      BY <2>1, <3>1, NoScan
    <3>2. CASE q.pc \in {"scan", "imp"} /\ r.buckets # EmptyCache
      <4>1. r.pc = q.pc
        BY <2>1, <3>2
      <4>2. /\ r.pc = "imp" => r.index \in 0..buf[r.buckets].cap - 1 /\ buf[r.buckets].slot[r.index].key = r.sel
            /\ \A c \in Classes : cache[c].buckets = r.buckets => c = r.cur
            /\ \A i \in 0..buf[r.buckets].cap - 1 :
                  buf[r.buckets].slot[i].key = r.sel => buf[r.buckets].slot[i].imp \in r.valid
        BY <2>3, <2>4, <3>2, <4>1 DEF ScanInv
      <4>3. \A i \in 0..buf[r.buckets].cap - 1 :
                  buf[r.buckets].slot[i].key = r.sel => buf[r.buckets].slot[i].imp \in q.valid
        BY <2>2, <4>2
      <4> QED
        BY <1>1, <2>1, <2>3, <4>1, <4>2, <4>3 DEF ScanInv
    <3> QED
      BY <3>1, <3>2
  <2> QED
    BY <2>9, <2>10, <2>11 DEF SearchInv
<1> QED
  BY <1>4, <1>5 DEF Entries

\* The end of a change: no cache is stale any more.
LEMMA FlushedEntries ==
    ASSUME IInv, NEW t \in Threads, Flushed(t)
    PROVE  Entries'
<1>1. /\ Kept(t) /\ th[t].pc = "erase" /\ th[t].todo = {}
      /\ \/ th[t].tried /\ th'[t].pc = "read lock" /\ Message(th'[t], th[t])
         \/ th'[t].pc = "idle" /\ th'[t].cls = NoClass
  BY FlushedSets, Zenon
<1>2. before' = methods /\ UNCHANGED <<methods, cache, buf, garbage>>
  BY Zenon DEF Flushed
<1>3. writing = t
  BY <1>1, Zenon DEF IInv, Locks, LockInv, Writer
<1>4. \A c \in Classes : ~Stale(c)
  <2>1. \A u \in Threads \ {t} : ~Writer(th[u])
    BY <1>3, Zenon DEF IInv, Locks, LockInv
  <2> QED
    BY <1>1, <2>1, Zenon DEF Stale
<1>5. ASSUME NEW c \in Classes PROVE EntryInv(c)'
  <2>1. EntryInv(c)
    BY DEF IInv, Entries
  <2> QED
    BY <1>2, <1>4, <2>1 DEF EntryInv, Used
<1>6. ASSUME NEW u \in Threads \ {t} PROVE SearchInv(u)'
  <2>1. th'[u] = th[u] /\ SearchInv(u)
    BY <1>1, Zenon DEF Kept, IInv, Entries
  <2>2. ResultInv(u)'
    <3>1. ResultInv(u)
      BY <2>1 DEF SearchInv
    <3> QED
      BY <1>2, <2>1, <3>1 DEF ResultInv
  <2>3. KeyInv(u)'
    BY <1>2, <2>1, KeyKept
  <2>4. ScanInv(u)'
    BY <1>2, <2>1, ScanKept
  <2> QED
    BY <2>2, <2>3, <2>4 DEF SearchInv
<1>7. SearchInv(t)'
  <2>1. ResultInv(t)'
    <3>1. CASE th'[t].pc = "read lock" /\ Message(th'[t], th[t])
      <4>1. th'[t].cls = th[t].cls /\ th'[t].sel = th[t].sel /\ th'[t].valid = th[t].valid
        BY <3>1, Zenon DEF Message
      <4>2. th[t].cls # NoClass => Found(methods, th[t].cls, th[t].sel) \in th[t].valid
        BY FoundNow
      <4> QED
        BY <1>2, <3>1, <4>1, <4>2, Zenon DEF ResultInv, Reader, Filling
    <3>2. CASE th'[t].pc = "idle" /\ th'[t].cls = NoClass
      BY <3>2 DEF ResultInv, Reader, Filling
    <3> QED
      BY <1>1, <3>1, <3>2, Zenon
  <2> QED
    BY <1>1, <2>1, NoKey, NoScan, Zenon DEF SearchInv
<1> QED
  BY <1>5, <1>6, <1>7 DEF Entries

LEMMA ChangeEntries ==
    ASSUME IInv, NEW t \in Threads, Change(t)
    PROVE  Entries'
<1>1. CASE Replace(t) \/ AddMethod(t)
  <2>1. CASE \E m \in Classes \X Sels : Alter(t, m) /\ Alterer(t)
    BY <2>1, AlterEntries
  <2>2. CASE /\ th'[t] = [th[t] EXCEPT !.pc = "read lock"]
             /\ th[t].pc = "resolving" /\ Kept(t)
             /\ UNCHANGED <<methods, before, cache, buf, garbage, reading, writing, updating>>
    <3>1. th'[t].pc = "read lock" /\ Message(th'[t], th[t])
      BY <2>2, NothingToAdd, Zenon
    <3>2. ResultInv(t)'
      BY <2>2, <3>1, ResultMoves, Zenon DEF Reader, Filling
    <3>3. SearchInv(t)'
      BY <3>1, <3>2, NoKey, NoScan, Zenon DEF SearchInv
    <3>4. WritesOn(t)
      BY <2>2, <3>1, Zenon DEF WritesOn, Writer
    <3> QED
      BY <2>2, <3>3, <3>4, QuietEntries, Zenon
  <2> QED
    BY <1>1, <2>1, <2>2, Alters, Zenon
<1>2. CASE FlushLock(t)
  <2>1. Kept(t) /\ th[t].pc = "flush" /\ th'[t].pc = "erase" /\ th'[t].todo = th[t].todo /\ Message(th'[t], th[t])
    BY <1>2, FlushLockSets
  <2>2. UNCHANGED <<methods, before, cache, buf>>
    BY <1>2 DEF FlushLock
  <2>3. ResultInv(t)'
    BY <2>1, <2>2, ResultMoves, Zenon DEF Reader, Filling
  <2>4. SearchInv(t)'
    BY <2>1, <2>3, NoKey, NoScan DEF SearchInv
  <2>5. WritesOn(t)
    BY <2>1 DEF WritesOn, Writer
  <2> QED
    BY <2>1, <2>2, <2>4, <2>5, QuietEntries
<1> QED
  BY <1>1, <1>2, EraseEntries, FlushedEntries DEF Change

LEMMA NextEntries == IInv /\ Next => Entries'
BY ReadEntries, LookUpEntries, FillLockEntries, StoreMaskEntries, StoreImpEntries, StoreKeyEntries,
   CollectionEntries, ChangeEntries DEF Next, Fill

-----------------------------------------------------------------------------
\* The invariant and what follows.

LEMMA InitIInv == Init => IInv
<1> SUFFICES ASSUME Init PROVE IInv
  OBVIOUS
<1>1. /\ \A t \in Threads : th[t] = Idle
      /\ \A c \in Classes : cache[c] = [buckets |-> EmptyCache, mask |-> 0, occupied |-> 0]
      /\ \A b \in Buffers : buf[b] = Freed
      /\ garbage = {} /\ before = methods
  BY DEF Init
<1>2. TypeOK
  <2>1. methods \in [Classes \X Sels -> Nat]
    BY DEF Init
  <2>2. cache \in [Classes -> [buckets : Buffers \cup {EmptyCache}, mask : Nat, occupied : Nat]]
    BY DEF Init
  <2>3. th \in [Threads -> Locals]
    BY IdleTyped DEF Init
  <2> QED
    BY <2>1, <2>2, <2>3 DEF Init, TypeOK
<1>3. \A t \in Threads : /\ th[t].pc = "idle" /\ th[t].cls = NoClass /\ ~th[t].locked /\ ~th[t].tried
                         /\ th[t].valid = {}
  BY <1>1 DEF Idle
<1>4. \A t \in Threads : ~Reader(th[t]) /\ ~Writer(th[t]) /\ ~Filling(th[t]) /\ ~Updater(th[t])
  BY <1>3, Zenon DEF Reader, Writer, Filling, Updater
<1>5. Locks
  BY <1>1, <1>3, <1>4, Nones, Zenon DEF Init, Locks, LockInv
<1>9. \A c \in Classes : cache[c].buckets = EmptyCache /\ cache[c].mask = 0 /\ cache[c].occupied = 0
  BY <1>1
<1>6. Arrays
  <2>1. \A c \in Classes : CacheInv(c)
    BY <1>9, Zenon DEF CacheInv
  <2>2. \A t \in Threads : ReadInv(t) /\ FillInv(t)
    BY <1>3, <1>4, Zenon DEF ReadInv, FillInv
  <2> QED
    BY <1>1, <2>1, <2>2 DEF Arrays
<1>7. Counts
  <2>1. \A c \in Classes : CountInv(c)
    BY <1>9, Zenon DEF CountInv
  <2> QED
    BY <1>1, <1>3, <2>1, Zenon DEF Counts
<1>8. Entries
  <2>1. \A c \in Classes : EntryInv(c)
    BY <1>9 DEF EntryInv
  <2>2. \A t \in Threads : SearchInv(t)
    BY <1>3, <1>4 DEF SearchInv, ResultInv, KeyInv, ScanInv
  <2> QED
    BY <2>1, <2>2 DEF Entries
<1> QED
  BY <1>2, <1>5, <1>6, <1>7, <1>8 DEF IInv

LEMMA NextIInv == IInv /\ [Next]_vars => IInv'
<1>1. IInv /\ Next => IInv'
  BY NextTyped, NextLocks, NextArrays, NextCounts, NextEntries DEF IInv
<1>2. IInv /\ UNCHANGED vars => IInv'
  <2> SUFFICES ASSUME IInv, UNCHANGED vars PROVE IInv'
    OBVIOUS
  <2>1. UNCHANGED <<methods, before, cache, buf, garbage, reading, writing, updating, th>>
    BY DEF vars
  <2>2. TypeOK' /\ Locks'
    BY <2>1, Zenon DEF IInv, TypeOK, Locks, LockInv
  <2>3. \A u \in Threads : FillsOn(u) /\ WritesOn(u)
    BY <2>1 DEF FillsOn, WritesOn
  <2>4. Arrays'
    <3>1. \A u \in Threads : ReadInv(u)'
      BY <2>1 DEF IInv, Arrays, ReadInv
    <3> QED
      BY <2>1, <2>3, <3>1, QuietArrays DEF IInv, Arrays
  <2>5. Counts'
    BY <2>1, <2>3, QuietCounts
  <2>6. Entries'
    <3>1. \A c \in Classes : EntryInv(c)'
      BY <2>1, <2>3, SameStale, EntryKept
    <3>2. \A u \in Threads : SearchInv(u)'
      BY <2>1, ResultKept, KeyKept, ScanKept DEF SearchInv
    <3> QED
      BY <3>1, <3>2 DEF Entries
  <2> QED
    BY <2>2, <2>4, <2>5, <2>6 DEF IInv
<1> QED
  BY <1>1, <1>2

\* The type invariant, of MethodCache's variables in every state.
THEOREM TypeCorrect == Spec => []TypeOK
<1>1. Init => IInv
  BY InitIInv
<1>2. IInv /\ [Next]_vars => IInv'
  BY NextIInv
<1>3. IInv => TypeOK
  BY DEF IInv
<1> QED
  BY <1>1, <1>2, <1>3, PTL DEF Spec

\* No reader scans freed buckets, or beyond the end of the array it loaded,
\* although it loads the mask and the buckets one after the other without a
\* lock (the scan of objc_msgSend against reallocate, cache_erase_nolock and
\* cache_collect).
THEOREM ReadersScanLiveBuckets == Spec => []ReadsLiveBuckets
<1>1. Init => IInv
  BY InitIInv
<1>2. IInv /\ [Next]_vars => IInv'
  BY NextIInv
<1>3. IInv => ReadsLiveBuckets
  <2> SUFFICES ASSUME IInv, NEW t \in Threads, th[t].pc \in {"scan", "imp"}, th[t].buckets # EmptyCache
               PROVE  Hash[th[t].sel] % (th[t].mask + 1) < buf[th[t].buckets].cap
    BY DEF ReadsLiveBuckets
  <2>1. th[t].mask \in Nat
    BY ThreadTyped DEF IInv, Locals
  <2>2. th[t].buckets \in Buffers /\ buf[th[t].buckets] # Freed /\ th[t].sel \in Sels
    BY HeldArray
  <2>3. th[t].mask + 1 <= buf[th[t].buckets].cap
    BY DEF IInv, Arrays, ReadInv
  <2>4. Hash[th[t].sel] \in Nat /\ buf[th[t].buckets].cap \in Nat
    BY <2>2, ArrayTyped, MethodCacheAssumption
  <2>5. Hash[th[t].sel] % (th[t].mask + 1) \in 0..(th[t].mask + 1) - 1
    <3>1. th[t].mask + 1 \in Nat /\ th[t].mask + 1 > 0
      BY <2>1
    <3> QED
      BY <2>4, <3>1, ModIn
  <2> QED
    BY <2>1, <2>3, <2>4, <2>5
<1> QED
  BY <1>1, <1>2, <1>3, PTL DEF Spec

\* A message gets an implementation that was its own at some moment since it
\* was sent, however its look-up is interleaved with fills, growing caches,
\* collections, replaced methods and flushes (lookUpImpOrForward, cache_fill,
\* flushCaches).
THEOREM MessagesGetCurrentImps == Spec => []ReturnsCurrent
<1>1. Init => IInv
  BY InitIInv
<1>2. IInv /\ [Next]_vars => IInv'
  BY NextIInv
<1>3. IInv => ReturnsCurrent
  BY DEF IInv, Entries, SearchInv, ResultInv, ReturnsCurrent, At
<1> QED
  BY <1>1, <1>2, <1>3, PTL DEF Spec

\* While no method is being changed every cache agrees with the method lists:
\* no fill outlives the flush that should have removed it (cache_fill against
\* flushCaches).
THEOREM CachesAgree == Spec => []CachesAreCurrent
<1>1. Init => IInv
  BY InitIInv
<1>2. IInv /\ [Next]_vars => IInv'
  BY NextIInv
<1>3. IInv => CachesAreCurrent
  <2> SUFFICES ASSUME IInv, writing = NoThread, NEW c \in Classes, NEW s \in Sels, Cached(c, s)
               PROVE  LET b == cache[c].buckets
                          i == Scan(b, s, Hash[s] % (cache[c].mask + 1))
                      IN buf[b].slot[i].imp = Found(methods, c, s)
    BY DEF CachesAreCurrent
  <2> DEFINE b == cache[c].buckets
             h == Hash[s] % (cache[c].mask + 1)
             i == Scan(b, s, h)
  <2>1. b # EmptyCache /\ buf[b].slot[i].key = s
    BY Nones DEF Cached, KeyAt
  <2>2. b \in Buffers /\ buf[b] # Freed
    BY <2>1, LiveCaches
  <2>3. Array(buf[b]) /\ buf[b].cap \in Nat /\ Used(b) # 0..buf[b].cap - 1
    BY <2>2, ArrayTyped
  <2>4. cache[c].mask \in Nat /\ cache[c].mask + 1 <= buf[b].cap
    BY <2>1, CacheTyped, Zenon DEF IInv, Arrays, CacheInv
  <2>5. h \in 0..buf[b].cap - 1
    <3>1. Hash[s] \in Nat
      BY MethodCacheAssumption
    <3>2. cache[c].mask + 1 \in Nat /\ cache[c].mask + 1 > 0
      BY <2>4
    <3>3. h \in 0..(cache[c].mask + 1) - 1
      BY <3>1, <3>2, ModIn
    <3> HIDE DEF h, b
    <3> QED
      BY <2>3, <2>4, <3>3
  <2>6. i \in 0..buf[b].cap - 1
    <3> HIDE DEF h
    <3> QED
      BY <2>3, <2>5, ScanEnds
  <2> HIDE DEF i
  <2>7. buf[b].slot[i].imp = Found(methods, c, s) \/ Stale(c)
    BY <2>1, <2>6, EntryIs
  <2> QED
    BY <2>7, NotStale DEF i
<1> QED
  BY <1>1, <1>2, <1>3, PTL DEF Spec
=============================================================================
