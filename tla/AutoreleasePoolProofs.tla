------------------------ MODULE AutoreleasePoolProofs -----------------------
(***************************************************************************)
(* Theorems about AutoreleasePool, for every set of objects, size of a     *)
(* page, number of entries and nesting of pops, with and without the debug *)
(* mode: the tokens of open pools lead to boundaries, one spare page is    *)
(* kept, and the pages implement the one list of Pools.                    *)
(***************************************************************************)
EXTENDS AutoreleasePool, SequenceTheorems, WellFoundedInduction, TLAPS

-----------------------------------------------------------------------------
\* What is flattened.

\* Induction, with a set for the predicate.
LEMMA Induct ==
    ASSUME NEW S, 0 \in S, \A n \in Nat : n \in S => n + 1 \in S
    PROVE  \A n \in Nat : n \in S
<1> DEFINE T == {n \in Nat : n \notin S}
<1>1. SUFFICES ASSUME T # {} PROVE FALSE
  BY <1>1
<1>2. T \subseteq Nat
  OBVIOUS
<1>3. PICK n \in T : \A m \in T : ~(<<m, n>> \in OpToRel(<, Nat))
  <2> HIDE DEF T
  <2> QED
    BY <1>1, <1>2, WFMin, NatLessThanWellFounded, Zenon
<1>4. \A m \in T : ~(m < n)
  <2> HIDE DEF T
  <2> QED
    BY <1>2, <1>3, Zenon DEF OpToRel
<1>5. n \in Nat /\ n # 0 /\ n \notin S
  OBVIOUS
<1>6. n - 1 \in Nat /\ n - 1 < n /\ (n - 1) + 1 = n
  BY <1>5
<1>7. n - 1 \in S
  BY <1>4, <1>6
<1> QED
  BY <1>5, <1>6, <1>7

\* The recursion of FlattenSeq.
Flattens(f, s, n) == f = [i \in 1..n |-> IF i = 1 THEN s[i] ELSE f[i - 1] \o s[i]]

LEMMA FlattenExists == ASSUME NEW s PROVE \A n \in Nat : \E f : Flattens(f, s, n)
<1> DEFINE S == {n \in Nat : \E f : Flattens(f, s, n)}
<1>1. 0 \in S
  <2>1. Flattens([i \in 1..0 |-> s], s, 0)
    BY DEF Flattens
  <2> QED
    BY <2>1
<1>2. ASSUME NEW n \in Nat, n \in S PROVE n + 1 \in S
  <2>1. PICK f : Flattens(f, s, n)
    BY <1>2
  <2> DEFINE g == [i \in 1..n + 1 |-> IF i = 1 THEN s[i] ELSE f[i - 1] \o s[i]]
  <2>2. ASSUME NEW i \in 1..n PROVE g[i] = f[i]
    <3>1. i \in 1..n + 1
      OBVIOUS
    <3>2. g[i] = IF i = 1 THEN s[i] ELSE f[i - 1] \o s[i]
      BY <3>1
    <3>3. f[i] = IF i = 1 THEN s[i] ELSE f[i - 1] \o s[i]
      BY <2>1 DEF Flattens
    <3> QED
      BY <3>2, <3>3
  <2>3. ASSUME NEW i \in 1..n + 1, i # 1 PROVE g[i - 1] = f[i - 1]
    <3>1. i - 1 \in 1..n
      BY <2>3
    <3> HIDE DEF g
    <3> QED
      BY <2>2, <3>1
  <2>4. Flattens(g, s, n + 1)
    BY <2>3 DEF Flattens
  <2> HIDE DEF g
  <2> QED
    BY <2>4
<1> HIDE DEF S
<1>3. \A n \in Nat : n \in S
  BY <1>1, <1>2, Induct
<1> QED
  BY <1>3 DEF S

\* It has one solution, which depends on what it has read.
LEMMA FlattenUnique ==
    ASSUME NEW s, NEW t, NEW f, NEW g, NEW n \in Nat, NEW k \in Nat, k <= n,
           Flattens(f, s, n), Flattens(g, t, k), \A i \in 1..k : s[i] = t[i]
    PROVE  \A i \in 1..k : f[i] = g[i]
<1> DEFINE S == {j \in Nat : j \in 1..k => f[j] = g[j]}
<1>1. 0 \in S
  OBVIOUS
<1>2. ASSUME NEW j \in Nat, j \in S PROVE j + 1 \in S
  <2>1. CASE j + 1 \in 1..k
    <3>1. j + 1 \in 1..n /\ (j + 1) - 1 = j
      BY <2>1
    <3>2. f[j + 1] = IF j + 1 = 1 THEN s[j + 1] ELSE f[j] \o s[j + 1]
      BY <3>1 DEF Flattens
    <3>3. g[j + 1] = IF j + 1 = 1 THEN t[j + 1] ELSE g[j] \o t[j + 1]
      BY <2>1, <3>1 DEF Flattens
    <3>4. j + 1 # 1 => f[j] = g[j]
      BY <1>2, <2>1
    <3> QED
      BY <2>1, <3>2, <3>3, <3>4
  <2> QED
    BY <2>1
<1> HIDE DEF S
<1>3. \A j \in Nat : j \in S
  BY <1>1, <1>2, Induct
<1> QED
  BY <1>3 DEF S

LEMMA FlattenIs ==
    ASSUME NEW s, Len(s) \in Nat, Len(s) # 0
    PROVE  \E f : Flattens(f, s, Len(s)) /\ FlattenSeq(s) = f[Len(s)]
<1> DEFINE h == CHOOSE f : Flattens(f, s, Len(s))
<1>1. Flattens(h, s, Len(s))
  BY FlattenExists, Zenon
<1>2. FlattenSeq(s) = h[Len(s)]
  BY Zenon DEF FlattenSeq, Flattens
<1> HIDE DEF h
<1> QED
  BY <1>1, <1>2

\* The entries of the first i of pages s.
Flat(s, i) == FlattenSeq(SubSeq(s, 1, i))

LEMMA FlatZero == ASSUME NEW s PROVE Flat(s, 0) = <<>>
<1>1. SubSeq(s, 1, 0) = <<>>
  BY SubSeqEmpty
<1> QED
  BY <1>1 DEF Flat, FlattenSeq

LEMMA FlatStep ==
    ASSUME NEW E, NEW s \in Seq(Seq(E)), NEW i \in 1..Len(s), Flat(s, i - 1) \in Seq(E)
    PROVE  Flat(s, i) = Flat(s, i - 1) \o s[i]
<1> DEFINE u == SubSeq(s, 1, i)
           v == SubSeq(s, 1, i - 1)
<1>0. i \in Nat /\ i - 1 \in Nat /\ i \in Int /\ i - 1 \in Int /\ 1 <= i /\ 1 \in Int
  OBVIOUS
<1>1. Len(u) = i /\ \A j \in 1..i : u[j] = s[j]
  BY SubSeqProperties
<1>2. Len(v) = i - 1 /\ \A j \in 1..i - 1 : v[j] = s[j]
  BY SubSeqProperties
<1>3. s[i] \in Seq(E)
  BY ElementOfSeq
<1> HIDE DEF u, v
<1>4. PICK f : Flattens(f, u, i) /\ FlattenSeq(u) = f[i]
  BY <1>0, <1>1, FlattenIs
<1>5. CASE i = 1
  <2>1. f[1] = s[1]
    BY <1>0, <1>1, <1>4, <1>5 DEF Flattens
  <2>2. Flat(s, i - 1) = <<>>
    BY <1>5, FlatZero
  <2> QED
    BY <1>3, <1>4, <1>5, <2>1, <2>2, ConcatEmptySeq DEF Flat, u
<1>6. CASE i # 1
  <2>1. PICK g : Flattens(g, v, i - 1) /\ FlattenSeq(v) = g[i - 1]
    <3>1. Len(v) \in Nat /\ Len(v) # 0
      BY <1>0, <1>2, <1>6
    <3> QED
      BY <1>2, <3>1, FlattenIs
  <2>2. ASSUME NEW j \in 1..i - 1 PROVE u[j] = v[j]
    <3>1. j \in 1..i
      BY <1>0
    <3>2. u[j] = s[j]
      BY <1>1, <3>1
    <3>3. v[j] = s[j]
      BY <1>2
    <3> QED
      BY <3>2, <3>3
  <2>3. \A j \in 1..i - 1 : f[j] = g[j]
    <3>1. i - 1 <= i
      BY <1>0
    <3>2. Flattens(f, u, i) /\ Flattens(g, v, i - 1)
      BY <1>4, <2>1
    <3> DEFINE k == i - 1
    <3>3. k \in Nat /\ k <= i /\ Flattens(g, v, k) /\ \A j \in 1..k : u[j] = v[j]
      BY <1>0, <2>2, <3>1, <3>2
    <3>4. i \in Nat /\ Flattens(f, u, i)
      BY <1>0, <3>2
    <3> HIDE DEF k
    <3>5. \A j \in 1..k : f[j] = g[j]
      BY ONLY <3>3, <3>4, FlattenUnique, SMTT(30)
    <3> QED
      BY <3>5 DEF k
  <2>4. f[i] = f[i - 1] \o u[i]
    <3>1. i \in 1..i
      BY <1>0
    <3>2. f[i] = IF i = 1 THEN u[i] ELSE f[i - 1] \o u[i]
      BY <1>4, <3>1 DEF Flattens
    <3> QED
      BY <1>6, <3>2
  <2> QED
    <3>1. i - 1 \in 1..i - 1 /\ i \in 1..i
      BY <1>0, <1>6
    <3>2. f[i - 1] = g[i - 1] /\ u[i] = s[i]
      BY <1>1, <2>3, <3>1
    <3>3. Flat(s, i) = f[i] /\ Flat(s, i - 1) = g[i - 1]
      BY <1>4, <2>1 DEF Flat, u, v
    <3> QED
      BY <2>4, <3>2, <3>3
<1> QED
  BY <1>5, <1>6

LEMMA FlatTyped ==
    ASSUME NEW E, NEW s \in Seq(Seq(E))
    PROVE  \A i \in 0..Len(s) : Flat(s, i) \in Seq(E)
<1> DEFINE S == {i \in Nat : i <= Len(s) => Flat(s, i) \in Seq(E)}
<1>0. Len(s) \in Nat
  BY LenProperties
<1>1. 0 \in S
  BY FlatZero, EmptySeq
<1>2. ASSUME NEW i \in Nat, i \in S PROVE i + 1 \in S
  <2>1. CASE i + 1 <= Len(s)
    <3>1. i + 1 \in 1..Len(s) /\ (i + 1) - 1 = i /\ Flat(s, i) \in Seq(E)
      BY <1>0, <1>2, <2>1
    <3>2. s[i + 1] \in Seq(E)
      BY <3>1, ElementOfSeq
    <3>3. Flat(s, i + 1) = Flat(s, i) \o s[i + 1]
      BY <3>1, FlatStep
    <3>4. Flat(s, i) \o s[i + 1] \in Seq(E)
      BY <3>1, <3>2, ConcatProperties
    <3>5. Flat(s, i + 1) \in Seq(E)
      BY <3>3, <3>4
    <3> QED
      BY <3>5
  <2> QED
    BY <2>1
<1> HIDE DEF S
<1>3. \A i \in Nat : i \in S
  BY <1>1, <1>2, Induct
<1> QED
  BY <1>3 DEF S

\* One page more.
LEMMA FlatNext ==
    ASSUME NEW E, NEW s \in Seq(Seq(E)), NEW i \in 1..Len(s)
    PROVE  /\ s[i] \in Seq(E) /\ Flat(s, i - 1) \in Seq(E) /\ Flat(s, i) \in Seq(E)
           /\ Flat(s, i) = Flat(s, i - 1) \o s[i]
           /\ Len(s[i]) \in Nat /\ Len(Flat(s, i - 1)) \in Nat
           /\ Len(Flat(s, i)) = Len(Flat(s, i - 1)) + Len(s[i])
<1>0. Len(s) \in Nat
  BY LenProperties
<1>1. i - 1 \in 0..Len(s) /\ i \in 0..Len(s)
  BY <1>0
<1>2. Flat(s, i - 1) \in Seq(E) /\ Flat(s, i) \in Seq(E)
  BY <1>1, FlatTyped
<1>3. s[i] \in Seq(E)
  BY ElementOfSeq
<1>4. Flat(s, i) = Flat(s, i - 1) \o s[i]
  BY <1>2, FlatStep
<1>5. Len(Flat(s, i - 1) \o s[i]) = Len(Flat(s, i - 1)) + Len(s[i])
  BY <1>2, <1>3, ConcatProperties
<1>6. Len(s[i]) \in Nat /\ Len(Flat(s, i - 1)) \in Nat
  BY <1>2, <1>3, LenProperties
<1> QED
  BY <1>2, <1>3, <1>4, <1>5, <1>6

\* What is in one page is in all that follow.
LEMMA FlatGrows ==
    ASSUME NEW E, NEW s \in Seq(Seq(E)), NEW i \in 0..Len(s)
    PROVE  \A j \in i..Len(s) : /\ Len(Flat(s, i)) <= Len(Flat(s, j))
                                /\ \A a \in 1..Len(Flat(s, i)) : Flat(s, j)[a] = Flat(s, i)[a]
<1>0. Len(s) \in Nat /\ i \in Nat
  BY LenProperties
<1> DEFINE P(j) == /\ Len(Flat(s, i)) <= Len(Flat(s, j))
                   /\ \A a \in 1..Len(Flat(s, i)) : Flat(s, j)[a] = Flat(s, i)[a]
           S == {k \in Nat : i + k <= Len(s) => P(i + k)}
<1>1. 0 \in S
  <2>1. Flat(s, i) \in Seq(E)
    BY FlatTyped
  <2>2. Len(Flat(s, i)) \in Nat
    BY <2>1, LenProperties
  <2>3. i + 0 = i
    BY <1>0
  <2> QED
    BY <2>2, <2>3
<1>2. ASSUME NEW k \in Nat, k \in S PROVE k + 1 \in S
  <2> DEFINE j == i + k
  <2>1. CASE j + 1 <= Len(s)
    <3>1. j + 1 \in 1..Len(s) /\ (j + 1) - 1 = j /\ i + (k + 1) = j + 1 /\ j \in 0..Len(s)
      BY <1>0, <2>1
    <3>2. P(j)
      BY <1>0, <1>2, <3>1
    <3> HIDE DEF j
    <3>3. /\ s[j + 1] \in Seq(E) /\ Flat(s, j) \in Seq(E) /\ Flat(s, j + 1) \in Seq(E)
          /\ Flat(s, j + 1) = Flat(s, j) \o s[j + 1]
          /\ Len(s[j + 1]) \in Nat /\ Len(Flat(s, j)) \in Nat
          /\ Len(Flat(s, j + 1)) = Len(Flat(s, j)) + Len(s[j + 1])
      BY <3>1, FlatNext
    <3>4. Flat(s, i) \in Seq(E) /\ Len(Flat(s, i)) \in Nat
      BY FlatTyped, LenProperties
    <3>5. ASSUME NEW a \in 1..Len(Flat(s, i)) PROVE Flat(s, j + 1)[a] = Flat(s, i)[a]
      <4>1. a \in 1..Len(Flat(s, j)) + Len(s[j + 1]) /\ a <= Len(Flat(s, j))
        BY <3>2, <3>3, <3>4
      <4>2. (Flat(s, j) \o s[j + 1])[a] = Flat(s, j)[a]
        BY <3>3, <4>1, ConcatProperties
      <4> QED
        BY <3>2, <3>3, <4>2
    <3>6. Len(Flat(s, i)) <= Len(Flat(s, j + 1))
      BY <3>2, <3>3, <3>4
    <3>7. P(j + 1)
      BY <3>5, <3>6
    <3> HIDE DEF P
    <3>8. P(i + (k + 1))
      BY <3>1, <3>7
    <3> QED
      BY <3>8
  <2>2. CASE ~(j + 1 <= Len(s))
    <3>1. ~(i + (k + 1) <= Len(s))
      BY <1>0, <2>2
    <3> QED
      BY <3>1
  <2> QED
    BY <2>1, <2>2
<1> HIDE DEF S
<1>3. \A k \in Nat : k \in S
  BY <1>1, <1>2, Induct
<1>4. ASSUME NEW j \in i..Len(s) PROVE P(j)
  <2>1. j - i \in Nat /\ i + (j - i) = j /\ j <= Len(s)
    BY <1>0
  <2>2. j - i \in S
    BY <1>3, <2>1
  <2> HIDE DEF P
  <2> QED
    BY <2>1, <2>2 DEF S
<1> QED
  BY <1>4

\* Where the entries of a page are.
LEMMA FlatEntry ==
    ASSUME NEW E, NEW s \in Seq(Seq(E)), NEW i \in 1..Len(s), NEW j \in i..Len(s),
           NEW a \in 1..Len(s[i])
    PROVE  /\ Len(Flat(s, i - 1)) + a \in 1..Len(Flat(s, j))
           /\ Flat(s, j)[Len(Flat(s, i - 1)) + a] = s[i][a]
<1>0. Len(s) \in Nat /\ i \in Nat
  BY LenProperties
<1>1. /\ s[i] \in Seq(E) /\ Flat(s, i - 1) \in Seq(E) /\ Flat(s, i) \in Seq(E)
      /\ Flat(s, i) = Flat(s, i - 1) \o s[i]
      /\ Len(s[i]) \in Nat /\ Len(Flat(s, i - 1)) \in Nat
      /\ Len(Flat(s, i)) = Len(Flat(s, i - 1)) + Len(s[i])
  BY FlatNext
<1> DEFINE n == Len(Flat(s, i - 1)) + a
<1>2. n \in 1..Len(Flat(s, i - 1)) + Len(s[i]) /\ ~(n <= Len(Flat(s, i - 1)))
      /\ n - Len(Flat(s, i - 1)) = a
  BY <1>1
<1>3. (Flat(s, i - 1) \o s[i])[n] = s[i][a]
  <2> HIDE DEF n
  <2>1. (Flat(s, i - 1) \o s[i])[n] = s[i][n - Len(Flat(s, i - 1))]
    BY <1>1, <1>2, ConcatProperties
  <2> QED
    BY <1>2, <2>1
<1>4. i \in 0..Len(s) /\ j \in i..Len(s)
  BY <1>0
<1>5. /\ Len(Flat(s, i)) <= Len(Flat(s, j))
      /\ \A b \in 1..Len(Flat(s, i)) : Flat(s, j)[b] = Flat(s, i)[b]
  BY <1>4, FlatGrows
<1>6. Flat(s, j) \in Seq(E)
  <2>1. j \in 0..Len(s)
    BY <1>0
  <2> QED
    BY <2>1, FlatTyped
<1>7. Len(Flat(s, j)) \in Nat
  BY <1>6, LenProperties
<1> HIDE DEF n
<1>8. n \in 1..Len(Flat(s, i)) /\ n \in 1..Len(Flat(s, j))
  <2>1. n \in Nat /\ 1 <= n /\ n <= Len(Flat(s, i))
    BY <1>1, <1>2
  <2>2. Len(Flat(s, i)) \in Nat
    BY <1>1, LenProperties
  <2>3. Len(Flat(s, i)) <= Len(Flat(s, j))
    BY <1>5
  <2>4. n <= Len(Flat(s, j))
    BY <1>7, <2>1, <2>2, <2>3
  <2> QED
    BY <1>7, <2>1, <2>2, <2>4
<1>9. Flat(s, j)[n] = s[i][a]
  BY <1>1, <1>3, <1>5, <1>8
<1> QED
  BY <1>8, <1>9 DEF n

\* Pages without entries add none.
LEMMA FlatEmpty ==
    ASSUME NEW E, NEW s \in Seq(Seq(E)), NEW i \in 0..Len(s),
           \A j \in i + 1..Len(s) : s[j] = <<>>
    PROVE  \A j \in i..Len(s) : Flat(s, j) = Flat(s, i)
<1>0. Len(s) \in Nat /\ i \in Nat
  BY LenProperties
<1> DEFINE S == {k \in Nat : i + k <= Len(s) => Flat(s, i + k) = Flat(s, i)}
<1>1. 0 \in S
  <2>1. i + 0 = i
    BY <1>0
  <2> QED
    BY <2>1
<1>2. ASSUME NEW k \in Nat, k \in S PROVE k + 1 \in S
  <2> DEFINE j == i + k
  <2>1. CASE j + 1 <= Len(s)
    <3>1. j + 1 \in 1..Len(s) /\ (j + 1) - 1 = j /\ i + (k + 1) = j + 1 /\ j + 1 \in i + 1..Len(s)
      BY <1>0, <2>1
    <3>2. Flat(s, j) = Flat(s, i)
      BY <1>0, <1>2, <3>1
    <3> HIDE DEF j
    <3>3. Flat(s, j) \in Seq(E) /\ Flat(s, j + 1) = Flat(s, j) \o s[j + 1]
      BY <3>1, FlatNext
    <3>4. Flat(s, j + 1) = Flat(s, j)
      BY <3>1, <3>3, ConcatEmptySeq
    <3> QED
      BY <3>1, <3>2, <3>4
  <2>2. CASE ~(j + 1 <= Len(s))
    <3>1. ~(i + (k + 1) <= Len(s))
      BY <1>0, <2>2
    <3> QED
      BY <3>1
  <2> QED
    BY <2>1, <2>2
<1> HIDE DEF S
<1>3. \A k \in Nat : k \in S
  BY <1>1, <1>2, Induct
<1>4. ASSUME NEW j \in i..Len(s) PROVE Flat(s, j) = Flat(s, i)
  <2>1. j - i \in Nat /\ i + (j - i) = j /\ j <= Len(s)
    BY <1>0
  <2>2. j - i \in S
    BY <1>3, <2>1
  <2> QED
    BY <2>1, <2>2 DEF S
<1> QED
  BY <1>4

\* Only the pages it is of count.
LEMMA FlatSame ==
    ASSUME NEW E, NEW s \in Seq(Seq(E)), NEW t \in Seq(Seq(E)), NEW i \in Nat,
           i <= Len(s), i <= Len(t), \A j \in 1..i : s[j] = t[j]
    PROVE  Flat(s, i) = Flat(t, i)
<1>0. Len(s) \in Nat /\ Len(t) \in Nat
  BY LenProperties
<1>1. \A j \in 1..i : s[j] \in Seq(E) /\ t[j] \in Seq(E)
  <2>1. \A j \in 1..i : j \in 1..Len(s) /\ j \in 1..Len(t)
    BY <1>0
  <2> QED
    BY <2>1, ElementOfSeq
<1>2. i \in Int /\ 1 \in Int /\ Len(SubSeq(s, 1, i)) \in Nat
      /\ (IF 1 <= i THEN i - 1 + 1 ELSE 0) = i /\ i - 1 + 1 = i
  <2>1. i \in Int /\ 1 \in Int
    OBVIOUS
  <2>2. SubSeq(s, 1, i) \in Seq(Seq(E))
    BY <1>1, <2>1, SubSeqProperties
  <2> QED
    BY <2>1, <2>2, LenProperties
<1>3. SubSeq(s, 1, i) \in Seq(Seq(E)) /\ Len(SubSeq(s, 1, i)) = i
      /\ \A j \in 1..i : SubSeq(s, 1, i)[j] = s[j]
  BY <1>1, <1>2, SubSeqProperties
<1>4. SubSeq(t, 1, i) \in Seq(Seq(E)) /\ Len(SubSeq(t, 1, i)) = i
      /\ \A j \in 1..i : SubSeq(t, 1, i)[j] = t[j]
  BY <1>1, <1>2, SubSeqProperties
<1>5. SubSeq(s, 1, i) = SubSeq(t, 1, i)
  BY <1>3, <1>4, SeqEqual
<1> QED
  BY <1>5 DEF Flat

LEMMA FlatWhole ==
    ASSUME NEW E, NEW s \in Seq(Seq(E))
    PROVE  Flat(s, Len(s)) = FlattenSeq(s) /\ FlattenSeq(s) \in Seq(E)
<1>1. Flat(s, Len(s)) = FlattenSeq(s)
  BY SubSeqFull DEF Flat
<1>2. Len(s) \in 0..Len(s)
  BY LenProperties
<1> QED
  BY <1>1, <1>2, FlatTyped
-----------------------------------------------------------------------------
\* The inductive invariant.

Entries == Objects \cup {Boundary}

TypeOK ==
    /\ pages \in Seq(Seq(Entries)) /\ hot \in 0..Len(pages)
    /\ placeholder \in BOOLEAN /\ client \in BOOLEAN /\ exiting \in BOOLEAN
    /\ DebugPoolAllocation \in BOOLEAN
    /\ tokens \in Seq([page : Nat, at : Nat])
    /\ pops \in Seq([page : Nat, stop : Nat, opened : Nat])

Below(p, i, q, j) == p < q \/ (p = q /\ i < j)

Where(k) == Start(tokens[k])

\* Without the debug mode the pages below the hot one are full.  In it an empty
\* coldest page is being popped.
PagesInv ==
    /\ hot = 0 => pages = <<>>
    /\ \A p \in 1..Len(pages) : Len(pages[p]) <= COUNT
    /\ \A p \in hot + 1..Len(pages) : pages[p] = <<>>
    /\ ~DebugPoolAllocation => \A p \in 1..hot - 1 : Full(p)
    /\ placeholder => hot = 0 /\ ~DebugPoolAllocation
    /\ DebugPoolAllocation /\ hot # 0 /\ pages[1] = <<>> => pops # <<>> /\ pops[1].page = 1
    /\ pops = <<>> => Len(pages) <= hot + 1

\* A token leads to a boundary, above those of the pools it is in.
Leads(k) ==
    /\ Where(k).page \in 1..Len(pages)
    /\ Where(k).at < Len(pages[Where(k).page])
    /\ pages[Where(k).page][Where(k).at + 1] = Boundary

TokenInv(k) ==
    /\ (tokens[k] = Placeholder /\ placeholder) \/ Leads(k)
    /\ \A j \in 1..k - 1 : Below(Where(j).page, Where(j).at, Where(k).page, Where(k).at)
    /\ DebugPoolAllocation => tokens[k] # Placeholder /\ Where(k).at = 0

\* In the debug mode, when a pop has released its page and there are pages above
\* it, the first of them is of a pool that its releases pushed.
Ahead(n) ==
    \/ /\ pops[n].opened < Len(tokens)
       /\ Where(pops[n].opened + 1).page = pops[n].page + 1
    \/ n < Len(pops) /\ pops[n + 1].page = pops[n].page + 1

\* A pop stops at a place that is there.
PopPlace(n) ==
    /\ pops[n].page \in 1..hot /\ pops[n].stop < COUNT
    /\ pops[n].stop <= Len(pages[pops[n].page])

\* It is above the pools it leaves open, and below those its releases pushed.
PopTokens(n) ==
    /\ pops[n].opened <= Len(tokens)
    /\ \A k \in 1..pops[n].opened :
          Below(Where(k).page, Where(k).at, pops[n].page, pops[n].stop)
    /\ \A k \in pops[n].opened + 1..Len(tokens) :
          /\ ~Below(Where(k).page, Where(k).at, pops[n].page, pops[n].stop)
          /\ DebugPoolAllocation => pops[n].page < Where(k).page

\* It is above the pops it is nested in.
PopOrder(n) ==
    \A m \in 1..n - 1 :
        /\ pops[m].opened <= pops[n].opened
        /\ ~Below(pops[n].page, pops[n].stop, pops[m].page, pops[m].stop)
        /\ DebugPoolAllocation => pops[m].page < pops[n].page

PopAlone(n) ==
    DebugPoolAllocation =>
        /\ pops[n].stop = 0
        /\ pages[pops[n].page] = <<>> /\ pops[n].page < hot => Ahead(n)

PopInv(n) == PopPlace(n) /\ PopTokens(n) /\ PopOrder(n) /\ PopAlone(n)

\* What tls_dealloc pops.
AtExit == [page |-> 1, stop |-> 0, opened |-> 0]

LoopInv ==
    /\ ~client => pops # <<>> /\ Len(tokens) = Opened
    /\ exiting /\ pops # <<>> => pops[1] = AtExit

IInv ==
    /\ TypeOK /\ PagesInv /\ LoopInv
    /\ \A k \in 1..Len(tokens) : TokenInv(k)
    /\ \A n \in 1..Len(pops) : PopInv(n)
-----------------------------------------------------------------------------
Token == [page : Nat, at : Nat]
Popping == [page : Nat, stop : Nat, opened : Nat]

LEMMA CountIs == COUNT \in Nat /\ 2 <= COUNT
BY PoolAssumption

LEMMA PagesTyped ==
    ASSUME TypeOK
    PROVE  /\ Len(pages) \in Nat /\ hot \in Nat /\ hot <= Len(pages)
           /\ \A p \in 1..Len(pages) : pages[p] \in Seq(Entries) /\ Len(pages[p]) \in Nat
<1>1. pages \in Seq(Seq(Entries)) /\ hot \in 0..Len(pages)
  BY DEF TypeOK
<1>2. Len(pages) \in Nat
  BY <1>1, LenProperties
<1>3. \A p \in 1..Len(pages) : pages[p] \in Seq(Entries)
  BY <1>1, ElementOfSeq
<1> QED
  BY <1>1, <1>2, <1>3, LenProperties

LEMMA TokensTyped ==
    ASSUME TypeOK
    PROVE  /\ tokens \in Seq(Token) /\ Len(tokens) \in Nat
           /\ \A k \in 1..Len(tokens) : Where(k).page \in Nat /\ Where(k).at \in Nat
<1>1. tokens \in Seq(Token)
  BY DEF TypeOK, Token
<1>2. \A k \in 1..Len(tokens) : tokens[k] \in Token
  BY <1>1, ElementOfSeq
<1> QED
  BY <1>1, <1>2, LenProperties DEF Token, Where, Start

LEMMA PopsTyped ==
    ASSUME TypeOK
    PROVE  /\ pops \in Seq(Popping) /\ Len(pops) \in Nat /\ (pops # <<>> <=> Len(pops) # 0)
           /\ \A n \in 1..Len(pops) : /\ pops[n] \in Popping /\ pops[n].page \in Nat
                                      /\ pops[n].stop \in Nat /\ pops[n].opened \in Nat
<1>1. pops \in Seq(Popping)
  BY DEF TypeOK, Popping
<1>2. \A n \in 1..Len(pops) : pops[n] \in Popping
  BY <1>1, ElementOfSeq
<1>3. pops # <<>> <=> Len(pops) # 0
  BY <1>1, EmptySeq
<1> QED
  BY <1>1, <1>2, <1>3, LenProperties DEF Popping

\* The prefixes of a sequence.
LEMMA Cut ==
    ASSUME NEW S, NEW s \in Seq(S), NEW n \in 0..Len(s)
    PROVE  /\ SubSeq(s, 1, n) \in Seq(S) /\ Len(SubSeq(s, 1, n)) = n
           /\ \A i \in 1..n : SubSeq(s, 1, n)[i] = s[i]
<1>1. Len(s) \in Nat
  BY LenProperties
<1>2. n \in Int /\ 1 \in Int /\ \A i \in 1..n : i \in 1..Len(s)
  BY <1>1
<1>3. \A i \in 1..n : s[i] \in S
  BY <1>2, ElementOfSeq
<1>4. /\ SubSeq(s, 1, n) \in Seq(S)
      /\ Len(SubSeq(s, 1, n)) = IF 1 <= n THEN n - 1 + 1 ELSE 0
      /\ \A i \in 1..n - 1 + 1 : SubSeq(s, 1, n)[i] = s[1 + i - 1]
  BY <1>2, <1>3, SubSeqProperties
<1> QED
  BY <1>1, <1>4

LEMMA FrontIs ==
    ASSUME NEW S, NEW s \in Seq(S), s # <<>>
    PROVE  /\ Front(s) \in Seq(S) /\ Len(s) \in Nat \ {0} /\ Len(Front(s)) = Len(s) - 1
           /\ \A i \in 1..Len(s) - 1 : Front(s)[i] = s[i]
           /\ Last(s) \in S /\ s = Append(Front(s), Last(s))
<1>1. Len(s) \in Nat \ {0}
  BY EmptySeq
<1>2. Len(s) - 1 \in 0..Len(s) /\ Len(s) \in 1..Len(s)
  BY <1>1
<1>3. /\ Front(s) \in Seq(S) /\ Len(Front(s)) = Len(s) - 1
      /\ \A i \in 1..Len(s) - 1 : Front(s)[i] = s[i]
  BY <1>2, Cut DEF Front
<1>4. Last(s) \in S
  BY <1>2, ElementOfSeq DEF Last
<1>5. /\ Append(Front(s), Last(s)) \in Seq(S)
      /\ Len(Append(Front(s), Last(s))) = Len(Front(s)) + 1
      /\ \A i \in 1..Len(Front(s)) : Append(Front(s), Last(s))[i] = Front(s)[i]
      /\ Append(Front(s), Last(s))[Len(Front(s)) + 1] = Last(s)
  BY <1>3, <1>4, AppendProperties
<1>6. Len(s) = Len(Append(Front(s), Last(s)))
  BY <1>1, <1>3, <1>5
<1>7. ASSUME NEW i \in 1..Len(s) PROVE s[i] = Append(Front(s), Last(s))[i]
  <2>1. CASE i = Len(s)
    BY <1>1, <1>3, <1>5, <2>1 DEF Last
  <2>2. CASE i # Len(s)
    BY <1>1, <1>3, <1>5, <2>2
  <2> QED
    BY <2>1, <2>2
<1> QED
  BY <1>1, <1>3, <1>4, <1>5, <1>6, <1>7, SeqEqual

LEMMA InitIInv == ASSUME Init PROVE IInv
<1>1. TypeOK
  <2>1. \A S : <<>> \in Seq(S) /\ Len(<<>>) = 0
    BY EmptySeq
  <2>2. DebugPoolAllocation \in BOOLEAN
    BY PoolAssumption DEF Init
  <2>3. pages \in Seq(Seq(Entries)) /\ tokens \in Seq([page : Nat, at : Nat])
        /\ pops \in Seq([page : Nat, stop : Nat, opened : Nat])
    BY <2>1 DEF Init
  <2>4. hot \in 0..Len(pages)
    BY <2>1 DEF Init
  <2> QED
    BY <2>2, <2>3, <2>4 DEF Init, TypeOK
<1> QED
  BY <1>1 DEF Init, IInv, PagesInv, LoopInv

LEMMA StutterIInv == ASSUME IInv, UNCHANGED vars PROVE IInv'
<1>1. TypeOK'
  BY DEF vars, IInv, TypeOK
<1>2. PagesInv' /\ LoopInv'
  BY DEF vars, IInv, PagesInv, LoopInv, Full, Opened
<1>3. \A k \in 1..Len(tokens) : TokenInv(k)'
  BY DEF vars, IInv, TokenInv, Leads, Where
<1>4. \A n \in 1..Len(pops) : PopInv(n)'
  BY DEF vars, IInv, PopInv, PopPlace, PopTokens, PopOrder, PopAlone, Ahead, Where
<1> QED
  BY <1>1, <1>2, <1>3, <1>4 DEF vars, IInv
-----------------------------------------------------------------------------
\* An entry is added to the pages.

Old(p) == IF p > Len(pages) THEN <<>> ELSE pages[p]

\* The next page that is not full is the next one.
LEMMA NextPageIs == ASSUME IInv, hot # 0 PROVE NextPage = hot + 1
<1>1. TypeOK /\ PagesInv
  BY DEF IInv
<1>2. /\ Len(pages) \in Nat /\ hot \in Nat /\ hot <= Len(pages)
  BY <1>1, PagesTyped
<1>3. \A p \in hot + 1..Len(pages) : pages[p] = <<>>
  BY <1>1 DEF PagesInv
<1>4. \A p \in hot + 1..Len(pages) : ~Full(p)
  <2>1. Len(<<>>) = 0 /\ COUNT # 0
    BY CountIs, EmptySeq
  <2> QED
    BY <1>3, <2>1 DEF Full
<1> DEFINE Next1(p) == (p <= Len(pages) => ~Full(p)) /\ \A q \in hot + 1..p - 1 : Full(q)
<1>5. hot + 1 \in hot + 1..Len(pages) + 1
  BY <1>2
<1>6. Next1(hot + 1)
  <2>1. \A q \in hot + 1..(hot + 1) - 1 : FALSE
    BY <1>2
  <2>2. hot + 1 <= Len(pages) => hot + 1 \in hot + 1..Len(pages)
    BY <1>2
  <2> QED
    BY <1>4, <2>1, <2>2
<1>7. ASSUME NEW p \in hot + 1..Len(pages) + 1, Next1(p) PROVE p = hot + 1
  <2>1. CASE p # hot + 1
    <3>1. hot + 1 \in hot + 1..p - 1 /\ hot + 1 \in hot + 1..Len(pages)
      BY <1>2, <2>1
    <3>2. Full(hot + 1)
      BY <1>7, <3>1
    <3> QED
      BY <1>4, <3>1, <3>2
  <2> QED
    BY <2>1
<1>8. NextPage = CHOOSE p \in hot + 1..Len(pages) + 1 : Next1(p)
  BY DEF NextPage
<1> HIDE DEF Next1
<1> QED
  BY <1>5, <1>6, <1>7, <1>8

LEMMA PageForIs ==
    ASSUME IInv, hot # 0, NEW x \in Entries
    PROVE  /\ PageFor(x) \in Nat \ {0} /\ PageFor(x) \in {hot, hot + 1}
           /\ PageFor(x) = hot => Old(hot) = pages[hot]
           /\ PageFor(x) = hot + 1 => /\ Old(hot + 1) = <<>>
                                      /\ Full(hot) \/ (x = Boundary /\ DebugPoolAllocation)
           /\ x = Boundary /\ DebugPoolAllocation => PageFor(x) = hot + 1
           /\ Old(PageFor(x)) \in Seq(Entries) /\ Len(Old(PageFor(x))) \in Nat
           /\ Len(Old(PageFor(x))) < COUNT
           /\ Place(PageFor(x)) = [page |-> PageFor(x), at |-> Len(Old(PageFor(x)))]
<1>1. TypeOK /\ PagesInv
  BY DEF IInv
<1>2. /\ Len(pages) \in Nat /\ hot \in Nat /\ hot <= Len(pages) /\ hot \in 1..Len(pages)
      /\ \A p \in 1..Len(pages) : pages[p] \in Seq(Entries) /\ Len(pages[p]) \in Nat
  BY <1>1, PagesTyped
<1>3. \A S : <<>> \in Seq(S) /\ Len(<<>>) = 0
  BY EmptySeq
<1>4. PageFor(x) = IF Full(hot) \/ (x = Boundary /\ DebugPoolAllocation) THEN hot + 1 ELSE hot
  BY NextPageIs DEF PageFor
<1>5. Old(hot) = pages[hot] /\ Old(hot + 1) = <<>>
  <2>1. hot + 1 <= Len(pages) => pages[hot + 1] = <<>>
    BY <1>1, <1>2 DEF PagesInv
  <2> QED
    BY <1>2, <2>1 DEF Old
<1>6. Place(PageFor(x)) = [page |-> PageFor(x), at |-> Len(Old(PageFor(x)))]
  BY <1>3 DEF Place, Old
<1>7. CASE PageFor(x) = hot
  <2>1. ~Full(hot) /\ ~(x = Boundary /\ DebugPoolAllocation)
    BY <1>2, <1>4, <1>7
  <2>2. Len(pages[hot]) <= COUNT /\ Len(pages[hot]) # COUNT
    BY <1>1, <1>2, <2>1 DEF PagesInv, Full
  <2> QED
    BY <1>2, <1>5, <1>6, <1>7, <2>1, <2>2, CountIs
<1>8. CASE PageFor(x) = hot + 1
  <2>1. Full(hot) \/ (x = Boundary /\ DebugPoolAllocation)
    BY <1>2, <1>4, <1>8
  <2>2. Len(Old(PageFor(x))) = 0 /\ Old(PageFor(x)) \in Seq(Entries)
    BY <1>3, <1>5, <1>8
  <2> QED
    BY <1>2, <1>5, <1>6, <1>8, <2>1, <2>2, CountIs
<1> QED
  BY <1>2, <1>4, <1>7, <1>8

\* What AddTo does to the pages.
LEMMA AddToIs ==
    ASSUME IInv, hot # 0, NEW x \in Entries, NEW p, p = PageFor(x), AddTo(p, x)
    PROVE  /\ hot' = p /\ ~placeholder' /\ ~placeholder
           /\ pages' \in Seq(Seq(Entries))
           /\ Len(pages') \in {Len(pages), p} /\ Len(pages) <= Len(pages')
           /\ p \in 1..Len(pages')
           /\ \A q \in 1..Len(pages) : q # p => pages'[q] = pages[q]
           /\ pages'[p] = Append(Old(p), x)
<1>1. TypeOK /\ PagesInv
  BY DEF IInv
<1>2. /\ Len(pages) \in Nat /\ hot \in Nat /\ hot <= Len(pages) /\ pages \in Seq(Seq(Entries))
      /\ \A q \in 1..Len(pages) : pages[q] \in Seq(Entries) /\ Len(pages[q]) \in Nat
  BY <1>1, PagesTyped DEF TypeOK
<1>3. p \in Nat \ {0} /\ p \in {hot, hot + 1} /\ Old(p) \in Seq(Entries)
  BY PageForIs
<1>4. ~placeholder
  BY <1>1 DEF PagesInv
<1>5. Append(Old(p), x) \in Seq(Entries)
  BY <1>3, AppendProperties
<1>6. CASE p > Len(pages)
  <2>1. pages' = Append(pages, <<x>>) /\ p = Len(pages) + 1
    BY <1>2, <1>3, <1>6 DEF AddTo
  <2>2. Old(p) = <<>>
    BY <1>6 DEF Old
  <2>3. Append(Old(p), x) = <<x>>
    BY <2>2
  <2>4. /\ Append(pages, <<x>>) \in Seq(Seq(Entries))
        /\ Len(Append(pages, <<x>>)) = Len(pages) + 1
        /\ \A q \in 1..Len(pages) : Append(pages, <<x>>)[q] = pages[q]
        /\ Append(pages, <<x>>)[Len(pages) + 1] = <<x>>
    BY <1>2, <1>5, <2>3, AppendProperties
  <2>5. hot' = p /\ placeholder' = FALSE
    BY DEF AddTo
  <2>6. pages' \in Seq(Seq(Entries)) /\ Len(pages') = p /\ pages'[p] = Append(Old(p), x)
    BY <2>1, <2>3, <2>4
  <2>7. \A q \in 1..Len(pages) : pages'[q] = pages[q]
    BY <2>1, <2>4
  <2> QED
    BY <1>3, <1>4, <1>6, <2>5, <2>6, <2>7
<1>7. CASE ~(p > Len(pages))
  <2>1. p \in 1..Len(pages) /\ Old(p) = pages[p]
    BY <1>2, <1>3, <1>7 DEF Old
  <2>2. pages' = [pages EXCEPT ![p] = Append(Old(p), x)]
    BY <1>7, <2>1 DEF AddTo
  <2>3. /\ [pages EXCEPT ![p] = Append(Old(p), x)] \in Seq(Seq(Entries))
        /\ Len([pages EXCEPT ![p] = Append(Old(p), x)]) = Len(pages)
        /\ \A q \in 1..Len(pages) : [pages EXCEPT ![p] = Append(Old(p), x)][q]
                                    = IF q = p THEN Append(Old(p), x) ELSE pages[q]
    BY <1>2, <1>5, <2>1, ExceptSeq
  <2> QED
    BY <1>4, <1>7, <2>1, <2>2, <2>3 DEF AddTo
<1> QED
  BY <1>6, <1>7

\* The page an entry was added to.
LEMMA Added ==
    ASSUME IInv, hot # 0, NEW x \in Entries, NEW p, p = PageFor(x), AddTo(p, x)
    PROVE  /\ pages'[p] \in Seq(Entries) /\ Len(pages'[p]) = Len(Old(p)) + 1
           /\ pages'[p][Len(Old(p)) + 1] = x
           /\ \A q \in 1..Len(pages) :
                 /\ Len(pages[q]) <= Len(pages'[q])
                 /\ \A i \in 1..Len(pages[q]) : pages'[q][i] = pages[q][i]
<1>1. /\ Len(pages) \in Nat
      /\ \A q \in 1..Len(pages) : pages[q] \in Seq(Entries) /\ Len(pages[q]) \in Nat
  BY PagesTyped DEF IInv
<1>2. Old(p) \in Seq(Entries) /\ Len(Old(p)) \in Nat
  BY PageForIs
<1>3. /\ Append(Old(p), x) \in Seq(Entries) /\ Len(Append(Old(p), x)) = Len(Old(p)) + 1
      /\ Append(Old(p), x)[Len(Old(p)) + 1] = x
      /\ \A i \in 1..Len(Old(p)) : Append(Old(p), x)[i] = Old(p)[i]
  BY <1>2, AppendProperties
<1>4. /\ pages'[p] = Append(Old(p), x)
      /\ \A q \in 1..Len(pages) : q # p => pages'[q] = pages[q]
  BY AddToIs
<1>5. \A q \in 1..Len(pages) : q = p => Old(p) = pages[q]
  BY <1>1 DEF Old
<1>6. ASSUME NEW q \in 1..Len(pages)
      PROVE  /\ Len(pages[q]) <= Len(pages'[q])
             /\ \A i \in 1..Len(pages[q]) : pages'[q][i] = pages[q][i]
  <2>1. CASE q = p
    <3>1. Old(p) = pages[q] /\ pages'[q] = Append(Old(p), x)
      BY <1>4, <1>5, <2>1
    <3> QED
      BY <1>2, <1>3, <3>1
  <2>2. CASE q # p
    <3>1. pages'[q] = pages[q]
      BY <1>4, <2>2
    <3> QED
      BY <1>1, <3>1
  <2> QED
    BY <2>1, <2>2
<1> QED
  BY <1>3, <1>4, <1>6

\* While there are pages every token leads to an entry of one in use.
LEMMA TokensBelow ==
    ASSUME IInv, ~placeholder, NEW k \in 1..Len(tokens)
    PROVE  /\ Leads(k) /\ Where(k).page \in 1..hot /\ Where(k).at < Len(pages[Where(k).page])
           /\ Where(k).page \in Nat /\ Where(k).at \in Nat
<1>1. TypeOK /\ PagesInv /\ TokenInv(k)
  BY DEF IInv
<1>2. Leads(k)
  BY <1>1 DEF TokenInv
<1>3. Where(k).page \in Nat /\ Where(k).at \in Nat
  BY <1>1, TokensTyped
<1>4. hot \in Nat /\ Len(pages) \in Nat
  BY <1>1, PagesTyped
<1>5. CASE Where(k).page \notin 1..hot
  <2>1. Where(k).page \in hot + 1..Len(pages)
    BY <1>2, <1>3, <1>4, <1>5 DEF Leads
  <2>2. pages[Where(k).page] = <<>>
    BY <1>1, <2>1 DEF PagesInv
  <2>3. Where(k).at < 0
    BY <1>2, <2>2, EmptySeq DEF Leads
  <2> QED
    BY <1>3, <2>3
<1> QED
  BY <1>2, <1>3, <1>5 DEF Leads

LEMMA GrowPages ==
    ASSUME IInv, hot # 0, NEW x \in Entries, NEW p, p = PageFor(x), AddTo(p, x),
           UNCHANGED <<pops, DebugPoolAllocation>>
    PROVE  PagesInv'
<1>1. TypeOK /\ PagesInv
  BY DEF IInv
<1>2. /\ Len(pages) \in Nat /\ hot \in Nat /\ hot <= Len(pages)
      /\ \A q \in 1..Len(pages) : pages[q] \in Seq(Entries) /\ Len(pages[q]) \in Nat
  BY <1>1, PagesTyped
<1>3. /\ hot' = p /\ ~placeholder'
      /\ Len(pages') \in {Len(pages), p} /\ Len(pages) <= Len(pages')
      /\ \A q \in 1..Len(pages) : q # p => pages'[q] = pages[q]
  BY AddToIs
<1>4. /\ p \in Nat \ {0} /\ p \in {hot, hot + 1}
      /\ p = hot + 1 => Full(hot) \/ (x = Boundary /\ DebugPoolAllocation)
      /\ Len(Old(p)) \in Nat /\ Len(Old(p)) < COUNT
  BY PageForIs
<1>5. Len(pages'[p]) = Len(Old(p)) + 1
  BY Added
<1>6. ASSUME NEW q \in 1..Len(pages') PROVE Len(pages'[q]) <= COUNT
  <2>1. CASE q = p
    BY <1>4, <1>5, <2>1, CountIs
  <2>2. CASE q # p
    <3>1. q \in 1..Len(pages) /\ pages'[q] = pages[q]
      BY <1>2, <1>3, <1>4, <2>2
    <3> QED
      BY <1>1, <3>1 DEF PagesInv
  <2> QED
    BY <2>1, <2>2
<1>7. ASSUME NEW q \in p + 1..Len(pages') PROVE pages'[q] = <<>>
  <2>1. q \in hot + 1..Len(pages) /\ q \in 1..Len(pages) /\ q # p
    BY <1>2, <1>3, <1>4
  <2> QED
    BY <1>1, <1>3, <2>1 DEF PagesInv
<1>8. ASSUME ~DebugPoolAllocation, NEW q \in 1..p - 1 PROVE Len(pages'[q]) = COUNT
  <2>1. q \in 1..Len(pages) /\ q # p
    BY <1>2, <1>4
  <2>2. Full(q)
    <3>1. CASE q = hot
      BY <1>2, <1>4, <1>8, <3>1
    <3>2. CASE q # hot
      <4>1. q \in 1..hot - 1
        BY <1>2, <1>4, <3>2
      <4> QED
        BY <1>1, <1>8, <4>1 DEF PagesInv
    <3> QED
      BY <3>1, <3>2
  <2> QED
    BY <1>3, <2>1, <2>2 DEF Full
<1>9. ASSUME DebugPoolAllocation, pages'[1] = <<>> PROVE pops # <<>> /\ pops[1].page = 1
  <2>1. Len(<<>>) = 0
    BY EmptySeq
  <2>2. p # 1
    BY <1>4, <1>5, <1>9, <2>1
  <2>3. 1 \in 1..Len(pages)
    BY <1>2
  <2>4. pages[1] = <<>>
    BY <1>3, <1>9, <2>2, <2>3
  <2> QED
    BY <1>1, <1>9, <2>4 DEF PagesInv
<1>10. pops = <<>> => Len(pages') <= p + 1
  BY <1>1, <1>2, <1>3, <1>4 DEF PagesInv
<1> QED
  BY <1>3, <1>4, <1>6, <1>7, <1>8, <1>9, <1>10 DEF PagesInv, Full

\* Tokens that are kept lead where they led.
LEMMA LeadsKept ==
    ASSUME NEW k, Leads(k), tokens'[k] = tokens[k], Where(k).page \in 1..Len(pages'),
           Where(k).at < Len(pages'[Where(k).page]),
           pages'[Where(k).page][Where(k).at + 1] = pages[Where(k).page][Where(k).at + 1]
    PROVE  Leads(k)'
BY DEF Leads, Where

\* The tokens after an entry is added.
LEMMA GrowTokens ==
    ASSUME IInv, hot # 0, NEW x \in Entries, NEW p, p = PageFor(x), AddTo(p, x),
           UNCHANGED DebugPoolAllocation,
           \/ tokens' = tokens
           \/ x = Boundary /\ tokens' = Append(tokens, Place(p))
    PROVE  /\ tokens' \in Seq(Token)
           /\ \A k \in 1..Len(tokens) : tokens'[k] = tokens[k] /\ Where(k)' = Where(k)
           /\ \/ tokens' = tokens
              \/ /\ x = Boundary
                 /\ Len(tokens') = Len(tokens) + 1
                 /\ Start(tokens'[Len(tokens) + 1]) = [page |-> p, at |-> Len(Old(p))]
                 /\ tokens'[Len(tokens) + 1] # Placeholder
           /\ \A k \in 1..Len(tokens') : TokenInv(k)'
<1>1. TypeOK /\ PagesInv
  BY DEF IInv
<1>2. /\ Len(pages) \in Nat /\ hot \in Nat /\ hot <= Len(pages)
      /\ \A q \in 1..Len(pages) : pages[q] \in Seq(Entries) /\ Len(pages[q]) \in Nat
  BY <1>1, PagesTyped
<1>3. /\ tokens \in Seq(Token) /\ Len(tokens) \in Nat
  BY <1>1, TokensTyped
<1>4. /\ hot' = p /\ ~placeholder /\ p \in 1..Len(pages')
      /\ Len(pages') \in {Len(pages), p} /\ Len(pages) <= Len(pages')
  BY AddToIs
<1>5. /\ p \in Nat \ {0} /\ p \in {hot, hot + 1} /\ Len(Old(p)) \in Nat
      /\ p = hot => Old(p) = pages[p]
      /\ x = Boundary /\ DebugPoolAllocation => p = hot + 1
      /\ p = hot + 1 => Old(p) = <<>>
      /\ Place(p) = [page |-> p, at |-> Len(Old(p))]
  BY PageForIs
<1>6. /\ Len(pages'[p]) = Len(Old(p)) + 1 /\ pages'[p][Len(Old(p)) + 1] = x
      /\ \A q \in 1..Len(pages) :
            /\ Len(pages[q]) <= Len(pages'[q]) /\ pages'[q] \in Seq(Entries)
            /\ \A i \in 1..Len(pages[q]) : pages'[q][i] = pages[q][i]
  <2>1. \A q \in 1..Len(pages) : pages'[q] \in Seq(Entries)
    <3>1. \A q \in 1..Len(pages) : q # p => pages'[q] = pages[q]
      BY AddToIs
    <3>2. pages'[p] \in Seq(Entries)
      BY Added
    <3> QED
      BY <1>2, <3>1, <3>2
  <2> QED
    BY <2>1, Added
<1>7. Place(p) \in Token /\ Place(p) # Placeholder
  BY <1>5 DEF Token, Placeholder
<1>8. /\ tokens' \in Seq(Token)
      /\ \A k \in 1..Len(tokens) : tokens'[k] = tokens[k]
      /\ \/ tokens' = tokens
         \/ x = Boundary /\ Len(tokens') = Len(tokens) + 1 /\ tokens'[Len(tokens) + 1] = Place(p)
  <2>1. CASE tokens' = tokens
    BY <1>3, <2>1
  <2>2. CASE x = Boundary /\ tokens' = Append(tokens, Place(p))
    <3>1. /\ Append(tokens, Place(p)) \in Seq(Token)
          /\ Len(Append(tokens, Place(p))) = Len(tokens) + 1
          /\ \A k \in 1..Len(tokens) : Append(tokens, Place(p))[k] = tokens[k]
          /\ Append(tokens, Place(p))[Len(tokens) + 1] = Place(p)
      BY <1>3, <1>7, AppendProperties
    <3> QED
      BY <2>2, <3>1
  <2> QED
    BY <2>1, <2>2
<1>9. \A k \in 1..Len(tokens) : Where(k)' = Where(k)
  BY <1>8 DEF Where
<1>10. \A k \in 1..Len(tokens) : TokenInv(k)'
  <2> SUFFICES ASSUME NEW k \in 1..Len(tokens) PROVE TokenInv(k)'
    OBVIOUS
  <2>1. TokenInv(k)
    BY DEF IInv
  <2>2. /\ Leads(k) /\ Where(k).page \in 1..hot /\ Where(k).at < Len(pages[Where(k).page])
        /\ Where(k).page \in Nat /\ Where(k).at \in Nat
    BY <1>4, TokensBelow
  <2>3. Leads(k)'
    <3> DEFINE q == Where(k).page
               i == Where(k).at
    <3>1. q \in 1..Len(pages) /\ q \in 1..Len(pages') /\ i + 1 \in 1..Len(pages[q])
      <4>1. q \in 1..Len(pages)
        BY <1>2, <2>2
      <4>2. Len(pages[q]) \in Nat /\ i \in Nat /\ i < Len(pages[q])
        BY <1>2, <2>2, <4>1
      <4>3. Len(pages) <= Len(pages') /\ Len(pages') \in Nat
        BY <1>2, <1>4, <1>5
      <4> HIDE DEF i
      <4>4. i + 1 \in 1..Len(pages[q])
        BY <4>2
      <4> QED
        BY <1>2, <4>1, <4>3, <4>4
    <3>2. pages'[q][i + 1] = pages[q][i + 1] /\ Len(pages[q]) <= Len(pages'[q]) /\ pages'[q] \in Seq(Entries)
      BY <1>6, <3>1
    <3>3. i < Len(pages'[q])
      <4>1. Len(pages'[q]) \in Nat /\ Len(pages[q]) \in Nat
        BY <1>2, <3>1, <3>2, LenProperties
      <4> QED
        BY <2>2, <3>2, <4>1
    <3> QED
      BY <1>8, <2>2, <3>1, <3>2, <3>3, LeadsKept
  <2>4. \A j \in 1..k - 1 : j \in 1..Len(tokens)
    BY <1>3
  <2> QED
    BY <1>8, <1>9, <2>1, <2>3, <2>4 DEF TokenInv
<1>11. x = Boundary /\ Len(tokens') = Len(tokens) + 1 /\ tokens'[Len(tokens) + 1] = Place(p) =>
          Start(tokens'[Len(tokens) + 1]) = [page |-> p, at |-> Len(Old(p))]
  BY <1>5, <1>7 DEF Start
<1>13. ASSUME x = Boundary, NEW k \in 1..Len(tokens'), k = Len(tokens) + 1, tokens'[k] = Place(p)
       PROVE  TokenInv(k)'
  <2>1. Where(k)' = [page |-> p, at |-> Len(Old(p))]
    BY <1>5, <1>7, <1>13 DEF Where, Start
  <2>2. Leads(k)'
    BY <1>4, <1>5, <1>6, <1>13, <2>1 DEF Leads
  <2>3. ASSUME NEW j \in 1..k - 1
        PROVE  Below(Where(j).page, Where(j).at, p, Len(Old(p)))
    <3>1. j \in 1..Len(tokens)
      BY <1>3, <1>13
    <3>2. /\ Where(j).page \in 1..hot /\ Where(j).at < Len(pages[Where(j).page])
          /\ Where(j).page \in Nat
      BY <1>4, <3>1, TokensBelow
    <3>3. CASE p = hot
      BY <1>2, <1>5, <3>2, <3>3 DEF Below
    <3>4. CASE p = hot + 1
      BY <1>2, <1>5, <3>2, <3>4 DEF Below
    <3> QED
      BY <1>5, <3>3, <3>4
  <2>4. \A j \in 1..k - 1 : Where(j)' = Where(j)
    BY <1>3, <1>9, <1>13
  <2>5. DebugPoolAllocation => Len(Old(p)) = 0
    BY <1>5, <1>13, EmptySeq
  <2>6. tokens'[k] # Placeholder
    BY <1>7, <1>13
  <2> QED
    BY <2>1, <2>2, <2>3, <2>4, <2>5, <2>6 DEF TokenInv
<1>12. \A k \in 1..Len(tokens') : TokenInv(k)'
  <2>1. CASE tokens' = tokens
    BY <1>10, <2>1
  <2>2. CASE x = Boundary /\ Len(tokens') = Len(tokens) + 1 /\ tokens'[Len(tokens) + 1] = Place(p)
    <3>1. \A k \in 1..Len(tokens') : k \in 1..Len(tokens) \/ k = Len(tokens) + 1
      BY <1>3, <2>2
    <3> QED
      BY <1>10, <1>13, <2>2, <3>1
  <2> QED
    BY <1>8, <2>1, <2>2
<1> QED
  BY <1>7, <1>8, <1>9, <1>11, <1>12

\* The pops in progress after an entry is added.
LEMMA GrowPops ==
    ASSUME IInv, hot # 0, NEW x \in Entries, NEW p, p = PageFor(x), AddTo(p, x),
           UNCHANGED <<pops, DebugPoolAllocation>>,
           \/ x # Boundary /\ tokens' = tokens
           \/ x = Boundary /\ tokens' = Append(tokens, Place(p)),
           NEW n \in 1..Len(pops)
    PROVE  PopInv(n)'
<1>1. TypeOK /\ PagesInv /\ PopInv(n)
  BY DEF IInv
<1>2. /\ Len(pages) \in Nat /\ hot \in Nat /\ hot <= Len(pages)
      /\ \A q \in 1..Len(pages) : pages[q] \in Seq(Entries) /\ Len(pages[q]) \in Nat
  BY <1>1, PagesTyped
<1>3. /\ hot' = p /\ ~placeholder /\ p \in 1..Len(pages')
      /\ Len(pages') \in {Len(pages), p} /\ Len(pages) <= Len(pages')
      /\ \A q \in 1..Len(pages) : q # p => pages'[q] = pages[q]
  BY AddToIs
<1>4. /\ p \in Nat \ {0} /\ p \in {hot, hot + 1} /\ Len(Old(p)) \in Nat
      /\ p = hot => Old(p) = pages[p]
      /\ p = hot + 1 => Full(hot) \/ (x = Boundary /\ DebugPoolAllocation)
      /\ x = Boundary /\ DebugPoolAllocation => p = hot + 1
  BY PageForIs
<1>5. /\ pages'[p] \in Seq(Entries) /\ Len(pages'[p]) = Len(Old(p)) + 1
      /\ \A q \in 1..Len(pages) : Len(pages[q]) <= Len(pages'[q])
  BY Added
<1>6. /\ Len(tokens) \in Nat
      /\ \A k \in 1..Len(tokens) : Where(k).page \in Nat /\ Where(k).at \in Nat
  BY <1>1, TokensTyped
<1>7. /\ \A k \in 1..Len(tokens) : Where(k)' = Where(k)
      /\ \/ tokens' = tokens
         \/ /\ x = Boundary /\ Len(tokens') = Len(tokens) + 1
            /\ Start(tokens'[Len(tokens) + 1]) = [page |-> p, at |-> Len(Old(p))]
  BY GrowTokens
<1>8. /\ pops[n].page \in Nat /\ pops[n].stop \in Nat /\ pops[n].opened \in Nat
      /\ pops[n].page \in 1..hot /\ pops[n].stop <= Len(pages[pops[n].page])
  BY <1>1, PopsTyped DEF PopInv, PopPlace
<1>9. PopPlace(n)'
  <2>1. pops[n].page \in 1..Len(pages)
    BY <1>2, <1>8
  <2>2. pops[n].stop <= Len(pages'[pops[n].page])
    <3>1. Len(pages[pops[n].page]) <= Len(pages'[pops[n].page])
      BY <1>5, <2>1
    <3>2. Len(pages'[pops[n].page]) \in Nat
      <4>1. CASE pops[n].page = p
        BY <1>4, <1>5, <4>1
      <4>2. CASE pops[n].page # p
        BY <1>2, <1>3, <2>1, <4>2
      <4> QED
        BY <4>1, <4>2
    <3> QED
      BY <1>2, <1>8, <2>1, <3>1, <3>2
  <2> QED
    BY <1>1, <1>2, <1>3, <1>4, <1>8, <2>2 DEF PopInv, PopPlace
<1>10. PopTokens(n)'
  <2>1. \A k \in 1..pops[n].opened : k \in 1..Len(tokens)
    BY <1>1, <1>6, <1>8 DEF PopInv, PopTokens
  <2>2. pops[n].opened <= Len(tokens')
    BY <1>1, <1>6, <1>7, <1>8 DEF PopInv, PopTokens
  <2>3. ASSUME NEW k \in pops[n].opened + 1..Len(tokens')
        PROVE  /\ ~Below(Where(k)'.page, Where(k)'.at, pops[n].page, pops[n].stop)
               /\ DebugPoolAllocation => pops[n].page < Where(k)'.page
    <3>1. CASE k \in 1..Len(tokens)
      <4>1. k \in pops[n].opened + 1..Len(tokens)
        BY <1>6, <1>8, <3>1
      <4>2. /\ ~Below(Where(k).page, Where(k).at, pops[n].page, pops[n].stop)
            /\ DebugPoolAllocation => pops[n].page < Where(k).page
        BY <1>1, <4>1 DEF PopInv, PopTokens
      <4> QED
        BY <1>7, <3>1, <4>2
    <3>2. CASE k \notin 1..Len(tokens)
      <4>1. tokens' # tokens
        BY <1>6, <1>8, <3>2
      <4>2. x = Boundary /\ k = Len(tokens) + 1
        BY <1>6, <1>7, <1>8, <3>2, <4>1
      <4>3. Where(k)' = [page |-> p, at |-> Len(Old(p))]
        BY <1>7, <4>1, <4>2 DEF Where
      <4>4. ~Below(p, Len(Old(p)), pops[n].page, pops[n].stop)
        <5>1. CASE p = hot
          BY <1>2, <1>4, <1>8, <5>1 DEF Below
        <5>2. CASE p = hot + 1
          BY <1>2, <1>8, <5>2 DEF Below
        <5> QED
          BY <1>4, <5>1, <5>2
      <4>5. DebugPoolAllocation => pops[n].page < p
        BY <1>2, <1>4, <1>8, <4>2
      <4> QED
        BY <4>3, <4>4, <4>5
    <3> QED
      BY <3>1, <3>2
  <2>4. \A k \in 1..pops[n].opened :
           Below(Where(k)'.page, Where(k)'.at, pops[n].page, pops[n].stop)
    BY <1>1, <1>7, <2>1 DEF PopInv, PopTokens
  <2> QED
    BY <2>2, <2>3, <2>4 DEF PopTokens
<1>11. PopOrder(n)'
  BY <1>1 DEF PopInv, PopOrder
<1>12. ASSUME DebugPoolAllocation PROVE pops[n].stop = 0
  BY <1>1, <1>12 DEF PopInv, PopAlone
<1>13. ASSUME DebugPoolAllocation, pages'[pops[n].page] = <<>>, pops[n].page < p PROVE Ahead(n)'
  <2>1. Len(<<>>) = 0
    BY EmptySeq
  <2>2. pops[n].page # p /\ pops[n].page \in 1..Len(pages)
    <3>1. pops[n].page # p
      <4>1. pops[n].page \in Nat /\ p \in Nat /\ pops[n].page < p
        BY <1>4, <1>8, <1>13
      <4> QED
        BY <4>1
    <3>2. pops[n].page \in 1..Len(pages)
      BY <1>2, <1>8
    <3> QED
      BY <3>1, <3>2
  <2>3. pages[pops[n].page] = <<>>
    BY <1>3, <1>13, <2>2
  <2>4. Len(tokens) <= Len(tokens')
    BY <1>6, <1>7
  <2>5. CASE Ahead(n)
    <3>1. CASE pops[n].opened < Len(tokens) /\ Where(pops[n].opened + 1).page = pops[n].page + 1
      <4>1. pops[n].opened + 1 \in 1..Len(tokens)
        BY <1>6, <1>8, <3>1
      <4>2. ASSUME NEW k \in 1..Len(tokens), k = pops[n].opened + 1
            PROVE  Where(k)'.page = pops[n].page + 1
        BY <1>7, <3>1, <4>2
      <4>3. pops[n].opened < Len(tokens')
        BY <1>6, <1>7, <1>8, <3>1
      <4> QED
        BY <4>1, <4>2, <4>3 DEF Ahead
    <3>2. CASE n < Len(pops) /\ pops[n + 1].page = pops[n].page + 1
      BY <3>2 DEF Ahead
    <3> QED
      BY <2>5, <3>1, <3>2 DEF Ahead
  <2>6. CASE ~Ahead(n)
    <3>1. ~(pops[n].page < hot)
      BY <1>1, <1>13, <2>3, <2>6 DEF PopInv, PopAlone
    <3>2. pops[n].page = hot /\ p = hot + 1
      BY <1>2, <1>4, <1>8, <1>13, <3>1
    <3>3. ~Full(hot)
      BY <2>1, <2>3, <3>2, CountIs DEF Full
    <3>4. x = Boundary
      BY <1>4, <3>2, <3>3
    <3>5. ~(pops[n].opened < Len(tokens))
      <4> SUFFICES ASSUME pops[n].opened < Len(tokens) PROVE FALSE
        OBVIOUS
      <4>1. PICK k \in pops[n].opened + 1..Len(tokens) : k \in 1..Len(tokens)
        BY <1>6, <1>8
      <4>2. pops[n].page < Where(k).page
        BY <1>1, <1>13 DEF PopInv, PopTokens
      <4>3. Where(k).page \in 1..hot
        BY <1>3, <4>1, TokensBelow
      <4> QED
        BY <1>2, <3>2, <4>2, <4>3
    <3>6. pops[n].opened = Len(tokens)
      <4>1. pops[n].opened <= Len(tokens)
        BY <1>1 DEF PopInv, PopTokens
      <4> QED
        BY <1>6, <1>8, <3>5, <4>1
    <3>7. Len(tokens') = Len(tokens) + 1 /\ tokens'[Len(tokens) + 1] = Place(p)
      <4>1. tokens' = Append(tokens, Place(p))
        BY <3>4
      <4>2. Place(p) \in Token
        BY <1>4, PageForIs DEF Token
      <4>3. tokens \in Seq(Token)
        BY <1>1, TokensTyped
      <4> QED
        BY <4>1, <4>2, <4>3, AppendProperties
    <3>8. tokens' # tokens
      BY <1>6, <3>7
    <3>9. Start(tokens'[Len(tokens) + 1]) = [page |-> p, at |-> Len(Old(p))]
      BY <1>7, <3>8
    <3>10. ASSUME NEW k, k = Len(tokens) + 1
           PROVE  pops[n].opened < Len(tokens') /\ Where(k)'.page = pops[n].page + 1
      BY <1>6, <3>2, <3>6, <3>7, <3>9, <3>10 DEF Where
    <3> QED
      BY <3>6, <3>10 DEF Ahead
  <2> QED
    BY <2>5, <2>6
<1>14. PopAlone(n)'
  BY <1>3, <1>12, <1>13 DEF PopAlone
<1> QED
  BY <1>9, <1>10, <1>11, <1>14 DEF PopInv

\* An autoreleased object and a pushed pool.
LEMMA GrowIInv ==
    ASSUME IInv, hot # 0, NEW x \in Entries, client, AddTo(PageFor(x), x),
           UNCHANGED <<pops, client, exiting, DebugPoolAllocation>>,
           \/ x # Boundary /\ tokens' = tokens
           \/ x = Boundary /\ tokens' = Append(tokens, Place(PageFor(x)))
    PROVE  IInv'
<1>1. TypeOK
  BY DEF IInv
<1> DEFINE p == PageFor(x)
<1>2. AddTo(p, x)
  OBVIOUS
<1>3. /\ hot' = p /\ ~placeholder' /\ pages' \in Seq(Seq(Entries)) /\ p \in 1..Len(pages')
  BY AddToIs
<1>4. /\ tokens' \in Seq(Token) /\ \A k \in 1..Len(tokens') : TokenInv(k)'
  BY GrowTokens
<1>5. TypeOK'
  <2>1. placeholder' = FALSE
    BY DEF AddTo
  <2>2. hot' \in 0..Len(pages')
    <3>1. Len(pages') \in Nat
      BY <1>3, LenProperties
    <3> HIDE DEF p
    <3> QED
      BY <1>3, <3>1
  <2> QED
    BY <1>1, <1>3, <1>4, <2>1, <2>2 DEF TypeOK, Token
<1>6. PagesInv'
  BY GrowPages
<1>7. LoopInv'
  BY DEF IInv, LoopInv
<1>8. \A n \in 1..Len(pops) : PopInv(n)'
  BY GrowPops
<1> QED
  BY <1>4, <1>5, <1>6, <1>7, <1>8 DEF IInv
-----------------------------------------------------------------------------
\* Without a hot page there is nothing but, maybe, the placeholder.
LEMMA NoHot ==
    ASSUME IInv, hot = 0
    PROVE  /\ pages = <<>> /\ pops = <<>> /\ Len(pops) = 0 /\ Len(pages) = 0
           /\ \A k \in 1..Len(tokens) : /\ tokens[k] = Placeholder /\ placeholder /\ k = 1
                                        /\ Where(k) = [page |-> 1, at |-> 0]
           /\ ~placeholder => Len(tokens) = 0
           /\ Len(tokens) # 0 => ~DebugPoolAllocation
           /\ Opened = 0
<1>1. TypeOK /\ PagesInv
  BY DEF IInv
<1>2. Len(tokens) \in Nat /\ Len(pops) \in Nat /\ (pops # <<>> <=> Len(pops) # 0)
  BY <1>1, TokensTyped, PopsTyped
<1>3. pages = <<>> /\ Len(pages) = 0
  BY <1>1, EmptySeq DEF PagesInv
<1>4. pops = <<>> /\ Len(pops) = 0
  <2>1. CASE Len(pops) # 0
    <3>1. 1 \in 1..Len(pops)
      BY <1>2, <2>1
    <3>2. pops[1].page \in 1..0
      BY <3>1 DEF IInv, PopInv, PopPlace
    <3> QED
      BY <3>2
  <2> QED
    BY <1>2, <2>1
<1>5. ASSUME NEW k \in 1..Len(tokens)
      PROVE  tokens[k] = Placeholder /\ placeholder /\ Where(k) = [page |-> 1, at |-> 0]
  <2>1. TokenInv(k)
    BY DEF IInv
  <2>2. ~Leads(k)
    BY <1>3 DEF Leads
  <2> QED
    BY <2>1, <2>2 DEF TokenInv, Where, Start
<1>6. ASSUME NEW k \in 1..Len(tokens) PROVE k = 1
  <2>1. CASE k # 1
    <3>1. 1 \in 1..k - 1 /\ 1 \in 1..Len(tokens)
      BY <1>2, <2>1
    <3>2. Below(Where(1).page, Where(1).at, Where(k).page, Where(k).at)
      BY <3>1 DEF IInv, TokenInv
    <3>3. Where(1) = [page |-> 1, at |-> 0] /\ Where(k) = [page |-> 1, at |-> 0]
      BY <1>5, <3>1
    <3> QED
      BY <3>2, <3>3 DEF Below
  <2> QED
    BY <2>1
<1>7. Len(tokens) # 0 => placeholder /\ ~DebugPoolAllocation
  <2>1. Len(tokens) # 0 => 1 \in 1..Len(tokens)
    BY <1>2
  <2>2. placeholder => ~DebugPoolAllocation
    BY <1>1 DEF PagesInv
  <2> QED
    BY <1>5, <2>1, <2>2
<1>8. Opened = 0
  BY <1>4 DEF Opened
<1> QED
  BY <1>3, <1>4, <1>5, <1>6, <1>7, <1>8

\* The first page.
LEMMA FirstPageIs ==
    ASSUME IInv, hot = 0, NEW x \in Entries, FirstPage(x)
    PROVE  /\ hot' = 1 /\ ~placeholder' /\ placeholder' = FALSE
           /\ pages' \in Seq(Seq(Entries)) /\ Len(pages') = 1
           /\ pages'[1] \in Seq(Entries) /\ pages'[1] # <<>> /\ Len(pages'[1]) <= COUNT
           /\ placeholder => Len(pages'[1]) = 2 /\ pages'[1][1] = Boundary /\ pages'[1][2] = x
           /\ ~placeholder => Len(pages'[1]) = 1 /\ pages'[1][1] = x
<1> DEFINE first == (IF placeholder THEN <<Boundary>> ELSE <<>>) \o <<x>>
<1>0. Boundary \in Entries
  BY DEF Entries
<1>1. pages' = <<first>> /\ hot' = 1 /\ placeholder' = FALSE
  BY DEF FirstPage
<1>2. first = IF placeholder THEN <<Boundary, x>> ELSE <<x>>
  <2>1. <<Boundary>> \o <<x>> = <<Boundary, x>>
    <3> DEFINE b == <<Boundary>>
               y == <<x>>
               two == <<Boundary, x>>
    <3>1. /\ b \in Seq(Entries) /\ Len(b) = 1 /\ b[1] = Boundary
          /\ y \in Seq(Entries) /\ Len(y) = 1 /\ y[1] = x
          /\ two \in Seq(Entries) /\ Len(two) = 2 /\ two[1] = Boundary /\ two[2] = x
      BY <1>0
    <3> HIDE DEF b, y, two
    <3>2. /\ b \o y \in Seq(Entries) /\ Len(b \o y) = Len(b) + Len(y)
          /\ \A i \in 1..Len(b) + Len(y) : (b \o y)[i] = IF i <= Len(b) THEN b[i] ELSE y[i - Len(b)]
      BY <3>1, ConcatProperties
    <3>3. Len(b \o y) = 2 /\ (b \o y)[1] = Boundary /\ (b \o y)[2] = x
      BY <3>1, <3>2
    <3>4. \A i \in 1..2 : i = 1 \/ i = 2
      OBVIOUS
    <3>5. \A i \in 1..2 : (b \o y)[i] = two[i]
      BY <3>1, <3>3, <3>4
    <3>6. b \o y = two
      BY <3>1, <3>2, <3>3, <3>5, SeqEqual
    <3> QED
      BY <3>6 DEF b, y, two
  <2>2. <<>> \o <<x>> = <<x>>
    OBVIOUS
  <2>3. CASE placeholder
    BY <2>1, <2>3
  <2>4. CASE ~placeholder
    BY <2>2, <2>4
  <2> QED
    BY <2>3, <2>4
<1>3. <<x>> \in Seq(Entries) /\ <<Boundary, x>> \in Seq(Entries)
  BY <1>0
<1>4. first \in Seq(Entries)
  BY <1>2, <1>3
<1>5. /\ placeholder => Len(first) = 2 /\ first[1] = Boundary /\ first[2] = x
      /\ ~placeholder => Len(first) = 1 /\ first[1] = x
  BY <1>2
<1> HIDE DEF first
<1>6. <<first>> \in Seq(Seq(Entries)) /\ Len(<<first>>) = 1 /\ <<first>>[1] = first
  BY <1>4
<1>7. first # <<>> /\ Len(first) <= COUNT
  <2>1. Len(first) = 1 \/ Len(first) = 2
    BY <1>5
  <2>2. Len(<<>>) = 0
    BY EmptySeq
  <2> QED
    <3>1. first # <<>>
      BY <2>1, <2>2
    <3>2. Len(first) <= COUNT
      BY <2>1, CountIs
    <3> QED
      BY <3>1, <3>2
<1> QED
  BY <1>1, <1>4, <1>5, <1>6, <1>7

\* An autoreleased object or a pushed pool, and the first page.
LEMMA FirstPageIInv ==
    ASSUME IInv, hot = 0, NEW x \in Entries, client, FirstPage(x),
           UNCHANGED <<pops, client, exiting, DebugPoolAllocation>>,
           \/ tokens' = tokens
           \/ /\ x = Boundary
              /\ tokens' = Append(tokens, [page |-> 1, at |-> IF placeholder THEN 1 ELSE 0])
    PROVE  IInv'
<1>1. TypeOK
  BY DEF IInv
<1>2. /\ hot' = 1 /\ ~placeholder' /\ placeholder' = FALSE
      /\ pages' \in Seq(Seq(Entries)) /\ Len(pages') = 1
      /\ pages'[1] # <<>> /\ Len(pages'[1]) <= COUNT
      /\ placeholder => Len(pages'[1]) = 2 /\ pages'[1][1] = Boundary /\ pages'[1][2] = x
      /\ ~placeholder => Len(pages'[1]) = 1 /\ pages'[1][1] = x
  BY FirstPageIs
<1>3. pops = <<>> /\ Len(pops) = 0
  BY NoHot
<1>4. /\ \A k \in 1..Len(tokens) : /\ tokens[k] = Placeholder /\ placeholder /\ k = 1
                                   /\ Where(k) = [page |-> 1, at |-> 0]
      /\ Len(tokens) # 0 => ~DebugPoolAllocation
  BY NoHot
<1>5. Len(tokens) \in Nat /\ tokens \in Seq(Token)
  BY <1>1, TokensTyped
<1> DEFINE place == [page |-> 1, at |-> IF placeholder THEN 1 ELSE 0]
<1>6. place \in Token /\ place # Placeholder /\ Start(place) = place
  BY DEF Token, Placeholder, Start
<1>7. /\ place.page = 1 /\ place.at < Len(pages'[1])
      /\ x = Boundary => pages'[1][place.at + 1] = Boundary
      /\ placeholder => place.at = 1
      /\ ~placeholder => place.at = 0
  BY <1>2
<1> HIDE DEF place
<1>8. /\ tokens' \in Seq(Token)
      /\ \A k \in 1..Len(tokens) : tokens'[k] = tokens[k]
      /\ \/ tokens' = tokens
         \/ x = Boundary /\ Len(tokens') = Len(tokens) + 1 /\ tokens'[Len(tokens) + 1] = place
  <2>1. CASE tokens' = tokens
    BY <1>5, <2>1
  <2>2. CASE x = Boundary /\ tokens' = Append(tokens, place)
    <3>1. /\ Append(tokens, place) \in Seq(Token)
          /\ Len(Append(tokens, place)) = Len(tokens) + 1
          /\ \A k \in 1..Len(tokens) : Append(tokens, place)[k] = tokens[k]
          /\ Append(tokens, place)[Len(tokens) + 1] = place
      BY <1>5, <1>6, AppendProperties
    <3> QED
      BY <2>2, <3>1
  <2> QED
    BY <2>1, <2>2 DEF place
<1>9. ASSUME NEW k \in 1..Len(tokens) PROVE TokenInv(k)'
  <2>1. /\ tokens'[k] = Placeholder /\ placeholder /\ k = 1 /\ ~DebugPoolAllocation
        /\ Where(k)' = [page |-> 1, at |-> 0]
    <3>1. Len(tokens) # 0
      BY <1>5
    <3> QED
      BY <1>4, <1>8, <3>1 DEF Where, Start
  <2>2. Leads(k)'
    BY <1>2, <2>1 DEF Leads
  <2> QED
    BY <2>1, <2>2 DEF TokenInv
<1>10. ASSUME x = Boundary, NEW k \in 1..Len(tokens'), k = Len(tokens) + 1, tokens'[k] = place
       PROVE  TokenInv(k)'
  <2>1. Where(k)' = place
    BY <1>6, <1>10 DEF Where
  <2>2. Leads(k)'
    BY <1>2, <1>7, <1>10, <2>1 DEF Leads
  <2>3. ASSUME NEW j \in 1..k - 1
        PROVE  Below(Where(j)'.page, Where(j)'.at, place.page, place.at)
    <3>1. j \in 1..Len(tokens)
      BY <1>5, <1>10
    <3>2. placeholder /\ Where(j)' = [page |-> 1, at |-> 0]
      BY <1>4, <1>8, <3>1 DEF Where
    <3> QED
      BY <1>7, <3>2 DEF Below
  <2>4. DebugPoolAllocation => ~placeholder
    BY DEF IInv, PagesInv
  <2> QED
    BY <1>6, <1>7, <1>10, <2>1, <2>2, <2>3, <2>4 DEF TokenInv
<1>11. \A k \in 1..Len(tokens') : TokenInv(k)'
  <2>1. CASE tokens' = tokens
    BY <1>9, <2>1
  <2>2. CASE x = Boundary /\ Len(tokens') = Len(tokens) + 1 /\ tokens'[Len(tokens) + 1] = place
    <3>1. \A k \in 1..Len(tokens') : k \in 1..Len(tokens) \/ k = Len(tokens) + 1
      BY <1>5, <2>2
    <3> QED
      BY <1>9, <1>10, <2>2, <3>1
  <2> QED
    BY <1>8, <2>1, <2>2
<1>12. TypeOK'
  <2>1. hot' \in 0..Len(pages')
    BY <1>2
  <2> QED
    BY <1>1, <1>2, <1>8, <2>1 DEF TypeOK, Token
<1>13. PagesInv'
  <2>1. \A q \in 1..1 : q = 1
    OBVIOUS
  <2> QED
    BY <1>2, <1>3, <2>1 DEF PagesInv, Full
<1>14. LoopInv'
  BY <1>3 DEF LoopInv
<1>15. \A n \in 1..Len(pops') : PopInv(n)'
  BY <1>3
<1> QED
  BY <1>11, <1>12, <1>13, <1>14, <1>15 DEF IInv

\* Nothing is left, or only a placeholder.
LEMMA BareIInv ==
    ASSUME pages' = <<>>, hot' = 0, pops' = <<>>, client' = TRUE, exiting' \in BOOLEAN,
           DebugPoolAllocation' \in BOOLEAN,
           \/ placeholder' = FALSE /\ tokens' = <<>>
           \/ placeholder' = TRUE /\ ~DebugPoolAllocation' /\ tokens' = <<Placeholder>>
    PROVE  IInv'
<1>1. \A S : <<>> \in Seq(S) /\ Len(<<>>) = 0
  BY EmptySeq
<1>2. TypeOK'
  <2>1. pages' \in Seq(Seq(Entries)) /\ pops' \in Seq([page : Nat, stop : Nat, opened : Nat])
    BY <1>1
  <2>2. tokens' \in Seq([page : Nat, at : Nat])
    <3>1. CASE tokens' = <<>>
      BY <1>1, <3>1
    <3>2. CASE tokens' = <<Placeholder>>
      <4>1. Placeholder \in [page : Nat, at : Nat]
        BY DEF Placeholder
      <4> HIDE DEF Placeholder
      <4> QED
        BY <3>2, <4>1
    <3> QED
      BY <3>1, <3>2
  <2>3. hot' \in 0..Len(pages')
    BY <1>1
  <2> QED
    BY <2>1, <2>2, <2>3 DEF TypeOK
<1>3. PagesInv'
  BY <1>1 DEF PagesInv, Full
<1>4. LoopInv'
  BY DEF LoopInv
<1>5. \A k \in 1..Len(tokens') : TokenInv(k)'
  <2>1. CASE tokens' = <<>>
    BY <1>1, <2>1
  <2>2. CASE placeholder' = TRUE /\ ~DebugPoolAllocation' /\ tokens' = <<Placeholder>>
    <3>1. Len(tokens') = 1 /\ tokens'[1] = Placeholder
      BY <2>2
    <3>2. \A k \in 1..Len(tokens') : k = 1
      BY <3>1
    <3>3. \A j \in 1..1 - 1 : FALSE
      OBVIOUS
    <3>4. TokenInv(1)'
      BY <2>2, <3>1, <3>3 DEF TokenInv
    <3> QED
      BY <3>2, <3>4
  <2> QED
    BY <2>1, <2>2
<1>6. \A n \in 1..Len(pops') : PopInv(n)'
  BY <1>1
<1> QED
  BY <1>2, <1>3, <1>4, <1>5, <1>6 DEF IInv

\* A pool is pushed, or popped, before there is a page.
LEMMA PushPlaceholderIInv == ASSUME IInv, PushPlaceholder PROVE IInv'
<1>1. pages = <<>> /\ pops = <<>> /\ Len(tokens) = 0
  BY NoHot DEF PushPlaceholder
<1>2. tokens = <<>>
  <2>1. tokens \in Seq(Token)
    BY TokensTyped DEF IInv
  <2> QED
    BY <1>1, <2>1, EmptySeq
<1>3. tokens' = <<Placeholder>>
  BY <1>2 DEF PushPlaceholder
<1>4. client' = TRUE /\ exiting' \in BOOLEAN /\ DebugPoolAllocation' \in BOOLEAN
  BY DEF PushPlaceholder, Calls, IInv, TypeOK
<1> QED
  BY <1>1, <1>3, <1>4, BareIInv DEF PushPlaceholder

LEMMA PopUnusedIInv == ASSUME IInv, PopUnused PROVE IInv'
<1>1. pages = <<>> /\ pops = <<>> /\ Opened = 0
  BY NoHot DEF PopUnused
<1>2. tokens' = <<>>
  <2>1. SubSeq(tokens, 1, 0) = <<>>
    BY SubSeqEmpty
  <2> QED
    BY <1>1, <2>1 DEF PopUnused
<1>3. client' = TRUE /\ exiting' \in BOOLEAN /\ DebugPoolAllocation' \in BOOLEAN
  BY DEF PopUnused, Calls, IInv, TypeOK
<1> QED
  BY <1>1, <1>2, <1>3, BareIInv DEF PopUnused

\* The client returns to the pop that called it.
LEMMA ReturnIInv == ASSUME IInv, Return PROVE IInv'
<1>1. TypeOK'
  BY DEF Return, IInv, TypeOK
<1>2. PagesInv' /\ LoopInv'
  BY DEF Return, IInv, PagesInv, LoopInv, Full, Opened
<1>3. \A k \in 1..Len(tokens) : TokenInv(k)'
  BY DEF Return, IInv, TokenInv, Leads, Where
<1>4. \A n \in 1..Len(pops) : PopInv(n)'
  BY DEF Return, IInv, PopInv, PopPlace, PopTokens, PopOrder, PopAlone, Ahead, Where
<1> QED
  BY <1>1, <1>2, <1>3, <1>4 DEF Return, IInv
-----------------------------------------------------------------------------
LEMMA OpenedIs ==
    ASSUME IInv
    PROVE  /\ Opened \in Nat /\ Opened <= Len(tokens)
           /\ Len(pops) # 0 => Len(pops) \in 1..Len(pops) /\ Opened = pops[Len(pops)].opened
           /\ \A n \in 1..Len(pops) : pops[n].opened <= Opened
<1>1. TypeOK
  BY DEF IInv
<1>2. /\ Len(pops) \in Nat /\ (pops # <<>> <=> Len(pops) # 0)
      /\ \A n \in 1..Len(pops) : pops[n].opened \in Nat
  BY <1>1, PopsTyped
<1>3. Len(tokens) \in Nat
  BY <1>1, TokensTyped
<1>4. CASE pops = <<>>
  BY <1>2, <1>3, <1>4 DEF Opened
<1>5. CASE pops # <<>>
  <2>1. Len(pops) \in 1..Len(pops) /\ Opened = pops[Len(pops)].opened
    BY <1>2, <1>5 DEF Opened, Last
  <2>2. PopInv(Len(pops))
    BY <2>1 DEF IInv
  <2>3. ASSUME NEW n \in 1..Len(pops) PROVE pops[n].opened <= Opened
    <3>1. CASE n = Len(pops)
      BY <1>2, <2>1, <3>1
    <3>2. CASE n # Len(pops)
      <4>1. n \in 1..Len(pops) - 1
        BY <1>2, <3>2
      <4> QED
        BY <2>1, <2>2, <4>1 DEF PopInv, PopOrder
    <3> QED
      BY <3>1, <3>2
  <2>4. pops[Len(pops)].opened <= Len(tokens)
    BY <2>2 DEF PopInv, PopTokens
  <2> QED
    BY <1>2, <2>1, <2>3, <2>4
<1> QED
  BY <1>4, <1>5

\* A pop begins at r, above the pops in progress and the k pools left open.
LEMMA BeginIInv ==
    ASSUME IInv, hot # 0, NEW k \in 0..Len(tokens), NEW r \in Popping, r.opened = k,
           pops' = Append(pops, r), tokens' = SubSeq(tokens, 1, k), client' = FALSE,
           exiting' \in BOOLEAN, UNCHANGED <<pages, hot, placeholder, DebugPoolAllocation>>,
           exiting' => (exiting /\ pops # <<>>) \/ (pops = <<>> /\ r = AtExit),
           Opened <= k, r.page \in 1..hot, r.stop < Len(pages[r.page]),
           DebugPoolAllocation => r.stop = 0,
           \A j \in 1..k : Below(Where(j).page, Where(j).at, r.page, r.stop),
           \A n \in 1..Len(pops) :
              /\ ~Below(r.page, r.stop, pops[n].page, pops[n].stop)
              /\ DebugPoolAllocation => pops[n].page < r.page,
           pops # <<>> => k < Len(tokens) /\ r.page = Where(k + 1).page
    PROVE  IInv'
<1>1. TypeOK /\ PagesInv /\ LoopInv
  BY DEF IInv
<1>2. /\ Len(pages) \in Nat /\ hot \in Nat /\ hot <= Len(pages)
      /\ \A q \in 1..Len(pages) : pages[q] \in Seq(Entries) /\ Len(pages[q]) \in Nat
  BY <1>1, PagesTyped
<1>3. tokens \in Seq(Token) /\ Len(tokens) \in Nat
  BY <1>1, TokensTyped
<1>4. /\ pops \in Seq(Popping) /\ Len(pops) \in Nat /\ (pops # <<>> <=> Len(pops) # 0)
      /\ \A n \in 1..Len(pops) : /\ pops[n].page \in Nat /\ pops[n].stop \in Nat
                                 /\ pops[n].opened \in Nat
  BY <1>1, PopsTyped
<1>5. r.page \in Nat /\ r.stop \in Nat /\ r.opened \in Nat /\ r.page \in 1..Len(pages)
  BY <1>2 DEF Popping
<1>6. /\ tokens' \in Seq(Token) /\ Len(tokens') = k
      /\ \A j \in 1..k : tokens'[j] = tokens[j]
  BY <1>3, Cut
<1>7. k \in Nat /\ k <= Len(tokens) /\ \A j \in 1..k : j \in 1..Len(tokens)
  BY <1>3
<1>8. \A j \in 1..k : Where(j)' = Where(j)
  BY <1>6 DEF Where
<1>9. /\ pops' \in Seq(Popping) /\ Len(pops') = Len(pops) + 1 /\ pops' # <<>>
      /\ \A n \in 1..Len(pops) : pops'[n] = pops[n]
      /\ pops'[Len(pops) + 1] = r
  <2>1. /\ Append(pops, r) \in Seq(Popping) /\ Append(pops, r) # <<>>
        /\ Len(Append(pops, r)) = Len(pops) + 1
        /\ \A n \in 1..Len(pops) : Append(pops, r)[n] = pops[n]
        /\ Append(pops, r)[Len(pops) + 1] = r
    <3>1. pops \in Seq(Popping) /\ r \in Popping
      BY <1>4
    <3> QED
      BY ONLY <3>1, AppendProperties
  <2> QED
    BY <2>1
<1>10. \A n \in 1..Len(pops) : pops[n].opened <= k
  <2>1. Opened \in Nat /\ \A n \in 1..Len(pops) : pops[n].opened <= Opened
    BY OpenedIs
  <2> QED
    BY <1>4, <1>7, <2>1
<1>11. TypeOK'
  BY <1>1, <1>6, <1>9 DEF TypeOK, Token, Popping
<1>12. PagesInv'
  <2>1. pops # <<>> => pops'[1] = pops[1]
    BY <1>4, <1>9
  <2> QED
    BY <1>1, <1>9, <2>1 DEF PagesInv, Full
<1>13. LoopInv'
  <2>1. Opened' = k
    BY <1>9 DEF Opened, Last
  <2>2. ASSUME exiting' PROVE pops'[1] = AtExit
    <3>1. CASE exiting /\ pops # <<>>
      <4>1. pops'[1] = pops[1]
        BY <1>4, <1>9, <3>1
      <4> QED
        BY <1>1, <3>1, <4>1 DEF LoopInv
    <3>2. CASE pops = <<>> /\ r = AtExit
      <4>1. pops'[1] = r
        BY <1>4, <1>9, <3>2
      <4> QED
        BY <3>2, <4>1
    <3> QED
      BY <2>2, <3>1, <3>2
  <2> QED
    BY <1>6, <1>9, <2>1, <2>2 DEF LoopInv
<1>14. ASSUME NEW j \in 1..k PROVE TokenInv(j)'
  <2>1. TokenInv(j) /\ tokens'[j] = tokens[j] /\ Where(j)' = Where(j)
    BY <1>6, <1>7, <1>8 DEF IInv
  <2>2. \A i \in 1..j - 1 : Where(i)' = Where(i)
    BY <1>7, <1>8
  <2> QED
    BY <2>1, <2>2 DEF TokenInv, Leads
<1>15. ASSUME NEW n \in 1..Len(pops) PROVE PopInv(n)'
  <2>1. PopInv(n) /\ pops'[n] = pops[n] /\ \A m \in 1..n - 1 : pops'[m] = pops[m]
    <3>1. \A m \in 1..n - 1 : m \in 1..Len(pops)
      BY <1>4
    <3> QED
      BY <1>9, <3>1 DEF IInv
  <2>2. PopPlace(n)'
    BY <2>1 DEF PopInv, PopPlace
  <2>3. PopOrder(n)'
    BY <2>1 DEF PopInv, PopOrder
  <2>4. PopTokens(n)'
    <3>1. pops[n].opened <= k /\ pops[n].opened \in Nat
      BY <1>4, <1>10
    <3>2. \A j \in 1..pops[n].opened : j \in 1..k
      BY <1>7, <3>1
    <3>3. \A j \in pops[n].opened + 1..k : j \in pops[n].opened + 1..Len(tokens) /\ j \in 1..k
      BY <1>3, <1>7, <3>1
    <3> QED
      BY <1>6, <1>8, <2>1, <3>1, <3>2, <3>3 DEF PopInv, PopTokens
  <2>5. ASSUME DebugPoolAllocation, pages[pops[n].page] = <<>>, pops[n].page < hot
        PROVE  Ahead(n)'
    <3>1. Ahead(n)
      BY <2>1, <2>5 DEF PopInv, PopAlone
    <3>2. pops[n].opened \in Nat /\ pops[n].opened <= k /\ pops[n].page \in Nat
      BY <1>4, <1>10
    <3>3. CASE n < Len(pops) /\ pops[n + 1].page = pops[n].page + 1
      <4>1. n + 1 \in 1..Len(pops)
        BY <1>4, <3>3
      <4>2. pops'[n + 1].page = pops[n].page + 1 /\ n < Len(pops')
        BY <1>4, <1>9, <3>3, <4>1
      <4> QED
        BY <2>1, <4>2 DEF Ahead
    <3>4. CASE /\ pops[n].opened < Len(tokens)
               /\ Where(pops[n].opened + 1).page = pops[n].page + 1
      <4>1. CASE pops[n].opened < k
        <5>1. pops[n].opened + 1 \in 1..k
          <6>1. pops[n].opened \in Nat /\ k \in Nat
            BY <1>7, <3>2
          <6> QED
            BY <4>1, <6>1
        <5>2. ASSUME NEW j \in 1..k, j = pops[n].opened + 1
              PROVE  Where(j)'.page = pops[n].page + 1
          BY <1>8, <3>4, <5>2
        <5>3. pops[n].opened < Len(tokens')
          BY <1>6, <4>1
        <5> QED
          BY <2>1, <5>1, <5>2, <5>3 DEF Ahead
      <4>2. CASE pops[n].opened = k
        <5>1. pops # <<>>
          BY <1>4
        <5>2. r.page = pops[n].page + 1
          BY <3>4, <4>2, <5>1
        <5>3. CASE n = Len(pops)
          <6>1. pops'[n + 1] = r /\ n < Len(pops')
            BY <1>4, <1>9, <5>3
          <6> QED
            BY <2>1, <5>2, <6>1 DEF Ahead
        <5>4. CASE n # Len(pops)
          <6>1. PICK m \in 1..Len(pops) : m = n + 1 /\ n \in 1..m - 1
            BY <1>4, <5>4
          <6>2. pops[n].page < pops[m].page
            BY <2>5, <6>1 DEF IInv, PopInv, PopOrder
          <6>3. pops[m].page < r.page
            BY <2>5
          <6> QED
            BY <1>4, <3>2, <5>2, <6>2, <6>3
        <5> QED
          BY <5>3, <5>4
      <4> QED
        BY <1>7, <3>2, <4>1, <4>2
    <3> QED
      BY <3>1, <3>3, <3>4 DEF Ahead
  <2>6. PopAlone(n)'
    BY <2>1, <2>5 DEF PopInv, PopAlone
  <2> QED
    BY <2>2, <2>3, <2>4, <2>6 DEF PopInv
<1>16. ASSUME NEW n, n = Len(pops) + 1 PROVE PopInv(n)'
  <2>1. pops'[n] = r
    BY <1>9, <1>16
  <2>2. PopPlace(n)'
    <3>1. Len(pages[r.page]) <= COUNT /\ Len(pages[r.page]) \in Nat
      BY <1>1, <1>2, <1>5 DEF PagesInv
    <3>2. r.stop < COUNT /\ r.stop <= Len(pages[r.page])
      BY <1>5, <3>1, CountIs
    <3> QED
      BY <2>1, <3>2 DEF PopPlace
  <2>3. PopTokens(n)'
    <3>1. \A j \in k + 1..k : FALSE
      BY <1>7
    <3>2. Len(tokens') = k /\ pops'[n] = r /\ r.opened = k /\ k <= k
      BY <1>6, <1>7, <2>1
    <3>3. \A j \in 1..k : Below(Where(j)'.page, Where(j)'.at, r.page, r.stop)
      BY <1>8
    <3> QED
      BY <3>1, <3>2, <3>3 DEF PopTokens
  <2>4. PopOrder(n)'
    <3>1. \A m \in 1..n - 1 : m \in 1..Len(pops)
      BY <1>4, <1>16
    <3> QED
      BY <1>9, <1>10, <2>1, <3>1 DEF PopOrder
  <2>5. PopAlone(n)'
    <3>1. pages[r.page] # <<>>
      BY <1>5, EmptySeq
    <3> QED
      BY <2>1, <3>1 DEF PopAlone
  <2> QED
    BY <2>2, <2>3, <2>4, <2>5 DEF PopInv
<1>17. \A n \in 1..Len(pops') : PopInv(n)'
  <2>1. \A n \in 1..Len(pops') : n \in 1..Len(pops) \/ n = Len(pops) + 1
    BY <1>4, <1>9
  <2> QED
    BY <1>15, <1>16, <2>1
<1> QED
  BY <1>6, <1>11, <1>12, <1>13, <1>14, <1>17 DEF IInv

\* The pop of an open pool.
LEMMA PopIInv == ASSUME IInv, Pop PROVE IInv'
<1>1. PICK i \in Opened + 1..Len(tokens) : BeginPop(tokens[i], i - 1)
  BY DEF Pop
<1>2. TypeOK /\ PagesInv
  BY DEF IInv
<1>3. /\ Opened \in Nat /\ Opened <= Len(tokens)
      /\ \A n \in 1..Len(pops) : pops[n].opened <= Opened
  BY OpenedIs
<1>4. Len(tokens) \in Nat /\ hot \in Nat /\ \A n \in 1..Len(pops) : pops[n].opened \in Nat
  BY <1>2, TokensTyped, PagesTyped, PopsTyped
<1>5. i \in 1..Len(tokens) /\ i \in Nat /\ i - 1 \in 0..Len(tokens) /\ (i - 1) + 1 = i
      /\ Opened <= i - 1 /\ i - 1 < Len(tokens)
  BY <1>3, <1>4
<1>6. hot # 0 /\ ~placeholder
  BY <1>1, <1>2 DEF BeginPop, PagesInv
<1>7. /\ Where(i).page \in 1..hot /\ Where(i).at < Len(pages[Where(i).page])
      /\ Where(i).page \in Nat /\ Where(i).at \in Nat
  BY <1>5, <1>6, TokensBelow
<1> DEFINE r == [page |-> Where(i).page, stop |-> Where(i).at, opened |-> i - 1]
<1>8. r \in Popping /\ r.page = Where(i).page /\ r.stop = Where(i).at /\ r.opened = i - 1
  BY <1>5, <1>7 DEF Popping
<1>9. /\ pops' = Append(pops, r) /\ tokens' = SubSeq(tokens, 1, i - 1) /\ client' = FALSE
      /\ UNCHANGED <<pages, hot, placeholder, DebugPoolAllocation>>
  BY <1>1 DEF BeginPop, Where
<1>10. /\ exiting' \in BOOLEAN
       /\ exiting' => exiting /\ pops # <<>>
  BY <1>2 DEF Pop, Calls, TypeOK
<1> HIDE DEF r
<1>11. TokenInv(i)
  BY <1>5 DEF IInv
<1>12. /\ DebugPoolAllocation => r.stop = 0
       /\ \A j \in 1..i - 1 : Below(Where(j).page, Where(j).at, r.page, r.stop)
  BY <1>8, <1>11 DEF TokenInv
<1>13. ASSUME NEW n \in 1..Len(pops)
       PROVE  /\ ~Below(r.page, r.stop, pops[n].page, pops[n].stop)
              /\ DebugPoolAllocation => pops[n].page < r.page
  <2>1. i \in pops[n].opened + 1..Len(tokens)
    BY <1>3, <1>4, <1>5
  <2>2. PopTokens(n)
    BY DEF IInv, PopInv
  <2> QED
    BY <1>8, <2>1, <2>2 DEF PopTokens
<1> DEFINE k == i - 1
<1>14. /\ k \in 0..Len(tokens) /\ Opened <= k /\ k < Len(tokens) /\ r.page = Where(k + 1).page
       /\ r.opened = k /\ tokens' = SubSeq(tokens, 1, k)
       /\ \A j \in 1..k : Below(Where(j).page, Where(j).at, r.page, r.stop)
  BY <1>5, <1>8, <1>9, <1>12
<1>15. r.page \in 1..hot /\ r.stop < Len(pages[r.page])
  BY <1>7, <1>8
<1> HIDE DEF k
<1> QED
  BY <1>6, <1>8, <1>9, <1>10, <1>12, <1>13, <1>14, <1>15, BeginIInv

\* The thread ends.
LEMMA ThreadExitsIInv == ASSUME IInv, ThreadExits PROVE IInv'
<1>1. TypeOK /\ pops = <<>> /\ exiting' = TRUE
  BY DEF IInv, ThreadExits
<1>2. CASE hot # 0 /\ pages[1] # <<>>
  <2> DEFINE r == [page |-> 1, stop |-> 0, opened |-> 0]
  <2>1. BeginPop([page |-> 1, at |-> 0], 0)
    BY <1>2 DEF ThreadExits
  <2>2. Start([page |-> 1, at |-> 0]) = [page |-> 1, at |-> 0]
    BY DEF Start, Placeholder
  <2>3. /\ pops' = Append(pops, r) /\ tokens' = SubSeq(tokens, 1, 0) /\ client' = FALSE
        /\ UNCHANGED <<pages, hot, placeholder, DebugPoolAllocation>>
    BY <2>1, <2>2 DEF BeginPop
  <2>4. Opened = 0 /\ Len(pops) = 0
    BY <1>1, EmptySeq DEF Opened
  <2>5. 1 \in 1..hot /\ 0 < Len(pages[1])
    <3>1. 1 \in 1..Len(pages) /\ 1 \in 1..hot
      BY <1>1, <1>2, PagesTyped
    <3>2. pages[1] \in Seq(Entries)
      BY <1>1, <3>1, PagesTyped
    <3>3. Len(pages[1]) \in Nat \ {0}
      BY <1>2, <3>2, EmptySeq
    <3> QED
      BY <3>1, <3>3
  <2>6. r \in Popping /\ r.page = 1 /\ r.stop = 0 /\ r.opened = 0 /\ r = AtExit
    BY DEF Popping, AtExit
  <2>7. 0 \in 0..Len(tokens)
    BY <1>1, TokensTyped
  <2>8. /\ \A j \in 1..0 : Below(Where(j).page, Where(j).at, r.page, r.stop)
        /\ \A n \in 1..Len(pops) :
              /\ ~Below(r.page, r.stop, pops[n].page, pops[n].stop)
              /\ DebugPoolAllocation => pops[n].page < r.page
    BY <2>4
  <2>9. /\ r.page \in 1..hot /\ r.stop < Len(pages[r.page]) /\ Opened <= 0
        /\ exiting' \in BOOLEAN /\ (DebugPoolAllocation => r.stop = 0)
    BY <1>1, <2>4, <2>5, <2>6
  <2> HIDE DEF r
  <2> QED
    BY <1>1, <1>2, <2>3, <2>6, <2>7, <2>8, <2>9, BeginIInv
<1>3. CASE ~(hot # 0 /\ pages[1] # <<>>)
  <2>1. /\ pages' = <<>> /\ hot' = 0 /\ placeholder' = FALSE /\ tokens' = <<>>
        /\ UNCHANGED <<pops, client, DebugPoolAllocation>>
    BY <1>3 DEF ThreadExits
  <2>2. client' = TRUE /\ exiting' \in BOOLEAN /\ DebugPoolAllocation' \in BOOLEAN
    BY <1>1, <2>1 DEF ThreadExits, TypeOK
  <2> QED
    BY <1>1, <2>1, <2>2, BareIInv
<1> QED
  BY <1>2, <1>3
-----------------------------------------------------------------------------
\* A pop in progress releases the last entry.

\* The innermost pop in progress, and the page of its loop.
LEMMA Innermost ==
    ASSUME IInv, ~client
    PROVE  /\ Len(pops) \in 1..Len(pops) /\ Last(pops) = pops[Len(pops)]
           /\ PopInv(Len(pops)) /\ hot # 0 /\ ~placeholder
           /\ pops[Len(pops)].page \in 1..hot
           /\ pops[Len(pops)].opened = Len(tokens)
           /\ \A m \in 1..Len(pops) :
                 /\ pops[m].page <= pops[Len(pops)].page
                 /\ ~Below(pops[Len(pops)].page, pops[Len(pops)].stop, pops[m].page, pops[m].stop)
<1>1. TypeOK /\ PagesInv /\ LoopInv
  BY DEF IInv
<1>2. /\ Len(pops) \in Nat /\ (pops # <<>> <=> Len(pops) # 0)
      /\ \A n \in 1..Len(pops) : pops[n].page \in Nat /\ pops[n].stop \in Nat
  BY <1>1, PopsTyped
<1>3. Len(pops) # 0 /\ Len(tokens) = Opened
  BY <1>1, <1>2 DEF LoopInv
<1>4. Len(pops) \in 1..Len(pops) /\ Last(pops) = pops[Len(pops)]
  BY <1>2, <1>3 DEF Last
<1>5. pops[Len(pops)].opened = Len(tokens)
  BY <1>3, OpenedIs
<1>6. PopInv(Len(pops)) /\ pops[Len(pops)].page \in 1..hot
  BY <1>4 DEF IInv, PopInv, PopPlace
<1>7. hot # 0 /\ ~placeholder
  <2>1. hot \in Nat
    BY <1>1, PagesTyped
  <2>2. hot # 0
    BY <1>6, <2>1
  <2> QED
    BY <1>1, <2>2 DEF PagesInv
<1>8. ASSUME NEW m \in 1..Len(pops)
      PROVE  /\ pops[m].page <= pops[Len(pops)].page
             /\ ~Below(pops[Len(pops)].page, pops[Len(pops)].stop, pops[m].page, pops[m].stop)
  <2>1. CASE m = Len(pops)
    BY <1>2, <1>4, <2>1 DEF Below
  <2>2. CASE m # Len(pops)
    <3>1. m \in 1..Len(pops) - 1
      BY <1>2, <2>2
    <3>2. ~Below(pops[Len(pops)].page, pops[Len(pops)].stop, pops[m].page, pops[m].stop)
      BY <1>6, <3>1 DEF PopInv, PopOrder
    <3>3. pops[m].page <= pops[Len(pops)].page
      BY <1>2, <1>4, <3>2 DEF Below
    <3> QED
      BY <3>2, <3>3
  <2> QED
    BY <2>1, <2>2
<1> QED
  BY <1>4, <1>5, <1>6, <1>7, <1>8

\* There is a last page in use, when one is.
LEMMA LastUsedIs ==
    ASSUME IInv, NEW m \in 1..hot, pages[m] # <<>>
    PROVE  /\ LastUsed \in 1..hot /\ m <= LastUsed /\ pages[LastUsed] # <<>>
           /\ \A q \in LastUsed + 1..Len(pages) : pages[q] = <<>>
<1>1. TypeOK /\ PagesInv
  BY DEF IInv
<1>2. hot \in Nat /\ Len(pages) \in Nat /\ hot <= Len(pages) /\ m \in Nat
  BY <1>1, PagesTyped
<1> DEFINE T == {n \in Nat : n < hot /\ pages[hot - n] # <<>>}
<1>3. hot - m \in T
  BY <1>2
<1>4. PICK n \in T : \A i \in T : ~(<<i, n>> \in OpToRel(<, Nat))
  <2>1. T \subseteq Nat /\ T # {}
    BY <1>3
  <2> HIDE DEF T
  <2> QED
    BY <2>1, WFMin, NatLessThanWellFounded, Zenon
<1>5. \A i \in T : ~(i < n)
  <2>1. T \subseteq Nat
    OBVIOUS
  <2> HIDE DEF T
  <2> QED
    BY <1>4, <2>1, Zenon DEF OpToRel
<1> DEFINE Is(p) == pages[p] # <<>> /\ \A q \in p + 1..hot : pages[q] = <<>>
<1>6. n \in Nat /\ n < hot /\ pages[hot - n] # <<>>
  OBVIOUS
<1>7. hot - n \in 1..hot
  BY <1>2, <1>6
<1>8. Is(hot - n)
  <2>1. ASSUME NEW q \in (hot - n) + 1..hot, pages[q] # <<>> PROVE FALSE
    <3>1. hot - q \in Nat /\ hot - q < n /\ hot - (hot - q) = q /\ hot - q < hot
      BY <1>2, <1>6
    <3>2. hot - q \in T
      BY <2>1, <3>1
    <3> HIDE DEF T
    <3> QED
      BY <1>5, <3>1, <3>2
  <2> QED
    BY <1>6, <2>1
<1>9. LastUsed = CHOOSE p \in 1..hot : Is(p)
  BY DEF LastUsed
<1> HIDE DEF Is
<1>10. LastUsed \in 1..hot /\ Is(LastUsed)
  BY <1>7, <1>8, <1>9, Zenon
<1>11. pages[LastUsed] # <<>> /\ \A q \in LastUsed + 1..hot : pages[q] = <<>>
  BY <1>10 DEF Is
<1>12. m <= LastUsed
  <2>1. CASE ~(m <= LastUsed)
    <3>1. m \in LastUsed + 1..hot
      BY <1>2, <1>10, <2>1
    <3> QED
      BY <1>11, <3>1
  <2> QED
    BY <2>1
<1>13. ASSUME NEW q \in LastUsed + 1..Len(pages) PROVE pages[q] = <<>>
  <2>1. q \in LastUsed + 1..hot \/ q \in hot + 1..Len(pages)
    BY <1>2, <1>10
  <2> QED
    BY <1>1, <1>11, <2>1 DEF PagesInv
<1> QED
  BY <1>10, <1>11, <1>12, <1>13

\* What a release does to the pages.
LEMMA ReleaseIs ==
    ASSUME IInv, ReleaseNext, NEW n, n = Len(pops), NEW u, u = LastUsed
    PROVE  /\ ~client /\ hot' = u /\ pops[n].page <= u /\ u \in 1..hot /\ u \in 1..Len(pages)
           /\ pages' \in Seq(Seq(Entries)) /\ Len(pages') = Len(pages)
           /\ \A q \in 1..Len(pages) : q # u => pages'[q] = pages[q]
           /\ \A q \in u + 1..Len(pages) : pages[q] = <<>>
           /\ pages[u] # <<>> /\ pages'[u] = Front(pages[u])
           /\ Len(pages'[u]) \in Nat /\ Len(pages[u]) = Len(pages'[u]) + 1
           /\ \A i \in 1..Len(pages'[u]) : pages'[u][i] = pages[u][i]
           /\ pops[n].page = u => pops[n].stop <= Len(pages'[u])
<1>1. TypeOK /\ PagesInv
  BY DEF IInv
<1>2. /\ hot \in Nat /\ Len(pages) \in Nat /\ hot <= Len(pages) /\ pages \in Seq(Seq(Entries))
      /\ \A p \in 1..Len(pages) : pages[p] \in Seq(Entries) /\ Len(pages[p]) \in Nat
  BY <1>1, PagesTyped DEF TypeOK
<1>3. ~client
  BY DEF ReleaseNext
<1>4. /\ n \in 1..Len(pops) /\ Last(pops) = pops[n] /\ PopInv(n) /\ pops[n].page \in 1..hot
  BY <1>3, Innermost
<1>5. pops[n].stop \in Nat /\ pops[n].page \in Nat
  BY <1>1, <1>4, PopsTyped
<1>6. /\ Len(pages[pops[n].page]) # pops[n].stop /\ hot' = u
      /\ pages' = [pages EXCEPT ![u] = Front(pages[u])]
  BY <1>4 DEF ReleaseNext
<1>7. pops[n].page \in 1..Len(pages)
  BY <1>2, <1>4
<1>8. pops[n].stop < Len(pages[pops[n].page])
  <2>1. pops[n].stop <= Len(pages[pops[n].page])
    BY <1>4 DEF PopInv, PopPlace
  <2>2. Len(pages[pops[n].page]) \in Nat
    BY <1>2, <1>7
  <2> QED
    BY <1>5, <1>6, <2>1, <2>2
<1>9. pages[pops[n].page] # <<>>
  <2>1. Len(<<>>) = 0
    BY EmptySeq
  <2> QED
    BY <1>5, <1>8, <2>1
<1>10. /\ u \in 1..hot /\ pops[n].page <= u /\ pages[u] # <<>>
       /\ \A q \in u + 1..Len(pages) : pages[q] = <<>>
  BY <1>4, <1>9, LastUsedIs
<1>11. u \in 1..Len(pages)
  BY <1>2, <1>10
<1>12. /\ Front(pages[u]) \in Seq(Entries) /\ Len(pages[u]) \in Nat \ {0}
       /\ Len(Front(pages[u])) = Len(pages[u]) - 1
       /\ \A i \in 1..Len(pages[u]) - 1 : Front(pages[u])[i] = pages[u][i]
  BY <1>2, <1>10, <1>11, FrontIs
<1>13. /\ pages' \in Seq(Seq(Entries)) /\ Len(pages') = Len(pages)
       /\ \A q \in 1..Len(pages) : pages'[q] = IF q = u THEN Front(pages[u]) ELSE pages[q]
  BY <1>2, <1>6, <1>11, <1>12, ExceptSeq
<1>14. pages'[u] = Front(pages[u]) /\ \A q \in 1..Len(pages) : q # u => pages'[q] = pages[q]
  BY <1>11, <1>13
<1>15. /\ Len(pages'[u]) \in Nat /\ Len(pages[u]) = Len(pages'[u]) + 1
       /\ \A i \in 1..Len(pages'[u]) : pages'[u][i] = pages[u][i]
  BY <1>12, <1>14
<1>16. pops[n].page = u => pops[n].stop <= Len(pages'[u])
  BY <1>5, <1>8, <1>15
<1> QED
  BY <1>3, <1>6, <1>10, <1>11, <1>13, <1>14, <1>15, <1>16

LEMMA ReleasePages == ASSUME IInv, ReleaseNext PROVE PagesInv'
<1> DEFINE n == Len(pops)
           u == LastUsed
<1>1. TypeOK /\ PagesInv
  BY DEF IInv
<1>2. /\ hot \in Nat /\ Len(pages) \in Nat /\ hot <= Len(pages)
  BY <1>1, PagesTyped
<1>3. /\ ~client /\ hot' = u /\ pops[n].page <= u /\ u \in 1..hot /\ u \in 1..Len(pages)
      /\ Len(pages') = Len(pages)
      /\ \A q \in 1..Len(pages) : q # u => pages'[q] = pages[q]
      /\ \A q \in u + 1..Len(pages) : pages[q] = <<>>
      /\ Len(pages'[u]) \in Nat /\ Len(pages[u]) = Len(pages'[u]) + 1
  BY ReleaseIs
<1>4. /\ n \in 1..Len(pops) /\ ~placeholder
      /\ \A m \in 1..Len(pops) : pops[m].page <= pops[n].page
  BY <1>3, Innermost
<1>5. /\ Len(pops) \in Nat /\ (pops # <<>> <=> Len(pops) # 0)
      /\ \A m \in 1..Len(pops) : pops[m].page \in Nat
  BY <1>1, PopsTyped
<1>6. ~placeholder' /\ pops' = pops /\ DebugPoolAllocation' = DebugPoolAllocation
  BY <1>4 DEF ReleaseNext
<1> HIDE DEF u, n
<1>7. ASSUME NEW q \in 1..Len(pages) PROVE Len(pages'[q]) <= COUNT
  <2>1. Len(pages[q]) <= COUNT
    BY <1>1 DEF PagesInv
  <2>2. CASE q = u
    BY <1>3, <2>1, <2>2, CountIs
  <2>3. CASE q # u
    BY <1>3, <2>1, <2>3
  <2> QED
    BY <2>2, <2>3
<1>8. ASSUME NEW q \in u + 1..Len(pages) PROVE pages'[q] = <<>>
  <2>1. q \in 1..Len(pages) /\ q # u
    BY <1>2, <1>3
  <2> QED
    BY <1>3, <2>1
<1>9. ASSUME ~DebugPoolAllocation, NEW q \in 1..u - 1 PROVE Len(pages'[q]) = COUNT
  <2>1. q \in 1..Len(pages) /\ q # u /\ q \in 1..hot - 1
    BY <1>2, <1>3
  <2>2. Full(q)
    BY <1>1, <1>9, <2>1 DEF PagesInv
  <2> QED
    BY <1>3, <2>1, <2>2 DEF Full
<1>10. ASSUME DebugPoolAllocation, pages'[1] = <<>> PROVE pops # <<>> /\ pops[1].page = 1
  <2>1. 1 \in 1..Len(pages) /\ hot # 0 /\ u \in Nat
    BY <1>2, <1>3
  <2>2. CASE u # 1
    <3>1. pages[1] = <<>>
      BY <1>3, <1>10, <2>1, <2>2
    <3> QED
      BY <1>1, <1>10, <2>1, <3>1 DEF PagesInv
  <2>3. CASE u = 1
    <3>1. 1 \in 1..Len(pops) /\ pops # <<>>
      BY <1>4, <1>5
    <3>2. pops[1].page <= pops[n].page /\ pops[n].page \in Nat /\ pops[1].page \in Nat
      BY <1>4, <1>5, <3>1
    <3>3. pops[1].page \in 1..hot
      BY <3>1 DEF IInv, PopInv, PopPlace
    <3>4. pops[1].page = 1
      BY <1>2, <1>3, <2>3, <3>2, <3>3
    <3> QED
      BY <3>1, <3>4
  <2> QED
    BY <2>2, <2>3
<1>11. pops # <<>> /\ u # 0
  BY <1>2, <1>3, <1>4, <1>5
<1> QED
  BY <1>3, <1>6, <1>7, <1>8, <1>9, <1>10, <1>11 DEF PagesInv, Full

LEMMA ReleaseIInv == ASSUME IInv, ReleaseNext PROVE IInv'
<1> DEFINE n == Len(pops)
           u == LastUsed
<1>1. TypeOK /\ PagesInv /\ LoopInv
  BY DEF IInv
<1>2. /\ hot \in Nat /\ Len(pages) \in Nat /\ hot <= Len(pages)
  BY <1>1, PagesTyped
<1>3. /\ ~client /\ hot' = u /\ pops[n].page <= u /\ u \in 1..hot /\ u \in 1..Len(pages)
      /\ pages' \in Seq(Seq(Entries)) /\ Len(pages') = Len(pages)
      /\ \A q \in 1..Len(pages) : q # u => pages'[q] = pages[q]
      /\ Len(pages'[u]) \in Nat /\ Len(pages[u]) = Len(pages'[u]) + 1
      /\ \A i \in 1..Len(pages'[u]) : pages'[u][i] = pages[u][i]
      /\ pops[n].page = u => pops[n].stop <= Len(pages'[u])
  BY ReleaseIs
<1>4. /\ n \in 1..Len(pops) /\ PopInv(n) /\ pops[n].opened = Len(tokens) /\ ~placeholder
      /\ \A m \in 1..Len(pops) :
            /\ pops[m].page <= pops[n].page
            /\ ~Below(pops[n].page, pops[n].stop, pops[m].page, pops[m].stop)
  BY <1>3, Innermost
<1>5. \A m \in 1..Len(pops) : pops[m].page \in Nat /\ pops[m].stop \in Nat
  BY <1>1, PopsTyped
<1>6. /\ UNCHANGED <<placeholder, tokens, pops, exiting, DebugPoolAllocation>>
      /\ client' \in BOOLEAN
  BY DEF ReleaseNext
<1>7. PagesInv'
  BY ReleasePages
<1> HIDE DEF n, u
<1>8. TypeOK'
  <2>1. hot' \in 0..Len(pages')
    BY <1>2, <1>3
  <2> QED
    BY <1>1, <1>3, <1>6, <2>1 DEF TypeOK
<1>9. LoopInv'
  BY <1>1, <1>3, <1>6 DEF LoopInv, Opened
<1>10. ASSUME NEW k \in 1..Len(tokens) PROVE TokenInv(k)'
  <2>1. TokenInv(k)
    BY DEF IInv
  <2>2. /\ Leads(k) /\ Where(k).page \in 1..hot /\ Where(k).at < Len(pages[Where(k).page])
        /\ Where(k).page \in Nat /\ Where(k).at \in Nat
    BY <1>4, TokensBelow
  <2>3. Below(Where(k).page, Where(k).at, pops[n].page, pops[n].stop)
    BY <1>4 DEF PopInv, PopTokens
  <2>4. Where(k).page \in 1..Len(pages)
    BY <1>2, <2>2
  <2>5. Leads(k)'
    <3>1. CASE Where(k).page = u
      <4>1. pops[n].page = u /\ Where(k).at < pops[n].stop
        <5>1. pops[n].page <= u /\ pops[n].page \in Nat
          BY <1>3, <1>4, <1>5
        <5>2. u \in Nat
          BY <2>2, <3>1
        <5> QED
          BY <2>3, <3>1, <5>1, <5>2 DEF Below
      <4>2. Where(k).at < Len(pages'[u])
        <5>1. pops[n].stop \in Nat
          BY <1>4, <1>5
        <5>2. pops[n].stop <= Len(pages'[u]) /\ Len(pages'[u]) \in Nat
          BY <1>3, <4>1
        <5>3. Where(k).at \in Nat
          BY <2>2
        <5> QED
          BY <4>1, <5>1, <5>2, <5>3
      <4>3. Where(k).at + 1 \in 1..Len(pages'[u])
        <5>1. Len(pages'[u]) \in Nat /\ Where(k).at \in Nat
          BY <1>3, <2>2
        <5> QED
          BY <4>2, <5>1
      <4>4. pages'[u][Where(k).at + 1] = pages[u][Where(k).at + 1]
        BY <1>3, <4>3
      <4> QED
        BY <1>3, <1>6, <2>2, <2>4, <3>1, <4>2, <4>4, LeadsKept
    <3>2. CASE Where(k).page # u
      <4>1. pages'[Where(k).page] = pages[Where(k).page]
        BY <1>3, <2>4, <3>2
      <4> QED
        BY <1>3, <1>6, <2>2, <2>4, <4>1, LeadsKept
    <3> QED
      BY <3>1, <3>2
  <2> QED
    BY <1>6, <2>1, <2>5 DEF TokenInv, Where
<1>11. ASSUME NEW m \in 1..Len(pops) PROVE PopInv(m)'
  <2>1. PopInv(m)
    BY DEF IInv
  <2>2. /\ pops[m].page \in 1..hot /\ pops[m].stop < COUNT
        /\ pops[m].stop <= Len(pages[pops[m].page])
    BY <2>1 DEF PopInv, PopPlace
  <2>7. /\ pops[m].page \in Nat /\ pops[m].stop \in Nat /\ u \in Nat
        /\ pops[n].page \in Nat /\ pops[n].stop \in Nat
    <3>1. u \in Nat
      BY <1>3
    <3> QED
      BY <1>4, <1>5, <3>1
  <2>8. /\ pops[m].page <= pops[n].page
        /\ ~Below(pops[n].page, pops[n].stop, pops[m].page, pops[m].stop)
    BY <1>4
  <2>3. pops[m].page \in 1..Len(pages) /\ pops[m].page \in 1..u
    <3>1. pops[n].page <= u /\ u <= Len(pages) /\ 1 <= pops[m].page
      BY <1>3, <2>2
    <3>2. pops[m].page <= pops[n].page
      BY <2>8
    <3>3. pops[m].page <= u
      BY <2>7, <3>1, <3>2
    <3> QED
      BY <1>2, <2>7, <3>1, <3>3
  <2>4. PopPlace(m)'
    <3>1. CASE pops[m].page = u
      <4>1. pops[n].page = u /\ pops[m].stop <= pops[n].stop
        <5>1. pops[n].page <= u
          BY <1>3
        <5> QED
          BY <2>7, <2>8, <3>1, <5>1 DEF Below
      <4>2. pops[m].stop <= Len(pages'[u])
        <5>1. pops[n].stop <= Len(pages'[u]) /\ Len(pages'[u]) \in Nat
          BY <1>3, <4>1
        <5> QED
          BY <2>7, <4>1, <5>1
      <4> QED
        BY <1>3, <1>6, <2>2, <2>3, <3>1, <4>2 DEF PopPlace
    <3>2. CASE pops[m].page # u
      BY <1>3, <1>6, <2>2, <2>3, <3>2 DEF PopPlace
    <3> QED
      BY <3>1, <3>2
  <2>5. PopTokens(m)' /\ PopOrder(m)'
    BY <1>6, <2>1 DEF PopInv, PopTokens, PopOrder, Where
  <2>6. PopAlone(m)'
    <3>1. ASSUME DebugPoolAllocation, pages'[pops[m].page] = <<>>, pops[m].page < u
          PROVE  Ahead(m)
      <4>1. pages[pops[m].page] = <<>>
        <5>1. pops[m].page # u
          BY <2>7, <3>1
        <5>2. pages'[pops[m].page] = pages[pops[m].page]
          BY <1>3, <2>3, <5>1
        <5> QED
          BY <3>1, <5>2
      <4>2. pops[m].page < hot
        BY <1>2, <1>3, <1>5, <3>1
      <4> QED
        BY <2>1, <3>1, <4>1, <4>2 DEF PopInv, PopAlone
    <3>2. Ahead(m)' <=> Ahead(m)
      BY <1>6 DEF Ahead, Where
    <3> QED
      BY <1>3, <1>6, <2>1, <3>1, <3>2 DEF PopInv, PopAlone
  <2> QED
    BY <2>4, <2>5, <2>6 DEF PopInv
<1> QED
  BY <1>6, <1>7, <1>8, <1>9, <1>10, <1>11 DEF IInv
-----------------------------------------------------------------------------
\* A pop in progress ends.

\* It was releasing from its own page, which it leaves hot.
LEMMA FinishHot ==
    ASSUME IInv, FinishPop, NEW n, n = Len(pops), NEW p, p = pops[n].page
    PROVE  /\ ~client /\ client' = TRUE /\ n \in 1..Len(pops) /\ Last(pops) = pops[n]
           /\ p \in Nat /\ p # 0 /\ hot = p /\ p \in 1..Len(pages)
           /\ Len(pages[p]) = pops[n].stop
           /\ DebugPoolAllocation => pops[n].stop = 0 /\ pages[p] = <<>>
           /\ UNCHANGED <<placeholder, tokens, exiting, DebugPoolAllocation>>
           /\ pops' \in Seq(Popping) /\ n \in Nat /\ Len(pops') = n - 1
           /\ \A m \in 1..n - 1 : pops'[m] = pops[m] /\ m \in 1..Len(pops)
<1>1. TypeOK /\ PagesInv
  BY DEF IInv
<1>2. /\ hot \in Nat /\ Len(pages) \in Nat /\ hot <= Len(pages)
      /\ \A q \in 1..Len(pages) : pages[q] \in Seq(Entries) /\ Len(pages[q]) \in Nat
  BY <1>1, PagesTyped
<1>3. ~client /\ client' = TRUE /\ UNCHANGED <<placeholder, tokens, exiting, DebugPoolAllocation>>
  BY DEF FinishPop
<1>4. /\ n \in 1..Len(pops) /\ Last(pops) = pops[n] /\ PopInv(n) /\ p \in 1..hot
      /\ pops[n].opened = Len(tokens)
  BY <1>3, Innermost
<1>5. /\ pops \in Seq(Popping) /\ Len(pops) \in Nat /\ (pops # <<>> <=> Len(pops) # 0)
      /\ pops[n].page \in Nat /\ pops[n].stop \in Nat
  BY <1>1, <1>4, PopsTyped
<1>6. Len(pages[p]) = pops[n].stop /\ pops' = Front(pops)
  BY <1>4 DEF FinishPop
<1>7. p \in Nat /\ p # 0 /\ p \in 1..Len(pages) /\ p <= hot
  BY <1>2, <1>4
<1>8. DebugPoolAllocation => pops[n].stop = 0 /\ pages[p] = <<>>
  <2>1. ASSUME DebugPoolAllocation PROVE pops[n].stop = 0
    BY <1>4, <2>1 DEF PopInv, PopAlone
  <2>2. pages[p] \in Seq(Entries)
    BY <1>2, <1>7
  <2> QED
    BY <1>6, <2>1, <2>2, EmptySeq
<1>9. ASSUME p < hot PROVE FALSE
  <2>1. CASE DebugPoolAllocation
    <3>1. Ahead(n)
      BY <1>4, <1>8, <1>9, <2>1 DEF PopInv, PopAlone
    <3>2. ~(Len(tokens) < Len(tokens)) /\ ~(n < Len(pops))
      <4>1. Len(tokens) \in Nat
        BY <1>1, TokensTyped
      <4> QED
        BY <1>5, <4>1
    <3> QED
      BY <1>4, <3>1, <3>2 DEF Ahead
  <2>2. CASE ~DebugPoolAllocation
    <3>1. p \in 1..hot - 1
      BY <1>2, <1>7, <1>9
    <3>2. Len(pages[p]) = COUNT
      BY <1>1, <2>2, <3>1 DEF PagesInv, Full
    <3>3. pops[n].stop < COUNT
      BY <1>4 DEF PopInv, PopPlace
    <3> QED
      BY <1>5, <1>6, <3>2, <3>3, CountIs
  <2> QED
    BY <2>1, <2>2
<1>10. hot = p
  <2>1. ~(p < hot) /\ p <= hot /\ p \in Nat /\ hot \in Nat
    BY <1>2, <1>7, <1>9
  <2> QED
    BY <2>1
<1>11. /\ pops' \in Seq(Popping) /\ n \in Nat /\ Len(pops') = n - 1
       /\ \A m \in 1..n - 1 : pops'[m] = pops[m]
  <2>1. pops # <<>>
    BY <1>4, <1>5
  <2>2. /\ Front(pops) \in Seq(Popping) /\ Len(Front(pops)) = Len(pops) - 1
        /\ \A m \in 1..Len(pops) - 1 : Front(pops)[m] = pops[m]
    BY <1>5, <2>1, FrontIs
  <2> QED
    BY <1>5, <1>6, <2>2
<1>12. \A m \in 1..n - 1 : m \in 1..Len(pops)
  BY <1>5
<1> QED
  BY <1>3, <1>4, <1>6, <1>7, <1>8, <1>10, <1>11, <1>12

\* The pages that are left: none from its own in the debug mode, and else its
\* own and at most one more.
LEMMA FinishIs ==
    ASSUME IInv, FinishPop, NEW n, n = Len(pops), NEW p, p = pops[n].page, ~(exiting /\ n = 1)
    PROVE  /\ pages' \in Seq(Seq(Entries)) /\ Len(pages') \in Nat /\ Len(pages') <= Len(pages)
           /\ \A q \in 1..Len(pages') : pages'[q] = pages[q] /\ q \in 1..Len(pages)
           /\ \/ DebugPoolAllocation /\ hot' = p - 1 /\ Len(pages') = p - 1
              \/ ~DebugPoolAllocation /\ hot' = p /\ p <= Len(pages') /\ Len(pages') <= p + 1
<1>1. TypeOK
  BY DEF IInv
<1>2. /\ Len(pages) \in Nat /\ pages \in Seq(Seq(Entries))
  BY <1>1, PagesTyped DEF TypeOK
<1>3. /\ Last(pops) = pops[n] /\ p \in Nat /\ p # 0 /\ hot = p /\ p \in 1..Len(pages)
      /\ DebugPoolAllocation => pages[p] = <<>>
  BY FinishHot
<1>4. p <= Len(pages) /\ p - 1 \in Nat
  BY <1>3
<1>5. IF DebugPoolAllocation /\ pages[p] = <<>>
      THEN pages' = SubSeq(pages, 1, p - 1) /\ hot' = p - 1
      ELSE pages' = KillChildren(p) /\ hot' = p
  BY <1>3 DEF FinishPop
<1>6. ASSUME NEW i \in 0..Len(pages), pages' = SubSeq(pages, 1, i)
      PROVE  /\ pages' \in Seq(Seq(Entries)) /\ Len(pages') = i
             /\ \A q \in 1..i : pages'[q] = pages[q] /\ q \in 1..Len(pages)
  <2>1. \A q \in 1..i : q \in 1..Len(pages)
    BY <1>2
  <2> QED
    BY <1>2, <1>6, <2>1, Cut
<1>7. CASE DebugPoolAllocation
  <2>1. pages' = SubSeq(pages, 1, p - 1) /\ hot' = p - 1
    BY <1>3, <1>5, <1>7
  <2>2. p - 1 \in 0..Len(pages) /\ p - 1 <= Len(pages)
    BY <1>2, <1>3, <1>4
  <2>3. /\ pages' \in Seq(Seq(Entries)) /\ Len(pages') = p - 1
        /\ \A q \in 1..p - 1 : pages'[q] = pages[q] /\ q \in 1..Len(pages)
    BY <1>6, <2>1, <2>2
  <2> QED
    BY <1>4, <1>7, <2>1, <2>2, <2>3
<1>8. CASE ~DebugPoolAllocation
  <2>1. pages' = KillChildren(p) /\ hot' = p
    BY <1>5, <1>8
  <2>2. CASE HasChild(p) /\ LessThanHalfFull(p)
    <3>1. pages' = SubSeq(pages, 1, p) /\ p \in 0..Len(pages) /\ p <= p + 1
      BY <1>2, <1>3, <2>1, <2>2 DEF KillChildren
    <3>2. /\ pages' \in Seq(Seq(Entries)) /\ Len(pages') = p
          /\ \A q \in 1..p : pages'[q] = pages[q] /\ q \in 1..Len(pages)
      BY <1>6, <3>1
    <3>3. Len(pages') \in Nat /\ Len(pages') <= Len(pages)
          /\ p <= Len(pages') /\ Len(pages') <= p + 1
      BY <1>3, <1>4, <3>2
    <3> QED
      BY <1>8, <2>1, <3>2, <3>3
  <2>3. CASE HasChild(p) /\ ~LessThanHalfFull(p)
    <3>1. pages' = SubSeq(pages, 1, p + 1)
      BY <2>1, <2>3 DEF KillChildren, Child
    <3>2. p + 1 \in 0..Len(pages) /\ p + 1 <= Len(pages) /\ p + 1 \in Nat /\ p <= p + 1
      BY <1>2, <1>3, <2>3 DEF HasChild, Child
    <3>3. /\ pages' \in Seq(Seq(Entries)) /\ Len(pages') = p + 1
          /\ \A q \in 1..p + 1 : pages'[q] = pages[q] /\ q \in 1..Len(pages)
      BY <1>6, <3>1, <3>2
    <3> QED
      BY <1>3, <1>8, <2>1, <3>2, <3>3
  <2>4. CASE ~HasChild(p)
    <3>1. pages' = pages
      BY <2>1, <2>4 DEF KillChildren
    <3>2. Len(pages) <= p + 1
      BY <1>2, <1>3, <2>4 DEF HasChild, Child
    <3> QED
      BY <1>2, <1>4, <1>8, <2>1, <3>1, <3>2
  <2> QED
    BY <2>2, <2>3, <2>4
<1> QED
  BY <1>7, <1>8

LEMMA FinishPages ==
    ASSUME IInv, FinishPop, NEW n, n = Len(pops), NEW p, p = pops[n].page, ~(exiting /\ n = 1)
    PROVE  PagesInv'
<1>1. TypeOK /\ PagesInv
  BY DEF IInv
<1>2. /\ Len(pages) \in Nat /\ hot <= Len(pages)
  BY <1>1, PagesTyped
<1>3. /\ ~client /\ n \in 1..Len(pops) /\ p \in Nat /\ p # 0 /\ hot = p /\ p \in 1..Len(pages)
      /\ UNCHANGED <<placeholder, DebugPoolAllocation>>
      /\ pops' \in Seq(Popping) /\ n \in Nat /\ Len(pops') = n - 1
      /\ \A m \in 1..n - 1 : pops'[m] = pops[m]
  BY FinishHot
<1>4. /\ pages' \in Seq(Seq(Entries)) /\ Len(pages') \in Nat /\ Len(pages') <= Len(pages)
      /\ \A q \in 1..Len(pages') : pages'[q] = pages[q] /\ q \in 1..Len(pages)
      /\ \/ DebugPoolAllocation /\ hot' = p - 1 /\ Len(pages') = p - 1
         \/ ~DebugPoolAllocation /\ hot' = p /\ p <= Len(pages') /\ Len(pages') <= p + 1
  BY FinishIs
<1>5. ~placeholder /\ ~placeholder'
  BY <1>1, <1>3 DEF PagesInv
<1>6. ASSUME hot' = 0 PROVE pages' = <<>>
  <2>1. Len(pages') = 0
    BY <1>3, <1>4, <1>6
  <2> QED
    BY <1>4, <2>1, EmptySeq
<1>7. \A q \in 1..Len(pages') : Len(pages'[q]) <= COUNT
  BY <1>1, <1>4 DEF PagesInv
<1>8. ASSUME NEW q \in hot' + 1..Len(pages') PROVE pages'[q] = <<>>
  <2>1. CASE DebugPoolAllocation
    BY <1>3, <1>4, <1>8, <2>1
  <2>2. CASE ~DebugPoolAllocation
    <3>1. hot' = p
      BY <1>4, <2>2
    <3>2. q \in p + 1..Len(pages) /\ q \in 1..Len(pages')
      BY <1>2, <1>3, <1>4, <1>8, <3>1
    <3>3. pages[q] = <<>>
      BY <1>1, <1>3, <3>2 DEF PagesInv
    <3> QED
      BY <1>4, <3>2, <3>3
  <2> QED
    BY <2>1, <2>2
<1>9. ASSUME ~DebugPoolAllocation, NEW q \in 1..hot' - 1 PROVE Len(pages'[q]) = COUNT
  <2>1. hot' = p /\ p <= Len(pages') /\ Len(pages') \in Nat
    BY <1>4, <1>9
  <2>2. q \in 1..p - 1 /\ q \in 1..Len(pages')
    <3>1. q \in 1..p - 1 /\ p \in Nat
      BY <1>3, <1>9, <2>1
    <3> QED
      BY <2>1, <3>1
  <2>3. Len(pages[q]) = COUNT
    BY <1>1, <1>3, <1>9, <2>2 DEF PagesInv, Full
  <2> QED
    BY <1>4, <2>2, <2>3
<1>10. ASSUME DebugPoolAllocation, hot' # 0, pages'[1] = <<>>
       PROVE  pops' # <<>> /\ pops'[1].page = 1
  <2>1. hot' = p - 1 /\ Len(pages') = p - 1
    BY <1>4, <1>10
  <2>2. 1 \in 1..Len(pages') /\ p # 1
    BY <1>3, <1>10, <2>1
  <2>3. pages[1] = <<>>
    BY <1>4, <1>10, <2>2
  <2>4. pops # <<>> /\ pops[1].page = 1
    BY <1>1, <1>3, <1>10, <2>3 DEF PagesInv
  <2>5. n # 1
    BY <2>2, <2>4
  <2>6. 1 \in 1..n - 1 /\ Len(pops') # 0
    BY <1>3, <2>5
  <2>7. pops' # <<>>
    BY <2>6, EmptySeq
  <2> QED
    BY <1>3, <2>4, <2>6, <2>7
<1>11. Len(pages') <= hot' + 1
  BY <1>3, <1>4
<1> QED
  BY <1>3, <1>5, <1>6, <1>7, <1>8, <1>9, <1>10, <1>11 DEF PagesInv, Full

LEMMA FinishIInv == ASSUME IInv, FinishPop PROVE IInv'
<1>a. PICK n : n = Len(pops)
  OBVIOUS
<1>b. PICK p : p = pops[n].page
  OBVIOUS
<1>1. TypeOK /\ PagesInv /\ LoopInv
  BY DEF IInv
<1>2. /\ Len(pages) \in Nat /\ hot <= Len(pages)
  BY <1>1, PagesTyped
<1>3. /\ ~client /\ client' = TRUE /\ n \in 1..Len(pops) /\ Last(pops) = pops[n]
      /\ p \in Nat /\ p # 0 /\ hot = p /\ p \in 1..Len(pages)
      /\ DebugPoolAllocation => pops[n].stop = 0 /\ pages[p] = <<>>
      /\ UNCHANGED <<placeholder, tokens, exiting, DebugPoolAllocation>>
      /\ pops' \in Seq(Popping) /\ n \in Nat /\ Len(pops') = n - 1
      /\ \A m \in 1..n - 1 : pops'[m] = pops[m] /\ m \in 1..Len(pops)
  BY <1>a, <1>b, FinishHot
<1>4. /\ PopInv(n) /\ pops[n].opened = Len(tokens) /\ ~placeholder
  BY <1>a, <1>3, Innermost
<1>5. /\ pops # <<>>
      /\ \A m \in 1..Len(pops) : /\ pops[m].page \in Nat /\ pops[m].stop \in Nat
                                 /\ pops[m].opened \in Nat
  <2>1. Len(pops) # 0
    BY <1>3
  <2> QED
    BY <1>1, <2>1, PopsTyped
<1>6. tokens \in Seq(Token) /\ Len(tokens) \in Nat
  BY <1>1, TokensTyped
<1>7. CASE exiting /\ n = 1
  <2>1. pages' = <<>> /\ hot' = 0
    BY <1>a, <1>7 DEF FinishPop
  <2>2. Len(pops') = 0
    BY <1>3, <1>7
  <2>3. pops' = <<>>
    BY <1>3, <2>2, EmptySeq
  <2>4. tokens = <<>>
    <3>1. Len(tokens) = 0
      BY <1>1, <1>4, <1>5, <1>7, <1>a DEF LoopInv, AtExit
    <3> QED
      BY <1>6, <3>1, EmptySeq
  <2>5. placeholder' = FALSE /\ exiting' \in BOOLEAN /\ DebugPoolAllocation' \in BOOLEAN
    BY <1>1, <1>3, <1>4 DEF TypeOK
  <2> QED
    BY <1>3, <2>1, <2>3, <2>4, <2>5, BareIInv
<1>8. CASE ~(exiting /\ n = 1)
  <2>1. /\ pages' \in Seq(Seq(Entries)) /\ Len(pages') \in Nat /\ Len(pages') <= Len(pages)
        /\ \A q \in 1..Len(pages') : pages'[q] = pages[q] /\ q \in 1..Len(pages)
        /\ \/ DebugPoolAllocation /\ hot' = p - 1 /\ Len(pages') = p - 1
           \/ ~DebugPoolAllocation /\ hot' = p /\ p <= Len(pages') /\ Len(pages') <= p + 1
    BY <1>a, <1>b, <1>8, FinishIs
  <2>2. PagesInv'
    BY <1>a, <1>b, <1>8, FinishPages
  <2>3. TypeOK'
    <3>1. hot' \in 0..Len(pages')
      BY <1>3, <2>1
    <3> QED
      BY <1>1, <1>3, <2>1, <3>1 DEF TypeOK, Popping
  <2>4. LoopInv'
    <3>1. ASSUME exiting', pops' # <<>> PROVE pops'[1] = AtExit
      <4>1. Len(pops') # 0
        BY <1>3, <3>1, EmptySeq
      <4>2. 1 \in 1..n - 1
        BY <1>3, <4>1
      <4>3. pops'[1] = pops[1]
        BY <1>3, <4>2
      <4> QED
        BY <1>1, <1>3, <1>5, <3>1, <4>3 DEF LoopInv
    <3> QED
      BY <1>3, <3>1 DEF LoopInv
  <2>5. ASSUME NEW k \in 1..Len(tokens) PROVE TokenInv(k)'
    <3>1. TokenInv(k)
      BY DEF IInv
    <3>2. /\ Leads(k) /\ Where(k).page \in 1..hot /\ Where(k).at < Len(pages[Where(k).page])
          /\ Where(k).page \in Nat /\ Where(k).at \in Nat
      BY <1>4, TokensBelow
    <3>3. Below(Where(k).page, Where(k).at, p, pops[n].stop)
      BY <1>b, <1>4 DEF PopInv, PopTokens
    <3>4. Where(k).page \in 1..Len(pages')
      <4>1. CASE DebugPoolAllocation
        <5>1. pops[n].stop = 0 /\ Len(pages') = p - 1
          BY <1>3, <2>1, <4>1
        <5>2. Where(k).page < p
          BY <3>2, <3>3, <5>1 DEF Below
        <5> QED
          BY <1>3, <3>2, <5>1, <5>2
      <4>2. CASE ~DebugPoolAllocation
        <5>1. p <= Len(pages')
          BY <2>1, <4>2
        <5> QED
          BY <1>3, <2>1, <3>2, <5>1
      <4> QED
        BY <4>1, <4>2
    <3>5. pages'[Where(k).page] = pages[Where(k).page]
      BY <2>1, <3>4
    <3>6. Leads(k)'
      BY <1>3, <3>2, <3>4, <3>5, LeadsKept
    <3> QED
      BY <1>3, <3>1, <3>6 DEF TokenInv, Where
  <2>6. ASSUME NEW m \in 1..n - 1 PROVE PopInv(m)'
    <3>1. PopInv(m) /\ pops'[m] = pops[m] /\ m \in 1..Len(pops)
      BY <1>3 DEF IInv
    <3>2. /\ pops[m].page \in Nat /\ pops[n].page \in Nat /\ m \in Nat
      BY <1>3, <1>5, <3>1
    <3>3. /\ pops[m].page \in 1..hot /\ pops[m].stop < COUNT
          /\ pops[m].stop <= Len(pages[pops[m].page])
      BY <3>1 DEF PopInv, PopPlace
    <3>4. DebugPoolAllocation => pops[m].page < p
      BY <1>b, <1>4 DEF PopInv, PopOrder
    <3>5. pops[m].page \in 1..hot' /\ pops[m].page \in 1..Len(pages')
      <4>1. 1 <= pops[m].page /\ pops[m].page <= p
        BY <1>3, <3>2, <3>3
      <4>2. pops[m].page <= hot' /\ pops[m].page <= Len(pages') /\ hot' \in Nat
        <5>1. CASE DebugPoolAllocation
          <6>1. hot' = p - 1 /\ Len(pages') = p - 1 /\ pops[m].page < p
            BY <2>1, <3>4, <5>1
          <6>2. p \in Nat /\ pops[m].page \in Nat
            BY <1>3, <3>2
          <6> QED
            BY <4>1, <6>1, <6>2
        <5>2. CASE ~DebugPoolAllocation
          <6>1. hot' = p /\ p <= Len(pages') /\ Len(pages') \in Nat
            BY <2>1, <5>2
          <6>2. p \in Nat /\ pops[m].page \in Nat
            BY <1>3, <3>2
          <6> QED
            BY <4>1, <6>1, <6>2
        <5> QED
          BY <5>1, <5>2
      <4> QED
        BY <2>1, <3>2, <4>1, <4>2
    <3>6. pages'[pops[m].page] = pages[pops[m].page]
      BY <2>1, <3>5
    <3>7. PopPlace(m)'
      BY <3>1, <3>3, <3>5, <3>6 DEF PopPlace
    <3>8. PopTokens(m)'
      BY <1>3, <3>1 DEF PopInv, PopTokens, Where
    <3>9. PopOrder(m)'
      <4>1. \A i \in 1..m - 1 : pops'[i] = pops[i]
        <5>1. \A i \in 1..m - 1 : i \in 1..n - 1
          BY <1>3
        <5> QED
          BY <1>3, <5>1
      <4> QED
        BY <1>3, <3>1, <4>1 DEF PopInv, PopOrder
    <3>10. ASSUME DebugPoolAllocation, pages'[pops[m].page] = <<>>, pops[m].page < hot'
           PROVE  Ahead(m)'
      <4>1. hot' = p - 1
        BY <2>1, <3>10
      <4>2. pages[pops[m].page] = <<>> /\ pops[m].page < hot /\ pops[m].page < p - 1
        BY <1>3, <3>2, <3>6, <3>10, <4>1
      <4>3. Ahead(m)
        BY <3>1, <3>10, <4>2 DEF PopInv, PopAlone
      <4>4. CASE m < Len(pops) /\ pops[m + 1].page = pops[m].page + 1
        <5>1. m + 1 # n
          BY <1>b, <1>3, <3>2, <4>2, <4>4
        <5>2. m + 1 \in 1..n - 1 /\ m < n - 1
          BY <1>3, <3>2, <5>1
        <5>3. pops'[m + 1] = pops[m + 1] /\ m < Len(pops')
          BY <1>3, <5>2
        <5> QED
          BY <3>1, <4>4, <5>3 DEF Ahead
      <4>5. CASE /\ pops[m].opened < Len(tokens)
                 /\ Where(pops[m].opened + 1).page = pops[m].page + 1
        BY <1>3, <3>1, <4>5 DEF Ahead, Where
      <4> QED
        BY <4>3, <4>4, <4>5 DEF Ahead
    <3>11. PopAlone(m)'
      BY <1>3, <3>1, <3>10 DEF PopInv, PopAlone
    <3> QED
      BY <3>7, <3>8, <3>9, <3>11 DEF PopInv
  <2> QED
    BY <1>3, <2>2, <2>3, <2>4, <2>5, <2>6 DEF IInv
<1> QED
  BY <1>7, <1>8
-----------------------------------------------------------------------------
\* Every action preserves the invariant.

LEMMA AutoreleaseIInv == ASSUME IInv, Autorelease PROVE IInv'
<1>1. PICK o \in Objects : IF hot # 0 THEN AddTo(PageFor(o), o) ELSE FirstPage(o)
  BY DEF Autorelease
<1>2. o \in Entries /\ o # Boundary
  BY PoolAssumption DEF Entries
<1>3. client /\ UNCHANGED <<tokens, pops, client, exiting, DebugPoolAllocation>>
  BY DEF Autorelease, Calls
<1>4. CASE hot # 0
  <2>1. AddTo(PageFor(o), o) /\ tokens' = tokens
        /\ UNCHANGED <<pops, client, exiting, DebugPoolAllocation>>
    BY <1>1, <1>3, <1>4
  <2> QED
    BY <1>2, <1>3, <1>4, <2>1, GrowIInv
<1>5. CASE hot = 0
  <2>1. FirstPage(o) /\ tokens' = tokens
        /\ UNCHANGED <<pops, client, exiting, DebugPoolAllocation>>
    BY <1>1, <1>3, <1>5
  <2> QED
    BY <1>2, <1>3, <1>5, <2>1, FirstPageIInv
<1> QED
  BY <1>4, <1>5

LEMMA PushIInv == ASSUME IInv, Push PROVE IInv'
<1>1. Boundary \in Entries
  BY DEF Entries
<1>2. client /\ UNCHANGED <<pops, client, exiting, DebugPoolAllocation>>
  BY DEF Push, Calls
<1>3. CASE hot # 0
  <2>1. AddTo(PageFor(Boundary), Boundary) /\ tokens' = Append(tokens, Place(PageFor(Boundary)))
    BY <1>3 DEF Push
  <2> QED
    BY <1>1, <1>2, <1>3, <2>1, GrowIInv
<1>4. CASE hot = 0
  <2>1. /\ FirstPage(Boundary)
        /\ tokens' = Append(tokens, [page |-> 1, at |-> IF placeholder THEN 1 ELSE 0])
    BY <1>4 DEF Push
  <2> QED
    BY <1>1, <1>2, <1>4, <2>1, FirstPageIInv
<1> QED
  BY <1>3, <1>4

LEMMA NextIInv == ASSUME IInv, [Next]_vars PROVE IInv'
<1>1. CASE Autorelease
  BY <1>1, AutoreleaseIInv
<1>2. CASE PushPlaceholder
  BY <1>2, PushPlaceholderIInv
<1>3. CASE Push
  BY <1>3, PushIInv
<1>4. CASE PopUnused
  BY <1>4, PopUnusedIInv
<1>5. CASE Pop
  BY <1>5, PopIInv
<1>6. CASE ReleaseNext
  BY <1>6, ReleaseIInv
<1>7. CASE Return
  BY <1>7, ReturnIInv
<1>8. CASE FinishPop
  BY <1>8, FinishIInv
<1>9. CASE ThreadExits
  BY <1>9, ThreadExitsIInv
<1>10. CASE UNCHANGED vars
  BY <1>10, StutterIInv
<1> QED
  BY <1>1, <1>2, <1>3, <1>4, <1>5, <1>6, <1>7, <1>8, <1>9, <1>10 DEF Next

LEMMA Invariant == Spec => []IInv
<1>1. Init => IInv
  BY InitIInv
<1>2. IInv /\ [Next]_vars => IInv'
  BY NextIInv
<1> QED
  BY <1>1, <1>2, PTL DEF Spec
-----------------------------------------------------------------------------
\* The pages are pages of entries, the hot one is one of them or there is none,
\* and every token and every pop in progress names a place in a page.
THEOREM TypeCorrect == Spec => []TypeOK
<1>1. IInv => TypeOK
  BY DEF IInv
<1> QED
  BY <1>1, Invariant, PTL

\* Places in the pages and in the whole list are in the same order.
LEMMA SumBound ==
    ASSUME NEW a \in Nat, NEW l \in Nat, NEW b \in Nat, NEW i \in Nat, a + l <= b
    PROVE  (i <= l => a + i <= b) /\ (i < l => a + i < b)
OBVIOUS

LEMMA PositionOrder ==
    ASSUME TypeOK, NEW p \in 1..Len(pages), NEW q \in 1..Len(pages),
           NEW i \in Nat, NEW j \in Nat, i < Len(pages[p]), Below(p, i, q, j)
    PROVE  Position(p, i) < Position(q, j)
<1>1. pages \in Seq(Seq(Entries)) /\ Len(pages) \in Nat
  BY PagesTyped DEF TypeOK
<1>2. Position(p, i) = Len(Flat(pages, p - 1)) + i /\ Position(q, j) = Len(Flat(pages, q - 1)) + j
  BY DEF Position, Flat
<1>3. /\ Len(pages[p]) \in Nat /\ Len(Flat(pages, p - 1)) \in Nat
      /\ Len(Flat(pages, p)) = Len(Flat(pages, p - 1)) + Len(pages[p])
  BY <1>1, FlatNext
<1>4. Len(Flat(pages, q - 1)) \in Nat
  BY <1>1, FlatNext
<1>5. CASE p < q
  <2>1. q - 1 \in p..Len(pages) /\ p \in 0..Len(pages)
    BY <1>1, <1>5
  <2>2. Len(Flat(pages, p)) <= Len(Flat(pages, q - 1))
    BY <1>1, <2>1, FlatGrows
  <2>3. Len(Flat(pages, p - 1)) + i < Len(Flat(pages, q - 1)) + j
    <3>1. PICK a \in Nat : a = Len(Flat(pages, p - 1))
      BY <1>3
    <3>2. PICK b \in Nat : b = Len(Flat(pages, q - 1))
      BY <1>4
    <3>3. PICK l \in Nat : l = Len(pages[p])
      BY <1>3
    <3>4. a + l <= b /\ i < l
      BY <1>3, <2>2, <3>1, <3>2, <3>3
    <3>5. a + i < b + j
      BY <3>4
    <3> QED
      BY <3>1, <3>2, <3>5
  <2> QED
    BY <1>2, <2>3
<1>6. CASE p = q /\ i < j
  BY <1>2, <1>3, <1>6
<1> QED
  BY <1>5, <1>6 DEF Below

LEMMA IInvTokens == ASSUME IInv PROVE TokensStayValid
<1>1. TypeOK
  BY DEF IInv
<1>2. \A k \in 1..Len(tokens) : Where(k).page \in Nat /\ Where(k).at \in Nat
  BY <1>1, TokensTyped
<1>3. Len(tokens) \in Nat
  BY <1>1, TokensTyped
<1>4. SUFFICES ASSUME NEW k \in 1..Len(tokens), ~(tokens[k] = Placeholder /\ placeholder)
               PROVE  /\ Where(k).page <= Len(pages) /\ Where(k).at < Len(pages[Where(k).page])
                      /\ pages[Where(k).page][Where(k).at + 1] = Boundary
                      /\ \A j \in 1..k - 1 : Position(Where(j).page, Where(j).at)
                                                < Position(Where(k).page, Where(k).at)
  BY DEF TokensStayValid, Where
<1>5. ~placeholder
  <2>1. CASE placeholder
    <3>1. hot = 0
      BY <2>1 DEF IInv, PagesInv
    <3>2. tokens[k] = Placeholder /\ placeholder
      BY <3>1, NoHot
    <3> QED
      BY <1>4, <3>2
  <2> QED
    BY <2>1
<1>6. \A j \in 1..Len(tokens) : Leads(j)
  BY <1>5, TokensBelow
<1>7. ASSUME NEW j \in 1..k - 1
      PROVE  Position(Where(j).page, Where(j).at) < Position(Where(k).page, Where(k).at)
  <2>1. j \in 1..Len(tokens)
    BY <1>3
  <2>2. Below(Where(j).page, Where(j).at, Where(k).page, Where(k).at)
    BY DEF IInv, TokenInv
  <2>3. /\ Where(j).page \in 1..Len(pages) /\ Where(j).at < Len(pages[Where(j).page])
        /\ Where(k).page \in 1..Len(pages)
        /\ Where(j).at \in Nat /\ Where(k).at \in Nat
    BY <1>2, <1>6, <2>1 DEF Leads
  <2> QED
    BY <1>1, <2>2, <2>3, PositionOrder
<1> QED
  BY <1>6, <1>7 DEF Leads

\* The tokens of the open pools lead to boundaries, in the order they were
\* pushed, over all that is pushed, popped, released and killed meanwhile:
\* popping any of them never reaches badPop.
THEOREM TokensLeadToBoundaries == Spec => []TokensStayValid
<1>1. IInv => TokensStayValid
  BY IInvTokens
<1> QED
  BY <1>1, Invariant, PTL

\* Beyond the hot page nothing is stored, and outside of pops at most one spare
\* page is kept.
THEOREM SparePages == Spec => []OneSparePage
<1>1. IInv => OneSparePage
  BY DEF IInv, PagesInv, OneSparePage
<1> QED
  BY <1>1, Invariant, PTL
-----------------------------------------------------------------------------
\* The pages are one list.

\* The sequence a without its last element x.
LEMMA FrontAppend ==
    ASSUME NEW S, NEW a \in Seq(S), NEW x \in S
    PROVE  /\ Append(a, x) \in Seq(S) /\ Len(a) \in Nat /\ Len(Append(a, x)) = Len(a) + 1
           /\ Front(Append(a, x)) = a /\ Last(Append(a, x)) = x
<1>1. /\ Append(a, x) \in Seq(S) /\ Len(Append(a, x)) = Len(a) + 1
      /\ \A i \in 1..Len(a) : Append(a, x)[i] = a[i]
      /\ Append(a, x)[Len(a) + 1] = x
  BY AppendProperties
<1>2. Len(a) \in Nat
  BY LenProperties
<1> DEFINE b == Append(a, x)
<1>3. b \in Seq(S) /\ Len(b) = Len(a) + 1 /\ (\A i \in 1..Len(a) : b[i] = a[i]) /\ b[Len(a) + 1] = x
  BY <1>1
<1> HIDE DEF b
<1>4. b # <<>>
  <2>1. Len(<<>>) = 0
    BY EmptySeq
  <2> QED
    BY <1>2, <1>3, <2>1
<1>5. /\ Front(b) \in Seq(S) /\ Len(Front(b)) = Len(b) - 1
      /\ \A i \in 1..Len(b) - 1 : Front(b)[i] = b[i]
  BY <1>3, <1>4, FrontIs
<1>6. Len(Front(b)) = Len(a) /\ \A i \in 1..Len(Front(b)) : Front(b)[i] = a[i]
  BY <1>2, <1>3, <1>5
<1>7. Front(b) = a
  BY <1>5, <1>6, SeqEqual
<1>8. Last(b) = x
  BY <1>3 DEF Last
<1> QED
  BY <1>1, <1>2, <1>7, <1>8 DEF b

LEMMA ConcatAppend ==
    ASSUME NEW S, NEW a \in Seq(S), NEW b \in Seq(S), NEW x \in S
    PROVE  a \o Append(b, x) = Append(a \o b, x)
<1>1. a \o b \in Seq(S) /\ <<x>> \in Seq(S)
  BY ConcatProperties
<1>2. Append(b, x) = b \o <<x>> /\ Append(a \o b, x) = (a \o b) \o <<x>>
  BY <1>1, AppendIsConcat
<1>3. (a \o b) \o <<x>> = a \o (b \o <<x>>)
  BY <1>1, ConcatAssociative
<1> QED
  BY <1>2, <1>3

\* When nothing follows page i of s.
LEMMA FlatUpTo ==
    ASSUME NEW E, NEW s \in Seq(Seq(E)), NEW i \in 0..Len(s), \A j \in i + 1..Len(s) : s[j] = <<>>
    PROVE  FlattenSeq(s) = Flat(s, i) /\ FlattenSeq(s) \in Seq(E)
<1>1. Len(s) \in i..Len(s)
  BY LenProperties
<1>2. Flat(s, Len(s)) = Flat(s, i)
  BY <1>1, FlatEmpty
<1> QED
  BY <1>2, FlatWhole

\* A place in a page is a place in the whole list.
LEMMA PlaceInside ==
    ASSUME NEW E, NEW s \in Seq(Seq(E)), NEW p \in 1..Len(s), NEW i \in Nat, i <= Len(s[p])
    PROVE  /\ Len(Flat(s, p - 1)) \in Nat
           /\ Len(Flat(s, p - 1)) + i <= Len(FlattenSeq(s)) /\ Len(FlattenSeq(s)) \in Nat
           /\ i < Len(s[p]) => /\ Len(Flat(s, p - 1)) + i < Len(FlattenSeq(s))
                               /\ FlattenSeq(s)[Len(Flat(s, p - 1)) + i + 1] = s[p][i + 1]
<1>1. Len(s) \in Nat /\ Len(s) \in p..Len(s) /\ p \in 0..Len(s)
  BY LenProperties
<1>2. FlattenSeq(s) = Flat(s, Len(s)) /\ FlattenSeq(s) \in Seq(E)
  BY FlatWhole
<1>3. /\ Len(s[p]) \in Nat /\ Len(Flat(s, p - 1)) \in Nat
      /\ Len(Flat(s, p)) = Len(Flat(s, p - 1)) + Len(s[p])
  BY FlatNext
<1>4. Len(Flat(s, p)) <= Len(Flat(s, Len(s)))
  BY <1>1, FlatGrows
<1>5. Len(FlattenSeq(s)) \in Nat
  BY <1>2, LenProperties
<1>6. ASSUME i < Len(s[p])
      PROVE  FlattenSeq(s)[Len(Flat(s, p - 1)) + i + 1] = s[p][i + 1]
  <2>1. i + 1 \in 1..Len(s[p]) /\ Len(Flat(s, p - 1)) + (i + 1) = Len(Flat(s, p - 1)) + i + 1
    BY <1>3, <1>6
  <2>2. Flat(s, Len(s))[Len(Flat(s, p - 1)) + (i + 1)] = s[p][i + 1]
    BY <1>1, <2>1, FlatEntry
  <2> QED
    BY <1>2, <2>1, <2>2
<1>7. Len(Flat(s, p - 1)) + Len(s[p]) <= Len(FlattenSeq(s))
  BY <1>2, <1>3, <1>4
<1>8. Len(Flat(s, p - 1)) + i <= Len(FlattenSeq(s))
  BY <1>3, <1>5, <1>7, SumBound
<1>9. i < Len(s[p]) => Len(Flat(s, p - 1)) + i < Len(FlattenSeq(s))
  BY <1>3, <1>5, <1>7, SumBound
<1> QED
  BY <1>3, <1>5, <1>6, <1>8, <1>9

LEMMA PositionIs == \A p, i : Position(p, i) = Len(Flat(pages, p - 1)) + i
BY DEF Position, Flat

LEMMA StopsAre ==
    ASSUME TypeOK
    PROVE  /\ Len(Stops) = Len(pops) /\ DOMAIN Stops = 1..Len(pops) /\ Len(pops) \in Nat
           /\ \A n \in 1..Len(pops) : Stops[n] = Position(pops[n].page, pops[n].stop)
<1>1. Len(pops) \in Nat
  BY PopsTyped
<1>2. DOMAIN Stops = 1..Len(pops)
  BY DEF Stops
<1>3. Len(Stops) = Len(pops)
  BY <1>1, <1>2
<1> QED
  BY <1>1, <1>2, <1>3 DEF Stops

LEMMA StopsEmpty == ASSUME pops = <<>>, pops' = pops PROVE Stops = <<>> /\ Stops' = Stops
<1>1. Len(pops) = 0 /\ Len(pops') = 0
  BY EmptySeq
<1>2. Stops = <<>> /\ Stops' = <<>>
  BY <1>1 DEF Stops
<1> QED
  BY <1>2

LEMMA FunctionIsSeq ==
    ASSUME NEW n \in Nat, NEW S, NEW f \in [1..n -> S]
    PROVE  f \in Seq(S) /\ Len(f) = n
<1>1. [i \in 1..n |-> f[i]] \in Seq(S)
  OBVIOUS
<1> QED
  BY <1>1, LenProperties

\* A sequence of n elements and one of another.
LEMMA GrownSeq ==
    ASSUME NEW n \in Nat, NEW f, NEW g, f = [i \in 1..n |-> f[i]], g = [i \in 1..n + 1 |-> g[i]],
           \A i \in 1..n : g[i] = f[i]
    PROVE  g = Append(f, g[n + 1])
<1> DEFINE S == {g[i] : i \in 1..n + 1}
<1>1. \A i \in 1..n : i \in 1..n + 1
  OBVIOUS
<1>2. n + 1 \in 1..n + 1
  OBVIOUS
<1>3. (\A i \in 1..n + 1 : g[i] \in S) /\ (\A i \in 1..n : f[i] \in S)
  BY <1>1
<1> HIDE DEF S
<1>4. f \in Seq(S) /\ Len(f) = n
  <2>1. f \in [1..n -> S]
    BY <1>3
  <2> QED
    BY <2>1, FunctionIsSeq
<1>5. g \in Seq(S) /\ Len(g) = n + 1
  <2>1. g \in [1..n + 1 -> S] /\ n + 1 \in Nat
    BY <1>3
  <2> QED
    BY <2>1, FunctionIsSeq
<1>6. g[n + 1] \in S
  BY <1>2, <1>3
<1>7. PICK x \in S : x = g[n + 1]
  BY <1>6
<1>8. /\ Append(f, x) \in Seq(S) /\ Len(Append(f, x)) = Len(f) + 1
      /\ \A i \in 1..Len(f) : Append(f, x)[i] = f[i]
      /\ Append(f, x)[Len(f) + 1] = x
  <2>1. f \in Seq(S) /\ x \in S
    BY <1>4
  <2> QED
    BY ONLY <2>1, AppendProperties
<1> DEFINE h == Append(f, x)
<1>9. h \in Seq(S) /\ Len(h) = n + 1 /\ (\A i \in 1..n : h[i] = f[i]) /\ h[n + 1] = x
  BY <1>4, <1>8
<1> HIDE DEF h
<1>10. ASSUME NEW i \in 1..n + 1 PROVE g[i] = h[i]
  <2>1. CASE i = n + 1
    BY <1>7, <1>9, <2>1
  <2>2. CASE i # n + 1
    <3>1. i \in 1..n
      BY <2>2
    <3> QED
      BY <1>9, <3>1
  <2> QED
    BY <2>1, <2>2
<1>11. g = h
  BY <1>5, <1>9, <1>10, SeqEqual
<1> QED
  BY <1>7, <1>11 DEF h

LEMMA ShrunkSeq ==
    ASSUME NEW S, NEW f \in Seq(S), NEW g \in Seq(S), Len(f) = Len(g) + 1,
           \A i \in 1..Len(g) : g[i] = f[i]
    PROVE  f # <<>> /\ Front(f) = g
<1>1. Len(g) \in Nat
  BY LenProperties
<1>2. f # <<>>
  <2>1. Len(<<>>) = 0
    BY EmptySeq
  <2> QED
    BY <1>1, <2>1
<1>3. /\ Front(f) \in Seq(S) /\ Len(Front(f)) = Len(f) - 1
      /\ \A i \in 1..Len(f) - 1 : Front(f)[i] = f[i]
  BY <1>2, FrontIs
<1>4. Len(Front(f)) = Len(g) /\ \A i \in 1..Len(Front(f)) : Front(f)[i] = g[i]
  <2>1. Len(f) - 1 = Len(g)
    BY <1>1
  <2> QED
    BY <1>3, <2>1
<1> QED
  BY <1>2, <1>3, <1>4, SeqEqual
-----------------------------------------------------------------------------
\* The steps of the list.

\* The places of the pops in progress stay, as the pages below theirs do.
LEMMA StopsKept ==
    ASSUME TypeOK, pages' \in Seq(Seq(Entries)), pops' = pops,
           \A n \in 1..Len(pops) : \A q \in 1..pops[n].page - 1 :
              q \in 1..Len(pages) /\ q \in 1..Len(pages') /\ pages'[q] = pages[q],
           \A n \in 1..Len(pops) : pops[n].page # 0
    PROVE  Stops' = Stops
<1>1. pages \in Seq(Seq(Entries)) /\ Len(pages) \in Nat
  BY PagesTyped DEF TypeOK
<1>2. Len(pages') \in Nat
  BY LenProperties
<1>3. ASSUME NEW n \in 1..Len(pops)
      PROVE  Position(pops[n].page, pops[n].stop)' = Position(pops[n].page, pops[n].stop)
  <2>1. PICK i : i = pops[n].page - 1
    OBVIOUS
  <2>2. i \in Nat
    <3>1. pops[n].page \in Nat /\ pops[n].page # 0
      BY PopsTyped
    <3> QED
      BY <2>1, <3>1
  <2>3. \A q \in 1..i : q <= Len(pages) /\ q <= Len(pages') /\ pages'[q] = pages[q]
    BY <2>1
  <2>4. i <= Len(pages) /\ i <= Len(pages')
    <3>1. CASE i = 0
      BY <1>1, <1>2, <3>1
    <3>2. CASE i # 0
      <4>1. i \in 1..i
        BY <2>2, <3>2
      <4> QED
        BY <2>3, <4>1
    <3> QED
      BY <3>1, <3>2
  <2>5. Flat(pages', i) = Flat(pages, i)
    BY <1>1, <2>2, <2>3, <2>4, FlatSame
  <2>6. SubSeq(pages', 1, pops[n].page - 1) = SubSeq(pages', 1, i)
        /\ SubSeq(pages, 1, pops[n].page - 1) = SubSeq(pages, 1, i)
    BY <2>1
  <2> QED
    BY <2>5, <2>6 DEF Position, Flat
<1> QED
  BY <1>3 DEF Stops

\* An entry is added to a page.
LEMMA GrowAdds ==
    ASSUME IInv, hot # 0, NEW x \in Entries, NEW p, p = PageFor(x), AddTo(p, x), pops' = pops
    PROVE  Contents' = Append(Contents, x) /\ Stops' = Stops
<1>1. TypeOK /\ PagesInv
  BY DEF IInv
<1>2. /\ Len(pages) \in Nat /\ hot \in Nat /\ hot <= Len(pages) /\ pages \in Seq(Seq(Entries))
  BY <1>1, PagesTyped DEF TypeOK
<1>3. /\ ~placeholder' /\ ~placeholder
      /\ pages' \in Seq(Seq(Entries))
      /\ Len(pages') \in {Len(pages), p} /\ Len(pages) <= Len(pages')
      /\ p \in 1..Len(pages')
      /\ \A q \in 1..Len(pages) : q # p => pages'[q] = pages[q]
      /\ pages'[p] = Append(Old(p), x)
  BY AddToIs
<1>4. /\ p \in Nat \ {0} /\ p \in {hot, hot + 1} /\ Old(p) \in Seq(Entries)
  BY PageForIs
<1>5. \A q \in hot + 1..Len(pages) : pages[q] = <<>>
  BY <1>1 DEF PagesInv
<1>6. /\ Contents = FlattenSeq(pages) /\ Contents' = FlattenSeq(pages')
  BY <1>3 DEF Contents
<1>7. PICK b : b = p - 1
  OBVIOUS
<1>8. b \in Nat /\ b <= Len(pages) /\ b < p /\ p = b + 1
  BY <1>2, <1>4, <1>7
<1>9. Len(pages') \in Nat /\ b <= Len(pages')
  BY <1>2, <1>3, <1>8
<1>10. Flat(pages', b) = Flat(pages, b)
  <2>1. \A q \in 1..b : q \in 1..Len(pages) /\ q # p
    BY <1>2, <1>4, <1>8
  <2>2. \A q \in 1..b : pages[q] = pages'[q]
    BY <1>3, <2>1
  <2> QED
    BY <1>2, <1>3, <1>8, <1>9, <2>2, FlatSame
<1>11. Flat(pages, b) \in Seq(Entries) /\ FlattenSeq(pages) = Flat(pages, b) \o Old(p)
  <2>1. Flat(pages, b) \in Seq(Entries)
    <3>1. b \in 0..Len(pages)
      BY <1>2, <1>8
    <3> QED
      BY <1>2, <3>1, FlatTyped
  <2>2. CASE p <= Len(pages)
    <3>1. p \in 1..Len(pages) /\ p \in 0..Len(pages)
      BY <1>2, <1>4, <2>2
    <3>2. Flat(pages, p) = Flat(pages, b) \o pages[p]
      BY <1>2, <1>7, <3>1, FlatNext
    <3>3. \A q \in p + 1..Len(pages) : q \in hot + 1..Len(pages)
      BY <1>2, <1>4
    <3>4. \A q \in p + 1..Len(pages) : pages[q] = <<>>
      BY <1>5, <3>3
    <3>5. FlattenSeq(pages) = Flat(pages, p)
      BY <1>2, <3>1, <3>4, FlatUpTo
    <3> QED
      <4>1. Old(p) = pages[p]
        BY <1>2, <1>4, <2>2 DEF Old
      <4> QED
        BY <2>1, <3>2, <3>5, <4>1
  <2>3. CASE ~(p <= Len(pages))
    <3>1. b = Len(pages) /\ p > Len(pages)
      BY <1>2, <1>4, <1>8, <2>3
    <3>2. FlattenSeq(pages) = Flat(pages, b)
      BY <1>2, <3>1, FlatWhole
    <3>3. Old(p) = <<>>
      BY <3>1 DEF Old
    <3>4. Flat(pages, b) \o <<>> = Flat(pages, b)
      BY <2>1, ConcatEmptySeq
    <3> QED
      BY <2>1, <3>2, <3>3, <3>4
  <2> QED
    BY <2>2, <2>3
<1>12. FlattenSeq(pages') = Flat(pages', b) \o pages'[p]
  <2>1. Flat(pages', p) = Flat(pages', b) \o pages'[p]
    BY <1>3, <1>7, FlatNext
  <2>2. ASSUME NEW q \in p + 1..Len(pages') PROVE pages'[q] = <<>>
    <3>1. Len(pages') = Len(pages)
      BY <1>3, <1>4, <1>9, <2>2
    <3>2. q \in hot + 1..Len(pages) /\ q \in 1..Len(pages) /\ q # p
      BY <1>2, <1>4, <2>2, <3>1
    <3> QED
      BY <1>3, <1>5, <3>2
  <2>3. p \in 0..Len(pages')
    BY <1>3, <1>9
  <2>4. FlattenSeq(pages') = Flat(pages', p)
    BY <1>3, <2>2, <2>3, FlatUpTo
  <2> QED
    BY <2>1, <2>4
<1>13. Contents' = Append(Contents, x)
  <2>1. Flat(pages, b) \o Append(Old(p), x) = Append(Flat(pages, b) \o Old(p), x)
    BY <1>4, <1>11, ConcatAppend
  <2> QED
    BY <1>3, <1>6, <1>10, <1>11, <1>12, <2>1
<1>14. Stops' = Stops
  <2>1. ASSUME NEW n \in 1..Len(pops), NEW q \in 1..pops[n].page - 1
        PROVE  q \in 1..Len(pages) /\ q \in 1..Len(pages') /\ pages'[q] = pages[q]
    <3>1. pops[n].page \in 1..hot
      BY DEF IInv, PopInv, PopPlace
    <3>2. q \in 1..Len(pages) /\ q # p /\ q \in 1..Len(pages')
      <4>1. q \in 1..hot - 1
        BY <1>2, <3>1
      <4>2. q \in 1..Len(pages)
        BY <1>2, <4>1
      <4>3. q # p
        BY <1>2, <1>4, <4>1
      <4>4. q \in 1..Len(pages')
        BY <1>2, <1>3, <1>9, <4>2
      <4> QED
        BY <4>2, <4>3, <4>4
    <3> QED
      BY <1>3, <3>2
  <2>2. ASSUME NEW n \in 1..Len(pops) PROVE pops[n].page # 0
    <3>1. pops[n].page \in 1..hot
      BY DEF IInv, PopInv, PopPlace
    <3> QED
      BY <1>2, <3>1
  <2> QED
    BY <1>1, <1>3, <2>1, <2>2, StopsKept
<1> QED
  BY <1>13, <1>14

\* The first page is made.
LEMMA FirstPageAdds ==
    ASSUME IInv, hot = 0, NEW x \in Entries, FirstPage(x), pops' = pops
    PROVE  Contents' = Append(Contents, x) /\ Stops' = Stops
<1>1. pages = <<>> /\ pops = <<>> /\ Len(pops) = 0
  BY NoHot
<1>2. /\ ~placeholder' /\ pages' \in Seq(Seq(Entries)) /\ Len(pages') = 1
      /\ pages'[1] \in Seq(Entries)
      /\ placeholder => Len(pages'[1]) = 2 /\ pages'[1][1] = Boundary /\ pages'[1][2] = x
      /\ ~placeholder => Len(pages'[1]) = 1 /\ pages'[1][1] = x
  BY FirstPageIs
<1>3. Contents' = pages'[1]
  <2>1. Flat(pages', 1) = Flat(pages', 1 - 1) \o pages'[1]
    <3>1. 1 \in 1..Len(pages')
      BY <1>2
    <3> QED
      BY <1>2, <3>1, FlatNext
  <2>2. Flat(pages', 1 - 1) = <<>>
    BY FlatZero
  <2>3. <<>> \o pages'[1] = pages'[1]
    BY <1>2, ConcatEmptySeq
  <2>4. Flat(pages', 1) = FlattenSeq(pages')
    BY <1>2, FlatWhole
  <2> QED
    BY <1>2, <2>1, <2>2, <2>3, <2>4 DEF Contents
<1>4. Contents = IF placeholder THEN <<Boundary>> ELSE <<>>
  BY <1>1 DEF Contents, FlattenSeq
<1>5. Contents' = Append(Contents, x)
  <2>1. Boundary \in Entries
    BY DEF Entries
  <2>2. CASE placeholder
    <3>1. PICK one : one = <<Boundary>>
      OBVIOUS
    <3>2. one \in Seq(Entries) /\ Len(one) = 1 /\ one[1] = Boundary
      BY <2>1, <3>1
    <3>3. /\ Append(one, x) \in Seq(Entries) /\ Len(Append(one, x)) = Len(one) + 1
          /\ \A i \in 1..Len(one) : Append(one, x)[i] = one[i]
          /\ Append(one, x)[Len(one) + 1] = x
      <4>1. one \in Seq(Entries) /\ x \in Entries
        BY <3>2
      <4> QED
        BY ONLY <4>1, AppendProperties
    <3> DEFINE two == Append(one, x)
    <3>4. Len(two) = 2 /\ two[1] = Boundary /\ two[2] = x /\ two \in Seq(Entries)
      BY <3>2, <3>3
    <3> HIDE DEF two
    <3>5. \A i \in 1..2 : i = 1 \/ i = 2
      OBVIOUS
    <3>6. pages'[1] = two
      BY <1>2, <2>2, <3>4, <3>5, SeqEqual
    <3> QED
      BY <1>3, <1>4, <2>2, <3>1, <3>6 DEF two
  <2>3. CASE ~placeholder
    <3>1. Append(Contents, x) = <<x>>
      BY <1>4, <2>3
    <3> DEFINE one == <<x>>
    <3>2. Len(one) = 1 /\ one[1] = x /\ one \in Seq(Entries)
      OBVIOUS
    <3> HIDE DEF one
    <3>3. \A i \in 1..1 : i = 1
      OBVIOUS
    <3>4. pages'[1] = one
      BY <1>2, <2>3, <3>2, <3>3, SeqEqual
    <3> QED
      BY <1>3, <3>1, <3>4 DEF one
  <2> QED
    BY <2>2, <2>3
<1>6. Stops' = Stops
  BY <1>1, StopsEmpty
<1> QED
  BY <1>5, <1>6

\* The last entry is released, and it is above the places of all pops.
LEMMA ReleaseRemoves ==
    ASSUME IInv, ReleaseNext
    PROVE  /\ Stops # <<>> /\ Len(Contents) > Last(Stops)
           /\ Contents' = Front(Contents) /\ Stops' = Stops
<1>a. PICK n : n = Len(pops)
  OBVIOUS
<1>b. PICK u : u = LastUsed
  OBVIOUS
<1>1. TypeOK
  BY DEF IInv
<1>2. /\ Len(pages) \in Nat /\ hot \in Nat /\ hot <= Len(pages) /\ pages \in Seq(Seq(Entries))
      /\ \A q \in 1..Len(pages) : pages[q] \in Seq(Entries) /\ Len(pages[q]) \in Nat
  BY <1>1, PagesTyped DEF TypeOK
<1>3. /\ ~client /\ pops[n].page <= u /\ u \in 1..hot /\ u \in 1..Len(pages)
      /\ pages' \in Seq(Seq(Entries)) /\ Len(pages') = Len(pages)
      /\ \A q \in 1..Len(pages) : q # u => pages'[q] = pages[q]
      /\ \A q \in u + 1..Len(pages) : pages[q] = <<>>
      /\ pages[u] # <<>> /\ pages'[u] = Front(pages[u])
      /\ Len(pages'[u]) \in Nat /\ Len(pages[u]) = Len(pages'[u]) + 1
      /\ pops[n].page = u => pops[n].stop <= Len(pages'[u])
  BY <1>a, <1>b, ReleaseIs
<1>4. /\ n \in 1..Len(pops) /\ ~placeholder /\ PopInv(n)
      /\ \A m \in 1..Len(pops) : pops[m].page <= pops[n].page
  BY <1>a, <1>3, Innermost
<1>5. /\ \A m \in 1..Len(pops) : pops[m].page \in Nat /\ pops[m].stop \in Nat
      /\ pops[n].page \in 1..Len(pages) /\ pops[n].page \in Nat /\ pops[n].stop \in Nat
  <2>1. \A m \in 1..Len(pops) : pops[m].page \in Nat /\ pops[m].stop \in Nat
    BY <1>1, PopsTyped
  <2>2. pops[n].page \in 1..hot
    BY <1>4 DEF PopInv, PopPlace
  <2> QED
    BY <1>2, <1>4, <2>1, <2>2
<1>6. pops' = pops /\ ~placeholder'
  BY <1>4 DEF ReleaseNext
<1>7. Contents = FlattenSeq(pages) /\ Contents' = FlattenSeq(pages')
  BY <1>4, <1>6 DEF Contents
<1>8. PICK b : b = u - 1
  OBVIOUS
<1>9. b \in Nat /\ b < u /\ u = b + 1 /\ u \in Nat /\ u <= Len(pages) /\ b <= Len(pages)
  BY <1>2, <1>3, <1>8
<1>10. u \in 0..Len(pages) /\ u \in 0..Len(pages') /\ u \in 1..Len(pages')
  BY <1>2, <1>3, <1>9
<1>11. Flat(pages', b) = Flat(pages, b)
  <2>1. \A q \in 1..b : q \in 1..Len(pages) /\ q # u
    BY <1>2, <1>9
  <2>2. \A q \in 1..b : pages[q] = pages'[q]
    BY <1>3, <2>1
  <2>3. b \in Nat /\ b <= Len(pages) /\ b <= Len(pages')
    BY <1>3, <1>9
  <2>4. pages \in Seq(Seq(Entries)) /\ pages' \in Seq(Seq(Entries))
    BY <1>2, <1>3
  <2> QED
    BY ONLY <2>2, <2>3, <2>4, FlatSame
<1>12. Flat(pages, b) \in Seq(Entries) /\ FlattenSeq(pages) = Flat(pages, b) \o pages[u]
  <2>1. Flat(pages, b) \in Seq(Entries) /\ Flat(pages, u) = Flat(pages, b) \o pages[u]
    BY <1>2, <1>3, <1>8, FlatNext
  <2>2. FlattenSeq(pages) = Flat(pages, u)
    BY <1>2, <1>3, <1>10, FlatUpTo
  <2> QED
    BY <2>1, <2>2
<1>13. FlattenSeq(pages') = Flat(pages', b) \o pages'[u]
  <2>1. Flat(pages', u) = Flat(pages', b) \o pages'[u]
    BY <1>3, <1>8, <1>10, FlatNext
  <2>2. ASSUME NEW q \in u + 1..Len(pages') PROVE pages'[q] = <<>>
    <3>1. q \in u + 1..Len(pages) /\ q \in 1..Len(pages) /\ q # u
      BY <1>2, <1>3, <1>9
    <3> QED
      BY <1>3, <3>1
  <2>3. FlattenSeq(pages') = Flat(pages', u)
    BY <1>3, <1>10, <2>2, FlatUpTo
  <2> QED
    BY <2>1, <2>3
<1>14. /\ Contents' \in Seq(Entries) /\ Last(pages[u]) \in Entries
       /\ Contents = Append(Contents', Last(pages[u]))
  <2>1. /\ pages'[u] \in Seq(Entries) /\ Last(pages[u]) \in Entries
        /\ pages[u] = Append(pages'[u], Last(pages[u]))
    <3>1. /\ Front(pages[u]) \in Seq(Entries) /\ Last(pages[u]) \in Entries
          /\ pages[u] = Append(Front(pages[u]), Last(pages[u]))
      BY <1>2, <1>3, FrontIs
    <3> QED
      BY <1>3, <3>1
  <2>2. Flat(pages, b) \o Append(pages'[u], Last(pages[u]))
        = Append(Flat(pages, b) \o pages'[u], Last(pages[u]))
    <3>1. /\ Flat(pages, b) \in Seq(Entries) /\ pages'[u] \in Seq(Entries)
          /\ Last(pages[u]) \in Entries
      BY <1>12, <2>1
    <3> QED
      BY ONLY <3>1, ConcatAppend
  <2>3. Flat(pages, b) \o pages'[u] \in Seq(Entries)
    BY <1>12, <2>1, ConcatProperties
  <2> QED
    BY <1>7, <1>11, <1>12, <1>13, <2>1, <2>2, <2>3
<1>15. PICK c : c = Contents'
  OBVIOUS
<1>16. /\ Front(Contents) = c /\ Len(c) \in Nat /\ Len(Contents) = Len(c) + 1
  BY <1>14, <1>15, FrontAppend
<1>17. Stops' = Stops
  <2>1. ASSUME NEW m \in 1..Len(pops), NEW q \in 1..pops[m].page - 1
        PROVE  q \in 1..Len(pages) /\ q \in 1..Len(pages') /\ pages'[q] = pages[q]
    <3>1. pops[m].page <= u
      <4>1. pops[m].page <= pops[n].page /\ pops[n].page <= u
        BY <1>3, <1>4
      <4>2. pops[m].page \in Nat /\ pops[n].page \in Nat /\ u \in Nat
        BY <1>5, <1>9
      <4> QED
        BY <4>1, <4>2
    <3>2. q \in 1..b
      BY <1>5, <1>9, <3>1
    <3>3. q \in 1..Len(pages) /\ q # u /\ q \in 1..Len(pages')
      BY <1>2, <1>3, <1>9, <3>2
    <3> QED
      BY <1>3, <3>3
  <2>2. ASSUME NEW m \in 1..Len(pops) PROVE pops[m].page # 0
    <3>1. pops[m].page \in 1..hot
      BY DEF IInv, PopInv, PopPlace
    <3> QED
      BY <1>2, <3>1
  <2> QED
    BY <1>1, <1>3, <1>6, <2>1, <2>2, StopsKept
<1>18. Last(Stops) <= Len(c)
  <2>1. /\ Len(Stops) = n /\ Stops[n] = Position(pops[n].page, pops[n].stop)
    BY <1>a, <1>1, <1>4, StopsAre
  <2>2. PICK p : p = pops[n].page
    OBVIOUS
  <2>3. p \in 1..Len(pages') /\ p \in Nat /\ p <= u
    BY <1>3, <1>5, <2>2
  <2>4. pops[n].stop <= Len(pages'[p])
    <3>1. CASE p = u
      BY <1>3, <2>2, <3>1
    <3>2. CASE p # u
      <4>1. pages'[p] = pages[p]
        BY <1>3, <2>3, <3>2
      <4> QED
        BY <1>4, <2>2, <4>1 DEF PopInv, PopPlace
    <3> QED
      BY <3>1, <3>2
  <2>5. Len(Flat(pages', p - 1)) + pops[n].stop <= Len(FlattenSeq(pages'))
    BY <1>3, <1>5, <2>3, <2>4, PlaceInside
  <2>6. Flat(pages', p - 1) = Flat(pages, p - 1)
    <3>1. PICK i : i = p - 1
      OBVIOUS
    <3>2. i \in Nat /\ i <= b
      BY <1>9, <2>3, <3>1
    <3>3. \A q \in 1..i : q \in 1..Len(pages) /\ q # u
      BY <1>2, <1>9, <3>2
    <3>4. i <= Len(pages) /\ i <= Len(pages')
      BY <1>2, <1>3, <1>9, <3>2
    <3>5. Flat(pages', i) = Flat(pages, i)
      BY <1>2, <1>3, <3>2, <3>3, <3>4, FlatSame
    <3> QED
      BY <3>1, <3>5
  <2>7. Last(Stops) = Len(Flat(pages, p - 1)) + pops[n].stop
    BY <2>1, <2>2, PositionIs DEF Last
  <2> QED
    BY <1>7, <1>15, <2>5, <2>6, <2>7
<1>19. Stops # <<>> /\ Last(Stops) \in Nat
  <2>1. /\ Len(Stops) = n /\ Stops[n] = Position(pops[n].page, pops[n].stop) /\ n # 0
    BY <1>a, <1>1, <1>4, StopsAre
  <2>2. Len(<<>>) = 0
    BY EmptySeq
  <2>3. Len(Flat(pages, pops[n].page - 1)) \in Nat
    BY <1>2, <1>5, FlatNext
  <2> QED
    BY <1>5, <2>1, <2>2, <2>3, PositionIs DEF Last
<1>20. Len(Contents) > Last(Stops)
  BY <1>16, <1>18, <1>19
<1> QED
  BY <1>15, <1>16, <1>17, <1>19, <1>20

\* A pop begins where its token leads, at a boundary, or at the start.
LEMMA BeginPops ==
    ASSUME IInv, NEW r \in Popping, pops' = Append(pops, r), ~placeholder,
           UNCHANGED <<pages, placeholder>>, r.page \in 1..Len(pages),
           r.stop < Len(pages[r.page]),
           (r.page = 1 /\ r.stop = 0) \/ pages[r.page][r.stop + 1] = Boundary
    PROVE  Lists!Next
<1>1. TypeOK
  BY DEF IInv
<1>2. pages \in Seq(Seq(Entries)) /\ Len(pages) \in Nat
  BY <1>1, PagesTyped DEF TypeOK
<1>3. pops \in Seq(Popping) /\ Len(pops) \in Nat
  BY <1>1, PopsTyped
<1>4. r.page \in Nat /\ r.stop \in Nat
  BY DEF Popping
<1>5. PICK at : at = Position(r.page, r.stop)
  OBVIOUS
<1>6. /\ Len(Flat(pages, r.page - 1)) \in Nat /\ Len(FlattenSeq(pages)) \in Nat
      /\ Len(Flat(pages, r.page - 1)) + r.stop < Len(FlattenSeq(pages))
      /\ FlattenSeq(pages)[Len(Flat(pages, r.page - 1)) + r.stop + 1] = pages[r.page][r.stop + 1]
  <2>1. PICK p \in 1..Len(pages) : p = r.page
    OBVIOUS
  <2>2. PICK i \in Nat : i = r.stop
    BY <1>4
  <2>3. Len(pages[p]) \in Nat
    BY <1>1, PagesTyped
  <2>4. i < Len(pages[p]) /\ i <= Len(pages[p])
    BY <2>1, <2>2, <2>3
  <2>5. /\ Len(Flat(pages, p - 1)) \in Nat /\ Len(FlattenSeq(pages)) \in Nat
        /\ Len(Flat(pages, p - 1)) + i < Len(FlattenSeq(pages))
        /\ FlattenSeq(pages)[Len(Flat(pages, p - 1)) + i + 1] = pages[p][i + 1]
    BY <1>2, <2>4, PlaceInside
  <2> QED
    BY <2>1, <2>2, <2>5
<1>7. Contents = FlattenSeq(pages) /\ Contents' = Contents
  BY DEF Contents
<1>8. at = Len(Flat(pages, r.page - 1)) + r.stop
  BY <1>5, PositionIs
<1>9. at \in 0..Len(Contents) - 1
  <2>1. PICK a \in Nat : a = Len(Flat(pages, r.page - 1))
    BY <1>6
  <2>2. PICK l \in Nat : l = Len(FlattenSeq(pages))
    BY <1>6
  <2>3. PICK i \in Nat : i = r.stop
    BY <1>4
  <2>4. a + i < l
    BY <1>6, <2>1, <2>2, <2>3
  <2>5. a + i \in 0..l - 1
    BY <2>4
  <2> QED
    BY <1>7, <1>8, <2>1, <2>2, <2>3, <2>5
<1>10. at = 0 \/ Contents[at + 1] = Boundary
  <2>1. CASE r.page = 1 /\ r.stop = 0
    <3>1. Flat(pages, 0) = <<>> /\ Len(<<>>) = 0 /\ 1 - 1 = 0
      BY FlatZero, EmptySeq
    <3> QED
      BY <1>8, <2>1, <3>1
  <2>2. CASE pages[r.page][r.stop + 1] = Boundary
    BY <1>6, <1>7, <1>8, <2>2
  <2> QED
    BY <2>1, <2>2
<1>11. Stops' = Append(Stops, at)
  <2>1. /\ Append(pops, r) \in Seq(Popping) /\ Len(Append(pops, r)) = Len(pops) + 1
        /\ \A n \in 1..Len(pops) : Append(pops, r)[n] = pops[n]
        /\ Append(pops, r)[Len(pops) + 1] = r
    <3>1. pops \in Seq(Popping) /\ r \in Popping
      BY <1>3
    <3> QED
      BY ONLY <3>1, AppendProperties
  <2>2. PICK k \in Nat : k = Len(pops)
    BY <1>3
  <2>3. /\ DOMAIN Stops = 1..k /\ \A n \in 1..k : Stops[n] = Position(pops[n].page, pops[n].stop)
    BY <2>2 DEF Stops
  <2>4. /\ DOMAIN Stops' = 1..k + 1
        /\ \A n \in 1..k + 1 : Stops'[n] = Position(pops'[n].page, pops'[n].stop)
    BY <2>1, <2>2 DEF Stops, Position
  <2>5. \A n \in 1..k : n \in 1..k + 1
    BY <2>2
  <2>6. \A n \in 1..k : Stops'[n] = Stops[n]
    BY <2>1, <2>2, <2>3, <2>4, <2>5
  <2>7. k + 1 \in 1..k + 1
    BY <2>2
  <2>8. Stops'[k + 1] = at
    BY <1>5, <2>1, <2>2, <2>4, <2>7
  <2>9. Stops = [n \in 1..k |-> Stops[n]] /\ Stops' = [n \in 1..k + 1 |-> Stops'[n]]
    BY <2>3, <2>4 DEF Stops
  <2> QED
    BY <2>6, <2>8, <2>9, GrownSeq
<1> QED
  BY <1>7, <1>9, <1>10, <1>11 DEF Lists!Next, Lists!BeginPop

\* A pop ends when all above its place is released.
LEMMA FinishPlaces ==
    ASSUME IInv, FinishPop, NEW n, n = Len(pops), NEW m \in 1..n - 1
    PROVE  Position(pops[m].page, pops[m].stop)' = Position(pops[m].page, pops[m].stop)
<1>a. PICK p : p = pops[n].page
  OBVIOUS
<1>1. TypeOK
  BY DEF IInv
<1>2. pages \in Seq(Seq(Entries)) /\ Len(pages) \in Nat
  BY <1>1, PagesTyped DEF TypeOK
<1>3. /\ ~client /\ n \in 1..Len(pops) /\ p \in Nat /\ p # 0 /\ hot = p /\ n \in Nat
      /\ pops'[m] = pops[m] /\ m \in 1..Len(pops)
  BY <1>a, FinishHot
<1>4. ~(exiting /\ n = 1)
  BY <1>3
<1>5. /\ pages' \in Seq(Seq(Entries)) /\ Len(pages') \in Nat /\ Len(pages') <= Len(pages)
      /\ \A q \in 1..Len(pages') : pages'[q] = pages[q] /\ q \in 1..Len(pages)
      /\ \/ DebugPoolAllocation /\ hot' = p - 1 /\ Len(pages') = p - 1
         \/ ~DebugPoolAllocation /\ hot' = p /\ p <= Len(pages') /\ Len(pages') <= p + 1
  BY <1>a, <1>4, FinishIs
<1>6. PICK i : i = pops[m].page - 1
  OBVIOUS
<1>7. /\ pops[m].page \in Nat /\ pops[m].page \in 1..hot
      /\ DebugPoolAllocation => pops[m].page < p
  <2>1. PopInv(m) /\ PopInv(n)
    BY <1>3 DEF IInv
  <2> QED
    BY <1>a, <1>1, <1>3, <2>1, PopsTyped DEF PopInv, PopPlace, PopOrder
<1>8. i \in Nat /\ i <= Len(pages')
  <2>1. i \in Nat
    BY <1>3, <1>6, <1>7
  <2>2. CASE DebugPoolAllocation
    <3>1. Len(pages') = p - 1 /\ pops[m].page < p
      BY <1>5, <1>7, <2>2
    <3>2. pops[m].page \in Nat /\ p \in Nat
      BY <1>3, <1>7
    <3> QED
      BY <1>6, <2>1, <3>1, <3>2
  <2>3. CASE ~DebugPoolAllocation
    <3>1. p <= Len(pages') /\ Len(pages') \in Nat
      BY <1>5, <2>3
    <3>2. pops[m].page <= p /\ pops[m].page \in Nat /\ p \in Nat
      BY <1>3, <1>7
    <3>3. i <= p
      BY <1>6, <2>1, <3>2
    <3> QED
      BY <2>1, <3>1, <3>2, <3>3
  <2> QED
    BY <2>1, <2>2, <2>3
<1>9. i <= Len(pages) /\ \A q \in 1..i : pages'[q] = pages[q]
  <2>1. \A q \in 1..i : q \in 1..Len(pages')
    BY <1>5, <1>8
  <2> QED
    BY <1>2, <1>5, <1>8, <2>1
<1>10. Flat(pages', i) = Flat(pages, i)
  BY <1>2, <1>5, <1>8, <1>9, FlatSame
<1>11. SubSeq(pages', 1, pops[m].page - 1) = SubSeq(pages', 1, i)
       /\ SubSeq(pages, 1, pops[m].page - 1) = SubSeq(pages, 1, i)
  BY <1>6
<1> QED
  BY <1>3, <1>10, <1>11 DEF Position, Flat

LEMMA FinishKeeps ==
    ASSUME IInv, FinishPop, NEW n, n = Len(pops), NEW p, p = pops[n].page
    PROVE  Contents' = Contents /\ Contents = Flat(pages, p)
<1>1. TypeOK /\ PagesInv /\ LoopInv
  BY DEF IInv
<1>2. /\ Len(pages) \in Nat /\ pages \in Seq(Seq(Entries)) /\ hot \in Nat
      /\ \A q \in 1..Len(pages) : pages[q] \in Seq(Entries)
  BY <1>1, PagesTyped DEF TypeOK
<1>3. /\ ~client /\ n \in 1..Len(pops) /\ p \in Nat /\ p # 0 /\ hot = p /\ p \in 1..Len(pages)
      /\ DebugPoolAllocation => pages[p] = <<>>
      /\ UNCHANGED placeholder /\ Len(pages[p]) = pops[n].stop
  BY FinishHot
<1>4. ~placeholder /\ ~placeholder'
  BY <1>3, Innermost
<1>5. Contents = FlattenSeq(pages) /\ Contents' = FlattenSeq(pages')
  BY <1>4 DEF Contents
<1>6. \A q \in p + 1..Len(pages) : pages[q] = <<>>
  BY <1>1, <1>3 DEF PagesInv
<1>7. p \in 0..Len(pages) /\ p - 1 \in 0..Len(pages) /\ p - 1 \in Nat /\ p - 1 <= Len(pages)
      /\ 0 \in 0..Len(pages)
  BY <1>2, <1>3
<1>8. FlattenSeq(pages) = Flat(pages, p)
  BY <1>2, <1>6, <1>7, FlatUpTo
<1>9. ASSUME pages[p] = <<>>, NEW b, b = p - 1 PROVE FlattenSeq(pages) = Flat(pages, b)
  <2>1. \A q \in b + 1..Len(pages) : q = p \/ q \in p + 1..Len(pages)
    BY <1>2, <1>3, <1>9
  <2>2. \A q \in b + 1..Len(pages) : pages[q] = <<>>
    BY <1>6, <1>9, <2>1
  <2> QED
    BY <1>2, <1>7, <1>9, <2>2, FlatUpTo
<1>10. CASE exiting /\ n = 1
  <2>1. pages' = <<>>
    BY <1>3, <1>10 DEF FinishPop, Last
  <2>2. pops # <<>>
    <3>1. Len(pops) # 0
      BY <1>10
    <3> QED
      BY <1>1, <3>1, PopsTyped
  <2>3. p = 1 /\ pops[n].stop = 0
    BY <1>1, <1>10, <2>2 DEF LoopInv, AtExit
  <2>4. pages[p] = <<>>
    BY <1>2, <1>3, <2>3, EmptySeq
  <2>5. FlattenSeq(pages) = Flat(pages, 0)
    BY <1>9, <2>3, <2>4
  <2>6. FlattenSeq(<<>>) = <<>>
    BY DEF FlattenSeq
  <2> QED
    BY <1>5, <1>8, <2>1, <2>5, <2>6, FlatZero
<1>11. CASE ~(exiting /\ n = 1)
  <2>1. /\ pages' \in Seq(Seq(Entries)) /\ Len(pages') \in Nat /\ Len(pages') <= Len(pages)
        /\ \A q \in 1..Len(pages') : pages'[q] = pages[q] /\ q \in 1..Len(pages)
        /\ \/ DebugPoolAllocation /\ hot' = p - 1 /\ Len(pages') = p - 1
           \/ ~DebugPoolAllocation /\ hot' = p /\ p <= Len(pages') /\ Len(pages') <= p + 1
    BY <1>11, FinishIs
  <2>2. CASE DebugPoolAllocation
    <3>1. PICK b : b = p - 1
      OBVIOUS
    <3>2. Len(pages') = b /\ b \in Nat /\ b <= Len(pages) /\ b <= b
      BY <1>7, <2>1, <2>2, <3>1
    <3>3. FlattenSeq(pages') = Flat(pages', b)
      BY <2>1, <3>2, FlatWhole
    <3>4. Flat(pages', b) = Flat(pages, b)
      BY <1>2, <2>1, <3>2, FlatSame
    <3>5. FlattenSeq(pages) = Flat(pages, b)
      BY <1>3, <1>9, <2>2, <3>1
    <3> QED
      BY <1>5, <1>8, <3>3, <3>4, <3>5
  <2>3. CASE ~DebugPoolAllocation
    <3>1. p <= Len(pages') /\ p \in 0..Len(pages') /\ p <= Len(pages)
      BY <1>3, <1>7, <2>1, <2>3
    <3>2. ASSUME NEW q \in p + 1..Len(pages') PROVE pages'[q] = <<>>
      <4>1. q \in 1..Len(pages') /\ q \in p + 1..Len(pages)
        <5>1. Len(pages') \in Nat /\ Len(pages) \in Nat /\ Len(pages') <= Len(pages) /\ p \in Nat
          BY <1>2, <1>3, <2>1
        <5> QED
          BY <5>1
      <4> QED
        BY <1>6, <2>1, <4>1
    <3>3. FlattenSeq(pages') = Flat(pages', p)
      BY <2>1, <3>1, <3>2, FlatUpTo
    <3>4. \A q \in 1..p : pages'[q] = pages[q]
      <4>1. \A q \in 1..p : q \in 1..Len(pages')
        BY <1>3, <2>1, <3>1
      <4> QED
        BY <2>1, <4>1
    <3>5. Flat(pages', p) = Flat(pages, p)
      BY <1>2, <1>3, <2>1, <3>1, <3>4, FlatSame
    <3> QED
      BY <1>5, <1>8, <3>3, <3>5
  <2> QED
    BY <2>2, <2>3
<1> QED
  BY <1>5, <1>8, <1>10, <1>11

LEMMA FinishEnds == ASSUME IInv, FinishPop PROVE Lists!EndPop
<1>a. PICK n : n = Len(pops)
  OBVIOUS
<1>b. PICK p : p = pops[n].page
  OBVIOUS
<1>1. TypeOK
  BY DEF IInv
<1>2. pages \in Seq(Seq(Entries))
  BY <1>1 DEF TypeOK
<1>3. /\ n \in 1..Len(pops) /\ p \in 1..Len(pages) /\ Len(pages[p]) = pops[n].stop
      /\ n \in Nat /\ Len(pops') = n - 1
      /\ \A m \in 1..n - 1 : pops'[m] = pops[m] /\ m \in 1..Len(pops)
  BY <1>a, <1>b, FinishHot
<1>4. Contents' = Contents /\ Contents = Flat(pages, p)
  BY <1>a, <1>b, FinishKeeps
<1>5. PICK k \in Nat : n = k + 1 /\ n - 1 = k
  BY <1>3
<1>6. /\ Len(Stops) = n /\ DOMAIN Stops = 1..n
      /\ \A m \in 1..n : Stops[m] = Position(pops[m].page, pops[m].stop)
  BY <1>a, <1>1, StopsAre
<1>7. Len(Contents) = Stops[n]
  <2>1. Len(Flat(pages, p)) = Len(Flat(pages, p - 1)) + Len(pages[p])
    BY <1>2, <1>3, FlatNext
  <2>2. Stops[n] = Len(Flat(pages, p - 1)) + pops[n].stop
    BY <1>a, <1>b, <1>3, <1>6, PositionIs
  <2> QED
    BY <1>3, <1>4, <2>1, <2>2
<1>8. /\ Stops' = [m \in 1..k |-> Stops'[m]]
      /\ \A m \in 1..k : Stops'[m] = Position(pops[m].page, pops[m].stop)
  <2>1. DOMAIN Stops' = 1..k /\ Stops' = [m \in 1..k |-> Stops'[m]]
    BY <1>3, <1>5 DEF Stops
  <2>2. ASSUME NEW m \in 1..k PROVE Stops'[m] = Position(pops[m].page, pops[m].stop)
    <3>1. m \in 1..n - 1 /\ pops'[m] = pops[m]
      BY <1>3, <1>5
    <3>2. Position(pops[m].page, pops[m].stop)' = Position(pops[m].page, pops[m].stop)
      BY <1>a, <3>1, FinishPlaces
    <3>3. Stops'[m] = Position(pops[m].page, pops[m].stop)'
      BY <1>3, <1>5 DEF Stops
    <3> QED
      BY <3>2, <3>3
  <2> QED
    BY <2>1, <2>2
<1>c. PICK f : f = Stops
  OBVIOUS
<1>d. PICK g : g = Stops'
  OBVIOUS
<1>9. Stops # <<>> /\ Last(Stops) = Stops[k + 1] /\ Front(Stops) = Stops'
  <2>1. \A m \in 1..k : m \in 1..n
    BY <1>5
  <2>2. \A m \in 1..k : Stops'[m] = Stops[m]
    BY <1>6, <1>8, <2>1
  <2>3. Stops = [m \in 1..k + 1 |-> Stops[m]]
    BY <1>5, <1>6 DEF Stops
  <2>4. Stops' = [m \in 1..k |-> Stops'[m]] /\ k \in Nat
    BY <1>8
  <2>5. \A m \in 1..k : g[m] = f[m]
    BY <1>c, <1>d, <2>2
  <2>6. f = [m \in 1..k + 1 |-> f[m]] /\ g = [m \in 1..k |-> g[m]]
    BY <1>c, <1>d, <2>3, <2>4
  <2> DEFINE S == {f[m] : m \in 1..k + 1}
  <2>7. f \in [1..k + 1 -> S] /\ g \in [1..k -> S] /\ k + 1 \in Nat
    <3>1. \A m \in 1..k : m \in 1..k + 1
      OBVIOUS
    <3> QED
      BY <2>5, <2>6, <3>1
  <2> HIDE DEF S
  <2>8. f \in Seq(S) /\ Len(f) = k + 1 /\ g \in Seq(S) /\ Len(g) = k
    BY <2>7, FunctionIsSeq
  <2>9. f # <<>> /\ Front(f) = g
    BY <2>5, <2>8, ShrunkSeq
  <2> QED
    BY <1>c, <1>d, <2>8, <2>9 DEF Last
<1> QED
  BY <1>4, <1>5, <1>7, <1>9 DEF Lists!EndPop, Lists!Last, Lists!Front, Last, Front

\* Every step is one of the list, or leaves it alone.
LEMMA AddStep ==
    ASSUME IInv, NEW x \in Entries, Contents' = Append(Contents, x), Stops' = Stops
    PROVE  Lists!Next
<1>1. Lists!Add(x)
  BY DEF Lists!Add
<1> QED
  BY <1>1 DEF Lists!Next, Entries

LEMMA EmptyStep ==
    ASSUME Contents = <<Boundary>>, Contents' = <<>>, Stops' = Stops
    PROVE  Lists!Next
BY DEF Lists!Next, Lists!PopEmpty

LEMMA AutoreleaseAdds == ASSUME IInv, Autorelease PROVE Lists!Next
<1>1. PICK o \in Objects : IF hot # 0 THEN AddTo(PageFor(o), o) ELSE FirstPage(o)
  BY DEF Autorelease
<1>2. o \in Entries /\ pops' = pops
  BY DEF Entries, Autorelease
<1>3. Contents' = Append(Contents, o) /\ Stops' = Stops
  <2>1. CASE hot # 0
    <3>1. AddTo(PageFor(o), o)
      BY <1>1, <2>1
    <3> QED
      BY <1>2, <2>1, <3>1, GrowAdds
  <2>2. CASE hot = 0
    <3>1. FirstPage(o)
      BY <1>1, <2>2
    <3> QED
      BY <1>2, <2>2, <3>1, FirstPageAdds
  <2> QED
    BY <2>1, <2>2
<1> QED
  BY <1>2, <1>3, AddStep

LEMMA PushAdds == ASSUME IInv, Push PROVE Lists!Next
<1>1. Boundary \in Entries /\ pops' = pops
  BY DEF Entries, Push
<1>2. Contents' = Append(Contents, Boundary) /\ Stops' = Stops
  <2>1. CASE hot # 0
    <3>1. AddTo(PageFor(Boundary), Boundary)
      BY <2>1 DEF Push
    <3> QED
      BY <1>1, <2>1, <3>1, GrowAdds
  <2>2. CASE hot = 0
    <3>1. FirstPage(Boundary)
      BY <2>2 DEF Push
    <3> QED
      BY <1>1, <2>2, <3>1, FirstPageAdds
  <2> QED
    BY <2>1, <2>2
<1> QED
  BY <1>1, <1>2, AddStep

\* Without pages there is at most the placeholder.
LEMMA BareContents == pages = <<>> => Contents = IF placeholder THEN <<Boundary>> ELSE <<>>
BY DEF Contents, FlattenSeq

LEMMA PushPlaceholderAdds == ASSUME IInv, PushPlaceholder PROVE Lists!Next
<1>1. pages = <<>> /\ pops = <<>> /\ pages' = pages /\ pops' = pops /\ ~placeholder
      /\ placeholder' = TRUE
  BY NoHot DEF PushPlaceholder
<1>2. Contents = <<>> /\ Contents' = <<Boundary>>
  BY <1>1, BareContents DEF Contents
<1>3. Append(<<>>, Boundary) = <<Boundary>>
  OBVIOUS
<1>4. Stops' = Stops /\ Boundary \in Entries
  BY <1>1, StopsEmpty DEF Entries
<1> QED
  BY <1>2, <1>3, <1>4, AddStep

LEMMA PopUnusedEmpties == ASSUME IInv, PopUnused PROVE Lists!Next
<1>1. pages = <<>> /\ pops = <<>> /\ Opened = 0
  BY NoHot DEF PopUnused
<1>2. placeholder /\ pages' = pages /\ pops' = pops /\ placeholder' = FALSE
  <2>1. 1 \in 1..Len(tokens) /\ hot = 0
    <3>1. Len(tokens) \in Nat
      BY TokensTyped DEF IInv
    <3>2. Len(tokens) > 0 /\ hot = 0
      BY <1>1 DEF PopUnused
    <3> QED
      BY <3>1, <3>2
  <2>2. placeholder
    BY <2>1, NoHot
  <2> QED
    BY <2>2 DEF PopUnused
<1>3. Contents = <<Boundary>> /\ Contents' = <<>>
  <2>1. Contents' = FlattenSeq(<<>>)
    BY <1>1, <1>2 DEF Contents
  <2> QED
    BY <1>1, <1>2, <2>1, BareContents DEF FlattenSeq
<1> QED
  BY <1>1, <1>2, <1>3, StopsEmpty, EmptyStep

LEMMA PopBegins == ASSUME IInv, Pop PROVE Lists!Next
<1>1. PICK i \in Opened + 1..Len(tokens) : BeginPop(tokens[i], i - 1)
  BY DEF Pop
<1>2. TypeOK /\ PagesInv
  BY DEF IInv
<1>3. Opened \in Nat /\ Len(tokens) \in Nat /\ i \in 1..Len(tokens) /\ i - 1 \in Nat
  <2>1. Opened \in Nat /\ Len(tokens) \in Nat
    BY <1>2, OpenedIs, TokensTyped
  <2> QED
    BY <2>1
<1>4. hot # 0 /\ ~placeholder
  BY <1>1, <1>2 DEF BeginPop, PagesInv
<1>5. /\ Leads(i) /\ Where(i).page \in Nat /\ Where(i).at \in Nat
  BY <1>3, <1>4, TokensBelow
<1> DEFINE r == [page |-> Where(i).page, stop |-> Where(i).at, opened |-> i - 1]
<1>6. r \in Popping /\ r.page = Where(i).page /\ r.stop = Where(i).at
  BY <1>3, <1>5 DEF Popping
<1>7. pops' = Append(pops, r) /\ UNCHANGED <<pages, placeholder>>
  BY <1>1 DEF BeginPop, Where
<1> HIDE DEF r
<1>8. /\ r.page \in 1..Len(pages) /\ r.stop < Len(pages[r.page])
      /\ pages[r.page][r.stop + 1] = Boundary
  BY <1>5, <1>6 DEF Leads
<1> QED
  BY <1>4, <1>6, <1>7, <1>8, BeginPops

LEMMA ThreadExitsBegins ==
    ASSUME IInv, ThreadExits
    PROVE  Lists!Next \/ (Contents' = Contents /\ Stops' = Stops)
<1>1. TypeOK /\ PagesInv /\ pops = <<>>
  BY DEF IInv, ThreadExits
<1>2. /\ Len(pages) \in Nat /\ hot \in Nat /\ hot <= Len(pages) /\ pages \in Seq(Seq(Entries))
      /\ \A p \in 1..Len(pages) : pages[p] \in Seq(Entries)
  BY <1>1, PagesTyped DEF TypeOK
<1>3. CASE hot # 0 /\ pages[1] # <<>>
  <2>1. BeginPop([page |-> 1, at |-> 0], 0)
    BY <1>3 DEF ThreadExits
  <2>2. Start([page |-> 1, at |-> 0]) = [page |-> 1, at |-> 0]
    BY DEF Start, Placeholder
  <2>3. pops' = Append(pops, AtExit) /\ UNCHANGED <<pages, placeholder>>
    BY <2>1, <2>2 DEF BeginPop, AtExit
  <2>4. AtExit \in Popping /\ AtExit.page = 1 /\ AtExit.stop = 0
    BY DEF AtExit, Popping
  <2>5. 1 \in 1..Len(pages)
    BY <1>2, <1>3
  <2>6. 0 < Len(pages[1])
    <3>1. Len(pages[1]) \in Nat \ {0}
      BY <1>2, <1>3, <2>5, EmptySeq
    <3> QED
      BY <3>1
  <2>7. ~placeholder
    BY <1>1, <1>3 DEF PagesInv
  <2> HIDE DEF AtExit
  <2> QED
    BY <2>3, <2>4, <2>5, <2>6, <2>7, BeginPops
<1>4. CASE ~(hot # 0 /\ pages[1] # <<>>)
  <2>1. pages' = <<>> /\ placeholder' = FALSE /\ pops' = pops
    BY <1>4 DEF ThreadExits
  <2>2. Contents' = <<>>
    BY <2>1 DEF Contents, FlattenSeq
  <2>3. Stops' = Stops
    BY <1>1, <2>1, StopsEmpty
  <2>4. CASE hot = 0
    <3>1. pages = <<>>
      BY <1>1, <2>4 DEF PagesInv
    <3>2. CASE placeholder
      <4>1. Contents = <<Boundary>>
        BY <3>1, <3>2, BareContents
      <4> QED
        BY <2>2, <2>3, <4>1, EmptyStep
    <3>3. CASE ~placeholder
      BY <2>2, <2>3, <3>1, <3>3, BareContents
    <3> QED
      BY <3>2, <3>3
  <2>5. CASE hot # 0
    <3>1. pages[1] = <<>> /\ ~DebugPoolAllocation /\ ~placeholder
      BY <1>1, <1>4, <2>5 DEF PagesInv
    <3>2. hot = 1
      <4>1. ASSUME hot # 1 PROVE FALSE
        <5>1. 1 \in 1..hot - 1
          BY <1>2, <2>5, <4>1
        <5>2. Len(pages[1]) = COUNT
          BY <1>1, <3>1, <5>1 DEF PagesInv, Full
        <5>3. Len(<<>>) = 0
          BY EmptySeq
        <5> QED
          BY <3>1, <5>2, <5>3, CountIs
      <4> QED
        BY <4>1
    <3>3. ASSUME NEW q \in 0 + 1..Len(pages) PROVE pages[q] = <<>>
      <4>1. q = 1 \/ q \in hot + 1..Len(pages)
        BY <1>2, <3>2
      <4> QED
        BY <1>1, <3>1, <4>1 DEF PagesInv
    <3>4. FlattenSeq(pages) = Flat(pages, 0)
      <4>1. 0 \in 0..Len(pages)
        BY <1>2
      <4> QED
        BY <1>2, <3>3, <4>1, FlatUpTo
    <3>5. Contents = <<>>
      BY <3>1, <3>4, FlatZero DEF Contents
    <3> QED
      BY <2>2, <2>3, <3>5
  <2> QED
    BY <2>4, <2>5
<1> QED
  BY <1>3, <1>4

LEMMA Simulation == ASSUME IInv, [Next]_vars PROVE [Lists!Next]_<<Contents, Stops>>
<1>1. CASE Autorelease
  BY <1>1, AutoreleaseAdds
<1>2. CASE PushPlaceholder
  BY <1>2, PushPlaceholderAdds
<1>3. CASE Push
  BY <1>3, PushAdds
<1>4. CASE PopUnused
  BY <1>4, PopUnusedEmpties
<1>5. CASE Pop
  BY <1>5, PopBegins
<1>6. CASE ReleaseNext
  <2>1. Lists!RemoveLast
    BY <1>6, ReleaseRemoves DEF Lists!RemoveLast, Lists!Last, Lists!Front, Last, Front
  <2> QED
    BY <2>1 DEF Lists!Next
<1>7. CASE Return
  <2>1. pages' = pages /\ placeholder' = placeholder /\ pops' = pops
    BY <1>7 DEF Return
  <2> QED
    BY <2>1 DEF Contents, Stops, Position
<1>8. CASE FinishPop
  <2>1. Lists!EndPop
    BY <1>8, FinishEnds
  <2> QED
    BY <2>1 DEF Lists!Next
<1>9. CASE ThreadExits
  BY <1>9, ThreadExitsBegins
<1>10. CASE UNCHANGED vars
  BY <1>10 DEF vars, Contents, Stops, Position
<1> QED
  BY <1>1, <1>2, <1>3, <1>4, <1>5, <1>6, <1>7, <1>8, <1>9, <1>10 DEF Next

\* The pages, the spare ones and the placeholder are one list: what a pop
\* releases is what was added since its boundary, last first and each once, with
\* what these releases add, whatever they push and pop.
THEOREM Refinement == Spec => ImplementsPools
<1>1. Init => Lists!Init
  <2> SUFFICES ASSUME Init PROVE Lists!Init
    OBVIOUS
  <2>1. Contents = <<>>
    BY BareContents DEF Init
  <2>2. Stops = <<>>
    <3>1. Len(pops) = 0
      BY EmptySeq DEF Init
    <3> QED
      BY <3>1 DEF Stops
  <2> QED
    BY <2>1, <2>2 DEF Lists!Init
<1>2. IInv /\ [Next]_vars => [Lists!Next]_<<Contents, Stops>>
  BY Simulation
<1> QED
  BY <1>1, <1>2, Invariant, PTL DEF Spec, Lists!Spec, ImplementsPools
=============================================================================
