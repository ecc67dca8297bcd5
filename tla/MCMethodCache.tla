---- MODULE MCMethodCache ----
EXTENDS MethodCache, TLC

CONSTANTS t1, t2, A, B, s1, s2

Symmetry == Permutations(Threads)

\* B is a subclass of A.
TwoClasses == [c \in {A, B} |-> IF c = A THEN NoClass ELSE A]

\* s1 and s2 collide, in the last of 4 and of 8 buckets.
Addresses == [s \in {s1, s2} |-> IF s = s1 THEN 7 ELSE 15]

\* s2 is implemented in B; s1 is added to A, by a resolver or by others, and
\* forwarded until then.  With Quarters = 1 both together make B's cache grow.
Messages == {<<A, s1>>, <<B, s1>>, <<B, s2>>}
HaveMethods == {<<A, s1>>, <<B, s2>>}
Resolved == {<<A, s1>>}
OneEach == [m \in HaveMethods |-> 1]
====
