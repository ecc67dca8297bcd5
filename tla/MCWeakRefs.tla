---- MODULE MCWeakRefs ----
EXTENDS WeakRefs

CONSTANTS t1, t2, o1, o2, c1, c2, l1, l2

\* nil shares a table with one of the objects.
TwoTables == [o \in {o1, o2, Nil} |-> IF o = o2 THEN 2 ELSE 1]

\* Each object has a class of its own.
OwnClass == [o \in {o1, o2} |-> IF o = o2 THEN c2 ELSE c1]
====
