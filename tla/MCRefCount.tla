---- MODULE MCRefCount ----
EXTENDS RefCount

CONSTANTS t1, t2, t3
====
