---- MODULE MCAutoreleasePool ----
EXTENDS AutoreleasePool

CONSTANTS a
====
