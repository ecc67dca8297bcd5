------------------------- MODULE MCClassInitialize -------------------------
(* Instances of ClassInitialize for TLC. *)
EXTENDS ClassInitialize, TLC

CONSTANTS root, a, b, c, d

\* root <- a <- b <- c, and root <- d
Hierarchy == (root :> NoClass) @@ (a :> root) @@ (b :> a) @@ (c :> b) @@ (d :> root)

\* The note's example: a superclass's +initialize runs code that initializes
\* classes far below it, and a class beside it.
Downwards == (root :> {}) @@ (a :> {c, d}) @@ (b :> {a}) @@ (c :> {c}) @@ (d :> {})
=============================================================================
