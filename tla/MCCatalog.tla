------------------------------ MODULE MCCatalog ------------------------------
(* An instance of Catalog for TLC. *)
EXTENDS Catalog, TLC

CONSTANTS w1, w2, p1, p2, p3

\* Requests and photos are interchangeable.
Interchangeable == Permutations({w1, w2}) \cup Permutations({p1, p2, p3})
=============================================================================
