----------------------------- MODULE MCIdentity -----------------------------
(* An instance of BrowserSession for TLC. *)
EXTENDS BrowserSession, TLC

CONSTANTS t1, t2, s1

\* Tabs are interchangeable.
Interchangeable == Permutations(Tabs)
=============================================================================
