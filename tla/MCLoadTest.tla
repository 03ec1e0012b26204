----------------------------- MODULE MCLoadTest -----------------------------
(* Small instances of LoadTest for TLC. *)
EXTENDS LoadTest, TLC

\* Addresses are interchangeable; clients are numbered.
Interchangeable == Permutations(Refs)
=============================================================================
