----------------------------- MODULE MCStatSync -----------------------------
(* Small instances of StatSync for TLC. *)
EXTENDS StatSync, TLC

\* Workers and requests are interchangeable; used where only safety is checked.
Interchangeable == Permutations(Workers) \cup Permutations(NodeReaders)
=============================================================================
