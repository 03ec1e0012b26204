------------------------- MODULE MCSessionLifecycle -------------------------
(* Small instances of SessionLifecycle for TLC. *)
EXTENDS SessionLifecycle, TLC

\* Clients and workers are interchangeable; used where only safety is checked.
Interchangeable == Permutations(Clients) \cup Permutations(Workers)
=============================================================================
