--------------------------- MODULE MCRoomManager ---------------------------
(* Small instances of RoomManager for TLC. *)
EXTENDS RoomManager, TLC

\* Sessions and addresses are interchangeable: no action orders them.
Interchangeable == Permutations(Sessions) \cup Permutations(Refs)
=============================================================================
