---------------------------- MODULE WriteBehind ----------------------------
(***************************************************************************)
(* What the statistics path promises (Packethandler.cpp:83-84): a stat is  *)
(* accepted at once, and the database catches up later, never going back   *)
(* to an older stat and ending with the newest.                            *)
(*                                                                         *)
(* A stat is named by its version: how many stats of that character were   *)
(* accepted before it, and it.                                             *)
(***************************************************************************)
EXTENDS Naturals

CONSTANTS
    Characters,
    MaxWrites    \* bound: stats accepted per character

VARIABLES
    latest,      \* newest accepted version of each character
    stored       \* version in the database

vars == <<latest, stored>>

Init ==
    /\ latest = [c \in Characters |-> 0]
    /\ stored = [c \in Characters |-> 0]

Accept(c) ==
    /\ latest[c] < MaxWrites
    /\ latest' = [latest EXCEPT ![c] = @ + 1]
    /\ UNCHANGED stored

\* Some stats in between may never reach the database.
Persist(c) ==
    /\ \E v \in (stored[c] + 1) .. latest[c] :
           stored' = [stored EXCEPT ![c] = v]
    /\ UNCHANGED latest

Next == \E c \in Characters : Accept(c) \/ Persist(c)

Spec == Init /\ [][Next]_vars
=============================================================================
