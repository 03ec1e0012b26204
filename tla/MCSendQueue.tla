---------------------------- MODULE MCSendQueue ----------------------------
(* The small instance of SendQueue that SendRaces.cfg gives TLC.  Liveness *)
(* is checked in the same run, so symmetry of the senders is not used.     *)
EXTENDS SendQueue
=============================================================================
