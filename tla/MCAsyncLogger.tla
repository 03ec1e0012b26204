---------------------------- MODULE MCAsyncLogger ----------------------------
(* The small instance of AsyncLogger that LogOrder.cfg gives TLC.  Liveness *)
(* is checked in the same run, so symmetry of the threads is not used.      *)
EXTENDS AsyncLogger
=============================================================================
