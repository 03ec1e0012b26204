----------------------------- MODULE MCRecvPath -----------------------------
(* A small instance of RecvPath for TLC. *)
EXTENDS RecvPath

\* Three well-formed packets of the smallest, a middle and the largest size, and
\* a header that declares more than MAX_PACKET_SIZE with nothing behind it.  No
\* byte but the first is an acceptable size: out of step, they cannot pass for
\* packets.
FourPackets == { <<2, 10>>, <<3, 11, 12>>, <<4, 13, 14, 15>>, <<9, 16>> }
=============================================================================
