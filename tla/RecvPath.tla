------------------------------ MODULE RecvPath ------------------------------
(***************************************************************************)
(* The bytes of one client on their way to PacketHandler::Handle: TCP,     *)
(* Session::PostRecv and OnRecvCompleted, the worker loop's RECV case, and *)
(* RingBuffer::TryAssemblePacket.                                          *)
(*                                                                         *)
(* One WSARecv is outstanding per session, and the worker that completes   *)
(* it assembles and handles before it posts the next, so the ring has one  *)
(* user at a time.  A completion brings any number of the bytes in flight, *)
(* up to the size of m_recvBuffer.  Nothing is received any more when the  *)
(* connection ended, when WSARecv failed at once, or when a handler threw. *)
(***************************************************************************)
EXTENDS RingBuffer, FiniteSets, SequencesExt

CONSTANTS
    RECV_SIZE,  \* size of Session::m_recvBuffer
    Packets,    \* packets the client may send, each a sequence of bytes
    MaxSent     \* bound: packets sent

\* A recv fits beside an incomplete packet.  A client declares the size of the
\* packet it sends (header.size = sizeof(PKT_...) in dummy_client/main.cpp),
\* unless what it declares is out of range.
ASSUME RecvAssumption ==
    /\ RECV_SIZE \in Nat \ {0}
    /\ RECV_SIZE + MAX_PACKET_SIZE - 1 <= BUFFER_SIZE
    /\ MaxSent \in Nat
    /\ \A p \in Packets :
          /\ p \in Seq(Nat) /\ Len(p) >= HEADER_SIZE
          /\ SizeAllowed(p[1]) => Len(p) = p[1]

VARIABLES
    network,  \* bytes TCP still has to deliver
    ring,     \* m_ringBuffer
    recv,     \* "posted": WSARecv outstanding; "handling": its worker runs;
              \* "over": no WSARecv will bring bytes any more
    sent,     \* history: packets the client sent
    handled   \* history: packets given to PacketHandler::Handle

vars == <<network, ring, recv, sent, handled>>

\* When WSARecv fails at once it is only logged, and no other one follows.
PostRecv == recv' \in {"posted", "over"}

\* A session begins with a PostRecv, which may fail.
Init ==
    /\ network = <<>>
    /\ ring = EmptyRing
    /\ recv \in {"posted", "over"}
    /\ sent = <<>>
    /\ handled = <<>>

\* The client (DummyClient::SendPacket) writes a whole packet to its socket.
Send(p) ==
    /\ Len(sent) < MaxSent
    /\ sent' = Append(sent, p)
    /\ network' = network \o p
    /\ UNCHANGED <<ring, recv, handled>>

\* The recv completes with n bytes.  A chunk that does not fit is dropped and
\* the next recv posted.
RecvCompleted(n) ==
    LET chunk == SubSeq(network, 1, n) IN
    /\ recv = "posted"
    /\ network' = SubSeq(network, n + 1, Len(network))
    /\ \/ Fits(ring, chunk) /\ ring' = Write(ring, chunk) /\ recv' = "handling"
       \/ ~Fits(ring, chunk) /\ ring' = ring /\ PostRecv
    /\ UNCHANGED <<sent, handled>>

\* The peer closes, aborts or falls silent for good: the recv completes with 0
\* bytes or never, and what TCP still has does not arrive.
ConnectionEnds ==
    /\ recv = "posted"
    /\ recv' = "over"
    /\ UNCHANGED <<network, ring, sent, handled>>

\* TryAssemblePacket returns a packet and Handle gets it.
TakePacket ==
    /\ recv = "handling"
    /\ HasPacket(ring)
    /\ handled' = Append(handled, FirstPacket(ring))
    /\ ring' = Drop(ring, TotalSize(ring))
    /\ UNCHANGED <<network, sent>>

HandlePacket == TakePacket /\ UNCHANGED recv

\* Handle throws: the worker catches it outside the loop, and no PostRecv follows.
HandlerThrows == TakePacket /\ recv' = "over"

\* TryAssemblePacket returns none, having skipped a header it does not accept;
\* the loop ends and PostRecv follows.
NoPacket ==
    /\ recv = "handling"
    /\ ~HasPacket(ring)
    /\ ring' = IF HasBadHeader(ring) THEN Drop(ring, HEADER_SIZE) ELSE ring
    /\ PostRecv
    /\ UNCHANGED <<network, sent, handled>>

Complete ==
    \E n \in 1 .. RECV_SIZE : n <= Len(network) /\ RecvCompleted(n)

Worker == HandlePacket \/ HandlerThrows \/ NoPacket

Next ==
    \/ \E p \in Packets : Send(p)
    \/ Complete
    \/ ConnectionEnds
    \/ Worker

Spec == Init /\ [][Next]_vars

\* While the connection lasts and a WSARecv is outstanding TCP delivers what was
\* sent (that it stops doing so is ConnectionEnds), and a worker finishes what it
\* began.
Fairness == WF_vars(Complete) /\ WF_vars(Worker)
FairSpec == Spec /\ Fairness

-----------------------------------------------------------------------------
\* The types; and the ring's size agrees with its positions, through every
\* wrap-around: writePos is readPos advanced by dataSize.
TypeOK ==
    /\ network \in Seq(Nat)
    /\ Sound(ring)
    /\ recv \in {"posted", "handling", "over"}
    /\ sent \in Seq(Packets)
    /\ handled \in Seq(Seq(Nat))

Acceptable(p) == SizeAllowed(p[1])

\* No header was sent that the ring rejects (architecture.md:92).
Clean == \A i \in 1 .. Len(sent) : Acceptable(sent[i])

\* Between completions less than one packet is left in the ring, so the next
\* chunk always fits and the overflow branch of OnRecvCompleted is never taken.
\* (A rejected header ends the loop as an incomplete packet does: what is behind
\* it stays in the ring until the client's next bytes.)
ResidueBounded == Clean /\ recv = "posted" => ring.dataSize < MAX_PACKET_SIZE

\* No byte is lost, invented or reordered between the client's socket and the
\* handlers: what was handled, what the ring holds and what TCP still has make
\* up the stream that was sent.
BytesConserved ==
    Clean => FlattenSeq(sent) = FlattenSeq(handled) \o Contents(ring) \o network

\* The packets before the first one that is rejected.
Before(packets) ==
    LET n == Cardinality({ k \in 1 .. Len(packets) :
                             \A i \in 1 .. k : Acceptable(packets[i]) })
    IN SubSeq(packets, 1, n)
First(n, packets) == IF n < Len(packets) THEN SubSeq(packets, 1, n) ELSE packets

\* The path implements the promise: the server handles the packets the client
\* sends before the first rejected one whole, once and in order ...
Promise == INSTANCE OrderedDelivery WITH
    Items <- Packets, MaxItems <- MaxSent,
    accepted <- Before(sent), delivered <- First(Len(Before(sent)), handled)
KeepsPromise == Promise!Spec

\* ... and it handles all of those, unless the connection ends, a WSARecv fails
\* at once or a handler throws first.
EveryPacketHandled ==
    \A n \in 1 .. MaxSent :
        Len(Before(sent)) >= n ~> Len(handled) >= n \/ recv = "over"
=============================================================================
