----------------------------- MODULE RingBuffer -----------------------------
(***************************************************************************)
(* The ring buffer each session assembles its packets in (RingBuffer.cpp), *)
(* as operators on its value: the array, the two positions and the number  *)
(* of bytes in it.                                                         *)
(*                                                                         *)
(* A byte is a number.  The header is HEADER_SIZE bytes; its size field is *)
(* represented by its first byte.                                          *)
(***************************************************************************)
EXTENDS Naturals, Sequences

CONSTANTS
    BUFFER_SIZE,      \* RingBuffer::BUFFER_SIZE
    MAX_PACKET_SIZE,  \* RingBuffer::MAX_PACKET_SIZE
    HEADER_SIZE       \* sizeof(PacketHeader)

ASSUME SizesAssumption ==
    /\ {BUFFER_SIZE, MAX_PACKET_SIZE, HEADER_SIZE} \subseteq Nat \ {0}
    /\ HEADER_SIZE <= MAX_PACKET_SIZE
    /\ MAX_PACKET_SIZE <= BUFFER_SIZE

Positions == 0 .. BUFFER_SIZE - 1

EmptyRing == [buffer |-> [i \in Positions |-> 0],
              readPos |-> 0, writePos |-> 0, dataSize |-> 0]

-----------------------------------------------------------------------------
(* Mistakes the properties are tried against, each in place of the         *)
(* definition named.                                                       *)

\* Advanced: the position does not wrap
NotWrapped(pos, len) == pos + len
\* TailSpace: the array's last place is forgotten
TailSpaceShort(pos) == BUFFER_SIZE - pos - 1
\* Copied: the last byte is left out
CopiedShort(buffer, at, bytes) ==
    [i \in Positions |->
        IF at <= i /\ i + 1 < at + Len(bytes) THEN bytes[i - at + 1] ELSE buffer[i]]

-----------------------------------------------------------------------------
\* memcpy to and from the array
Copied(buffer, at, bytes) ==
    [i \in Positions |->
        IF at <= i /\ i < at + Len(bytes) THEN bytes[i - at + 1] ELSE buffer[i]]
Slice(buffer, at, len) == [i \in 1 .. len |-> buffer[at + i - 1]]

TailSpace(pos)     == BUFFER_SIZE - pos
Advanced(pos, len) == (pos + len) % BUFFER_SIZE

WritableSize(ring) == BUFFER_SIZE - ring.dataSize

Fits(ring, bytes) == Len(bytes) <= WritableSize(ring)

\* Write of bytes that fit; past the end of the array they go on at its start.
Write(ring, bytes) ==
    LET len  == Len(bytes)
        tail == TailSpace(ring.writePos)
        wrapped ==
            Copied(Copied(ring.buffer, ring.writePos, SubSeq(bytes, 1, tail)),
                   0, SubSeq(bytes, tail + 1, len))
    IN [buffer   |-> IF len <= tail THEN Copied(ring.buffer, ring.writePos, bytes)
                                    ELSE wrapped,
        readPos  |-> ring.readPos,
        writePos |-> Advanced(ring.writePos, len),
        dataSize |-> ring.dataSize + len]

\* Peek of no more bytes than there are
Peek(ring, len) ==
    LET tail == TailSpace(ring.readPos)
    IN IF len <= tail
       THEN Slice(ring.buffer, ring.readPos, len)
       ELSE Slice(ring.buffer, ring.readPos, tail)
                \o Slice(ring.buffer, 0, len - tail)

\* Ignore of no more bytes than there are; Read is Peek and then this.
Drop(ring, len) ==
    [ring EXCEPT !.readPos = Advanced(@, len), !.dataSize = @ - len]

Contents(ring) == Peek(ring, ring.dataSize)

\* TryAssemblePacket
HasHeader(ring)    == ring.dataSize >= HEADER_SIZE
TotalSize(ring)    == Peek(ring, HEADER_SIZE)[1]
SizeAllowed(size)  == HEADER_SIZE <= size /\ size <= MAX_PACKET_SIZE
HasBadHeader(ring) == HasHeader(ring) /\ ~SizeAllowed(TotalSize(ring))

\* HasPacket, mistaken: a packet waits for the byte after it
HasMoreThanPacket(ring) == /\ HasHeader(ring)
                           /\ SizeAllowed(TotalSize(ring))
                           /\ TotalSize(ring) < ring.dataSize
HasPacket(ring)    == /\ HasHeader(ring)
                      /\ SizeAllowed(TotalSize(ring))
                      /\ TotalSize(ring) <= ring.dataSize
FirstPacket(ring)  == Peek(ring, TotalSize(ring))

-----------------------------------------------------------------------------
\* The ring's size agrees with its positions: writePos is readPos advanced by
\* dataSize.
Sound(ring) ==
    /\ ring \in [buffer : [Positions -> Nat], readPos : Positions,
                writePos : Positions, dataSize : 0 .. BUFFER_SIZE]
    /\ ring.writePos = Advanced(ring.readPos, ring.dataSize)
=============================================================================
