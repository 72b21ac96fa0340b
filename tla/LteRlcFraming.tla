--------------------------- MODULE LteRlcFraming ---------------------------
(***************************************************************************)
(* How RLC puts SDUs into the data field of a PDU and takes them out       *)
(* again: the loop of DoNotifyTxOpportunity that fills the data field, and *)
(* ReassembleAndDeliver.  LteRlcUm and LteRlcAm share this code, up to one *)
(* case of the reassembly (SkipsUnexpectedRest).                           *)
(*                                                                         *)
(* A piece is a run of bytes of one SDU with its status tag.  A packet is  *)
(* a sequence of pieces, because AddAtEnd joins whatever it is given.      *)
(***************************************************************************)
EXTENDS SequenceNumber10, SequencesExt

CONSTANTS
    MaxLi,                 \* 2047 in the code: the largest length indicator
    SkipsUnexpectedRest    \* TRUE in LteRlcUm, FALSE in LteRlcAm

ASSUME FramingAssumption ==
    /\ MaxLi \in Nat \ {0}
    /\ SkipsUnexpectedRest \in BOOLEAN

\* A PDCP PDU as it enters the queue: a piece of SDU number sdu that begins at
\* byte from.  Cutting it makes a FIRST_SEGMENT, MIDDLE_SEGMENTs, a LAST_SEGMENT.
FullSdu(sdu, size) == [sdu |-> sdu, from |-> 0, len |-> size, status |-> "FULL_SDU"]

(***************************************************************************)
(* Filling the data field from a queue of pieces.                          *)
(***************************************************************************)

\* Bytes of the first n pieces of the queue.
SizeOf(queue, n) == FoldLeft(LAMBDA sum, piece : sum + piece.len, 0, SubSeq(queue, 1, n))

\* Faulty variant: every length indicator is counted with one byte.
LiBytesShort(n) == n

\* Bytes n length indicators take: two for the 1st, 3rd, ..., one for the others.
LiBytes(n) == (3 * n + 1) \div 2

\* What is left of the room when the loop comes to the i-th piece.
RoomAt(queue, room, i) == room - SizeOf(queue, i - 1) - LiBytes(i - 1)

\* The i-th piece does not get a length indicator, so it is the last one.
EndsAt(queue, room, i) ==
    \/ queue[i].len > MaxLi
    \/ RoomAt(queue, room, i) - queue[i].len <= 2
    \/ i = Len(queue)

\* The number of pieces that go into the data field, the last one perhaps in part.
Taken(queue, room) ==
    CHOOSE n \in 1 .. Len(queue) :
        EndsAt(queue, room, n) /\ \A i \in 1 .. n - 1 : ~EndsAt(queue, room, i)

\* A piece that is cut after size bytes: what goes into the data field and what
\* is given back to the queue.
Cut(piece, size) ==
    [piece EXCEPT !.len = size,
                  !.status = IF @ = "FULL_SDU" THEN "FIRST_SEGMENT" ELSE "MIDDLE_SEGMENT"]

Rest(piece, size) ==
    [piece EXCEPT !.from = @ + size, !.len = @ - size, !.status = "LAST_SEGMENT"]

DataField(queue, room) ==
    LET n    == Taken(queue, room)
        size == RoomAt(queue, room, n)
    IN  SubSeq(queue, 1, n - 1)
          \o <<IF queue[n].len > size THEN Cut(queue[n], size) ELSE queue[n]>>

\* Faulty variant: the rest of a cut SDU is not given back.
QueueAfterForgetting(queue, room) == SubSeq(queue, Taken(queue, room) + 1, Len(queue))

QueueAfter(queue, room) ==
    LET n    == Taken(queue, room)
        size == RoomAt(queue, room, n)
    IN  (IF queue[n].len > size THEN <<Rest(queue[n], size)>> ELSE <<>>)
          \o SubSeq(queue, n + 1, Len(queue))

\* The framing information of a data field.
FirstByte(field) == field[1].status \in {"FULL_SDU", "FIRST_SEGMENT"}
LastByte(field)  == field[Len(field)].status \in {"FULL_SDU", "LAST_SEGMENT"}

(***************************************************************************)
(* ReassembleAndDeliver.  r is the reassembly state: expected is           *)
(* m_expectedSeqNumber, waitsRest is m_reassemblingState = WAITING_SI_SF,  *)
(* keep is m_keepS0, sdus is m_sdusBuffer, delivered the packets handed    *)
(* to the upper layer.                                                     *)
(***************************************************************************)
NothingReassembled ==
    [expected |-> 0, waitsRest |-> FALSE, keep |-> <<>>, sdus |-> <<>>, delivered |-> <<>>]

\* The cases with the comment "ERROR: Transition not possible": the packets stay
\* in m_sdusBuffer.
Impossible(r, pdu) ==
    /\ pdu.sn = r.expected
    /\ \/ r.waitsRest /\ FirstByte(pdu.field)
       \/ ~r.waitsRest /\ ~FirstByte(pdu.field) /\ ~SkipsUnexpectedRest

\* Faulty variant: a lost PDU is not noticed while the rest of an SDU is awaited.
PacketsTrusting(r, sdus, pdu) ==
    IF FirstByte(pdu.field) THEN sdus
    ELSE IF r.waitsRest THEN <<r.keep \o Head(sdus)>> \o Tail(sdus)
    ELSE Tail(sdus)

\* Faulty variant: the rest of an SDU is always skipped.
PacketsSkipping(r, sdus, pdu) == IF FirstByte(pdu.field) THEN sdus ELSE Tail(sdus)

\* The packets of a PDU: the first is joined to the kept one when it continues
\* it, and skipped when what it continues was lost.
Packets(r, sdus, pdu) ==
    IF FirstByte(pdu.field) THEN sdus
    ELSE IF r.waitsRest /\ pdu.sn = r.expected
      THEN <<r.keep \o Head(sdus)>> \o Tail(sdus)
    ELSE Tail(sdus)

ReassembleAndDeliver(r, pdu) ==
    LET sdus    == r.sdus \o [i \in DOMAIN pdu.field |-> <<pdu.field[i]>>]
        packets == Packets(r, sdus, pdu)
        next    == [r EXCEPT !.expected = Inc(pdu.sn)]
    IN  IF Impossible(r, pdu) THEN [next EXCEPT !.sdus = sdus]
        ELSE IF LastByte(pdu.field) \/ packets = <<>>
          THEN [next EXCEPT !.waitsRest = FALSE, !.sdus = <<>>,
                            !.delivered = @ \o packets]
        ELSE [next EXCEPT !.waitsRest = TRUE, !.sdus = <<>>,
                          !.keep = packets[Len(packets)],
                          !.delivered = @ \o SubSeq(packets, 1, Len(packets) - 1)]

(***************************************************************************)
(* Properties of delivered packets.                                        *)
(***************************************************************************)

\* packet consists of all the bytes of one SDU in their order.
IsWhole(packet, sizes) ==
    LET sdu == packet[1].sdu
    IN  /\ \A i \in DOMAIN packet :
              packet[i].sdu = sdu /\ packet[i].from = SizeOf(packet, i - 1)
        /\ SizeOf(packet, Len(packet)) = sizes[sdu]

=============================================================================
