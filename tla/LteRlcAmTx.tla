----------------------------- MODULE LteRlcAmTx -----------------------------
(***************************************************************************)
(* The transmitting side of an RLC AM entity (class LteRlcAm): the queue   *)
(* of SDUs, the window VT(A) .. VT(S), the buffers of transmitted and of   *)
(* to-be-retransmitted PDUs, re-segmentation, polling and the handling of  *)
(* a STATUS PDU.                                                           *)
(*                                                                         *)
(* The payload of a PDU is its number in the order of construction and the *)
(* size of its data field; how SDUs fill the data field is abstracted to   *)
(* the number of bytes taken from the queue.  Sizes are in bytes of any    *)
(* unit.  m_pollPdu is 1 and has no setter, so every new PDU polls.        *)
(***************************************************************************)
EXTENDS SequenceNumber10, Sequences, FiniteSetsExt

CONSTANTS
    HdrLen,              \* bytes of the header of a data PDU
    OppSizes,            \* bytes of the transmission opportunities the MAC gives
    MinDataOpp,          \* smallest opportunity used for a new PDU (7 in the code)
    SduSizes,            \* bytes of the PDCP PDUs handed to the entity
    MaxTxBufferSize,     \* m_maxTxBufferSize
    RetxAlwaysBigEnough, \* m_txOpportunityForRetxAlwaysBigEnough
    MaxAccepted          \* bound of the model: bytes accepted in a behaviour

ASSUME TxAssumption ==
    /\ HdrLen \in Nat \ {0}
    /\ OppSizes \subseteq Nat
    /\ MinDataOpp \in Nat /\ MinDataOpp > HdrLen
    /\ SduSizes \subseteq Nat \ {0}
    /\ MaxTxBufferSize \in Nat
    /\ RetxAlwaysBigEnough \in BOOLEAN
    /\ MaxAccepted \in Nat

VARIABLES
    txonBufferSize,  \* bytes waiting in m_txonBuffer
    vtA, vtS,        \* VT(A), VT(S); VT(MS) is VT(A) + WindowSize
    txedBuffer,      \* m_txedBuffer: transmitted, waiting for an answer
    retxBuffer,      \* m_retxBuffer: to be transmitted again
    retxSegBuffer,   \* m_retxSegBuffer: offset of the remaining segment
    txedBufferSize, retxBufferSize,
    pollSn,
    pollRetransmitTimer,             \* is it running
    pollRetransmitTimerJustExpired,
    accepted,        \* history: bytes accepted from PDCP
    sent             \* history: size of the data field of every PDU built

txVars == <<txonBufferSize, vtA, vtS, txedBuffer, retxBuffer, retxSegBuffer,
            txedBufferSize, retxBufferSize, pollSn, pollRetransmitTimer,
            pollRetransmitTimerJustExpired, accepted, sent>>
bufferVars  == <<txedBuffer, retxBuffer, txedBufferSize, retxBufferSize>>
historyVars == <<accepted, sent>>

Pdu    == [id : Nat, len : Nat]
NoPdu  == [id |-> 0, len |-> 0]     \* m_pdu == 0; PDUs are numbered from 1
NoSeg  == -1                        \* no segment waits for this SN
StatusPdu == [ack : SN, nacks : SUBSET SN]

PduSize(pdu) == IF pdu = NoPdu THEN 0 ELSE HdrLen + pdu.len

\* The bytes a buffer holds in the slots of a set of sequence numbers.
BytesIn(buffer, sns) == MapThenSumSet(LAMBDA sn : PduSize(buffer[sn]), sns)

\* VT(A) <= sn < VT(S)
InFlight(sn) == Rel(sn, vtA) < Rel(vtS, vtA)

\* Faulty variant: one SN too many.
WindowStalledLate == Rel(vtS, vtA) > WindowSize

\* VT(S) = VT(MS)
WindowStalled == Rel(vtS, vtA) >= WindowSize

TxInit ==
    /\ txonBufferSize = 0
    /\ vtA = 0 /\ vtS = 0
    /\ txedBuffer = [sn \in SN |-> NoPdu]
    /\ retxBuffer = [sn \in SN |-> NoPdu]
    /\ retxSegBuffer = [sn \in SN |-> NoSeg]
    /\ txedBufferSize = 0 /\ retxBufferSize = 0
    /\ pollSn = 0
    /\ pollRetransmitTimer = FALSE
    /\ pollRetransmitTimerJustExpired = FALSE
    /\ accepted = 0
    /\ sent = <<>>

(***************************************************************************)
(* DoTransmitPdcpPdu: a PDCP PDU that does not fit is discarded, and that  *)
(* changes nothing.                                                        *)
(***************************************************************************)
TransmitPdcpPdu(size) ==
    /\ accepted + size <= MaxAccepted
    /\ txonBufferSize + size <= MaxTxBufferSize
    /\ txonBufferSize' = txonBufferSize + size
    /\ accepted' = accepted + size
    /\ UNCHANGED <<vtA, vtS, bufferVars, retxSegBuffer, pollSn,
                   pollRetransmitTimer, pollRetransmitTimerJustExpired, sent>>

(***************************************************************************)
(* DoNotifyTxOpportunity: a retransmission goes before new data.           *)
(***************************************************************************)

\* The polling part of the handler: when it polls, POLL_SN becomes lastSn,
\* the PDU sent last, and t-PollRetransmit is started or restarted.
Poll(polls, lastSn) ==
    IF polls
      THEN /\ pollSn' = lastSn
           /\ pollRetransmitTimer' = TRUE
           /\ pollRetransmitTimerJustExpired' = FALSE
      ELSE UNCHANGED <<pollSn, pollRetransmitTimer, pollRetransmitTimerJustExpired>>

WaitsForRetx(sn) == retxSegBuffer[sn] # NoSeg \/ retxBuffer[sn] # NoPdu

\* The PDU the loop over VT(A) <= sn < VT(S) stops at.
FirstForRetx(sn) ==
    /\ InFlight(sn) /\ WaitsForRetx(sn)
    /\ \A s \in SN : InFlight(s) /\ WaitsForRetx(s) => Rel(sn, vtA) <= Rel(s, vtA)

IsSegment(sn) == retxSegBuffer[sn] # NoSeg
RetxOffset(sn) == IF IsSegment(sn) THEN retxSegBuffer[sn] ELSE 0

\* The part of the data field of sn that is still to be retransmitted.
RetxLen(sn) == retxBuffer[sn].len - RetxOffset(sn)

RetxFits(sn, bytes) == HdrLen + RetxLen(sn) <= bytes \/ RetxAlwaysBigEnough

\* Faulty variant: the last retransmission does not poll.
RetxPollsSeldom(sn) == WindowStalled \/ pollRetransmitTimerJustExpired

\* Whether the retransmission of sn carries a poll.
RetxPolls(sn) ==
    \/ txonBufferSize = 0 /\ retxBufferSize = HdrLen + RetxLen(sn)
    \/ WindowStalled
    \/ pollRetransmitTimerJustExpired

\* The data PDU on the wire: a whole PDU or the segment from offset so.  last
\* is the last-segment flag.
WirePdu(sn, pdu, segment, so, len, last, poll) ==
    [sn |-> sn, id |-> pdu.id, segment |-> segment, so |-> so, len |-> len,
     last |-> last, poll |-> poll]

\* The rest of sn fits: send it and move the PDU back to the txedBuffer.
RetransmitRest(sn, bytes) ==
    /\ retxBufferSize > 0
    /\ FirstForRetx(sn)
    /\ RetxFits(sn, bytes)
    /\ Poll(RetxPolls(sn), Dec(vtS))
    /\ txedBuffer' = [txedBuffer EXCEPT ![sn] = retxBuffer[sn]]
    /\ retxBuffer' = [retxBuffer EXCEPT ![sn] = NoPdu]
    /\ retxSegBuffer' = [retxSegBuffer EXCEPT ![sn] = NoSeg]
    /\ txedBufferSize' = txedBufferSize + PduSize(retxBuffer[sn])
    /\ retxBufferSize' = retxBufferSize - PduSize(retxBuffer[sn])
    /\ UNCHANGED <<txonBufferSize, vtA, vtS, historyVars>>

RestOnWire(sn) ==
    WirePdu(sn, retxBuffer[sn], IsSegment(sn), RetxOffset(sn), RetxLen(sn),
            TRUE, RetxPolls(sn))

\* The rest of sn does not fit: send what fits and keep the remainder.
RetransmitSegment(sn, bytes) ==
    /\ retxBufferSize > 0
    /\ FirstForRetx(sn)
    /\ ~RetxFits(sn, bytes)
    /\ bytes >= HdrLen
    /\ Poll(RetxPolls(sn), Dec(vtS))
    /\ retxSegBuffer' = [retxSegBuffer EXCEPT ![sn] = RetxOffset(sn) + bytes - HdrLen]
    /\ UNCHANGED <<txonBufferSize, vtA, vtS, bufferVars, historyVars>>

SegmentOnWire(sn, bytes) ==
    WirePdu(sn, retxBuffer[sn], TRUE, RetxOffset(sn), bytes - HdrLen,
            FALSE, RetxPolls(sn))

\* Not even the header fits: the handler gives up, after the polling part.
RetransmitNothing(sn, bytes) ==
    /\ retxBufferSize > 0
    /\ FirstForRetx(sn)
    /\ ~RetxFits(sn, bytes)
    /\ bytes < HdrLen
    /\ Poll(RetxPolls(sn), Dec(vtS))
    /\ UNCHANGED <<txonBufferSize, vtA, vtS, bufferVars, retxSegBuffer, historyVars>>

\* How many bytes of the queue go into the data field of a new PDU.  The exact
\* number depends on where the SDUs end: length indicators take room, an SDU
\* above 2047 bytes ends the data field, and so does one that leaves 2 bytes.
NewLens(bytes) == {len \in 1 .. txonBufferSize : len <= bytes - HdrLen}
NewPdu(len) == [id |-> Len(sent) + 1, len |-> len]

TransmitNew(bytes, len) ==
    /\ retxBufferSize = 0
    /\ txonBufferSize > 0
    /\ bytes >= MinDataOpp
    /\ ~WindowStalled
    /\ len \in NewLens(bytes)
    /\ Poll(TRUE, vtS)
    /\ txonBufferSize' = txonBufferSize - len
    /\ txedBuffer' = [txedBuffer EXCEPT ![vtS] = NewPdu(len)]
    /\ txedBufferSize' = txedBufferSize + PduSize(NewPdu(len))
    /\ vtS' = Inc(vtS)
    /\ sent' = Append(sent, len)
    /\ UNCHANGED <<vtA, retxBuffer, retxBufferSize, retxSegBuffer, accepted>>

NewOnWire(len) == WirePdu(vtS, NewPdu(len), FALSE, 0, len, TRUE, TRUE)

(***************************************************************************)
(* DoReceivePdu, control PDU: the loop over VT(A) <= sn < ACK_SN, stopped  *)
(* at VT(S).  A NACKed PDU is moved to the retxBuffer, any other one is    *)
(* acknowledged, and VT(A) moves to the first NACKed SN or to the end of   *)
(* the loop.                                                               *)
(***************************************************************************)
Reported(status, sn) == InFlight(sn) /\ Rel(sn, vtA) < Rel(status.ack, vtA)
Nacked(status, sn)   == Reported(status, sn) /\ sn \in status.nacks
Acked(status, sn)    == Reported(status, sn) /\ sn \notin status.nacks

\* Faulty variant: VT(A) moves only when nothing is NACKed.
FirstNotAckedUnlessNack(status, first) ==
    first = IF \E sn \in SN : Nacked(status, sn) THEN vtA
            ELSE IF Rel(status.ack, vtA) < Rel(vtS, vtA) THEN status.ack ELSE vtS

\* first is the first SN from VT(A) on that is not acknowledged.
FirstNotAcked(status, first) ==
    \E k \in 0 .. WindowSize :
        /\ \A i \in 0 .. k - 1 : Acked(status, Plus(vtA, i))
        /\ ~Acked(status, Plus(vtA, k))
        /\ first = Plus(vtA, k)

\* Faulty variant: what is acknowledged while it waits for its retransmission is
\* still counted.
RetxBytesAfterUncounted(moved, acked) == retxBufferSize + BytesIn(txedBuffer, moved)

RetxBytesAfter(moved, acked) ==
    retxBufferSize + BytesIn(txedBuffer, moved) - BytesIn(retxBuffer, acked)

ReceiveStatus(status) ==
    LET moved == {sn \in SN : Nacked(status, sn) /\ txedBuffer[sn] # NoPdu}
        acked == {sn \in SN : Acked(status, sn)}
    IN  /\ txedBuffer' = [sn \in SN |->
                            IF sn \in moved \cup acked THEN NoPdu ELSE txedBuffer[sn]]
        /\ retxBuffer' = [sn \in SN |->
                            IF sn \in moved THEN txedBuffer[sn]
                            ELSE IF sn \in acked THEN NoPdu ELSE retxBuffer[sn]]
        /\ retxSegBuffer' = [sn \in SN |->
                            IF sn \in acked /\ retxBuffer[sn] # NoPdu
                              THEN NoSeg ELSE retxSegBuffer[sn]]
        /\ txedBufferSize' = txedBufferSize - BytesIn(txedBuffer, moved \cup acked)
        /\ retxBufferSize' = RetxBytesAfter(moved, acked)
        /\ vtA' \in SN /\ FirstNotAcked(status, vtA')
        /\ pollRetransmitTimer' = (pollRetransmitTimer /\ ~Reported(status, pollSn))
        /\ UNCHANGED <<txonBufferSize, vtS, pollSn, pollRetransmitTimerJustExpired,
                       historyVars>>

(***************************************************************************)
(* ExpirePollRetransmitTimer: when there is nothing else to send, or       *)
(* nothing else may be sent, every unanswered PDU is sent again, so that   *)
(* one of them can poll.                                                   *)
(***************************************************************************)
ExpirePollRetransmitTimer ==
    LET moved == IF (txonBufferSize = 0 /\ retxBufferSize = 0) \/ WindowStalled
                   THEN {sn \in SN : InFlight(sn) /\ txedBuffer[sn] # NoPdu}
                   ELSE {}
    IN  /\ pollRetransmitTimer
        /\ pollRetransmitTimer' = FALSE
        /\ pollRetransmitTimerJustExpired' = TRUE
        /\ retxBuffer' = [sn \in SN |->
                            IF sn \in moved THEN txedBuffer[sn] ELSE retxBuffer[sn]]
        /\ txedBuffer' = [sn \in SN |->
                            IF sn \in moved THEN NoPdu ELSE txedBuffer[sn]]
        /\ retxBufferSize' = retxBufferSize + BytesIn(txedBuffer, moved)
        /\ txedBufferSize' = txedBufferSize - BytesIn(txedBuffer, moved)
        /\ UNCHANGED <<txonBufferSize, vtA, vtS, retxSegBuffer, pollSn, historyVars>>

(***************************************************************************)
(* The transmitting side in an environment that sends it any STATUS PDU.   *)
(***************************************************************************)
TxNext ==
    \/ \E size \in SduSizes : TransmitPdcpPdu(size)
    \/ \E bytes \in OppSizes :
          \/ \E len \in NewLens(bytes) : TransmitNew(bytes, len)
          \/ \E sn \in SN : \/ RetransmitRest(sn, bytes)
                            \/ RetransmitSegment(sn, bytes)
                            \/ RetransmitNothing(sn, bytes)
    \/ \E s \in StatusPdu : ReceiveStatus(s)
    \/ ExpirePollRetransmitTimer

TxSpec == TxInit /\ [][TxNext]_txVars

(***************************************************************************)
(* Properties of the transmitting side.                                    *)
(***************************************************************************)

\* Types of the transmitting side, the byte counters apart (see SizesExact).
TxTypeOK ==
    /\ txonBufferSize \in Nat /\ accepted \in Nat
    /\ vtA \in SN /\ vtS \in SN /\ pollSn \in SN
    /\ txedBuffer \in [SN -> Pdu] /\ retxBuffer \in [SN -> Pdu]
    /\ retxSegBuffer \in [SN -> Nat \cup {NoSeg}]
    /\ pollRetransmitTimer \in BOOLEAN
    /\ pollRetransmitTimerJustExpired \in BOOLEAN
    /\ sent \in Seq(Nat)

\* The sender never has more than a window of unanswered SNs (the assertions
\* m_vtS <= m_vtMs in DoNotifyTxOpportunity and ExpirePollRetransmitTimer), a
\* PDU is in one of the two buffers and only while its SN is in the window
\* part already used, and a segment waits only for a PDU of the retxBuffer,
\* which DoNotifyTxOpportunity copies without looking, and is a part of it.
TxBuffersOK ==
    /\ Rel(vtS, vtA) <= WindowSize
    /\ \A sn \in SN :
          /\ txedBuffer[sn] = NoPdu \/ retxBuffer[sn] = NoPdu
          /\ txedBuffer[sn] # NoPdu \/ retxBuffer[sn] # NoPdu => InFlight(sn)
          /\ IsSegment(sn) => /\ retxBuffer[sn] # NoPdu
                              /\ retxSegBuffer[sn] < retxBuffer[sn].len

\* The byte counters, updated by additions and unsigned subtractions in five
\* handlers, are the sizes of the buffers: m_retxBufferSize > 0 is how the
\* code asks whether there is something to retransmit.
SizesExact ==
    /\ txedBufferSize = BytesIn(txedBuffer, SN)
    /\ retxBufferSize = BytesIn(retxBuffer, SN)

\* No step takes VT(A) back, or past VT(S): a STATUS PDU is handled with the VT(A)
\* and VT(S) of the time it arrives, and a stale one has its ACK_SN below VT(A).
VtANeverRetreats == [][Rel(vtA', vtA) <= Rel(vtS, vtA)]_txVars

=============================================================================
