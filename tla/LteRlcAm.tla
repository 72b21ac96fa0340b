------------------------------ MODULE LteRlcAm ------------------------------
(***************************************************************************)
(* One direction of an RLC AM bearer: the transmitting side of one entity, *)
(* the receiving side of its peer, and between them a MAC that loses and   *)
(* reorders PDUs.  The MAC is external to the entity; what is assumed of   *)
(* it is in section "The MAC".                                             *)
(***************************************************************************)
EXTENDS LteRlcAmTx, LteRlcAmRx

CONSTANTS
    DataCap,     \* most data PDUs in flight: the HARQ processes of the MAC
    StatusCap    \* STATUS PDUs that may be in flight when the next is allowed

ASSUME MacAssumption == DataCap \in Nat \ {0} /\ StatusCap \in Nat \ {0}

VARIABLES
    data,        \* data PDUs in flight
    status       \* STATUS PDUs in flight

vars == <<txVars, rxVars, data, status>>

(***************************************************************************)
(* The MAC.  HARQ delivers a PDU at most once, drops it after its last     *)
(* retransmission, and lets a later PDU overtake it.                       *)
(* The life of a PDU in the MAC is bounded, far below the time the sender  *)
(* takes to use WindowSize (512) sequence numbers: whatever is in flight   *)
(* when a PDU is built is less than WindowSize older (Young).              *)
(* StatusCap = 1 says that t-StatusProhibit is longer than the life of a   *)
(* STATUS PDU; a larger StatusCap lets STATUS PDUs overtake each other.    *)
(***************************************************************************)
Young(pdu) == (Len(sent) + 1) - pdu.id < WindowSize

Room == Cardinality(data) < DataCap

Init == TxInit /\ RxInit /\ data = {} /\ status = {}

DoTransmitPdcpPdu(size) == TransmitPdcpPdu(size) /\ UNCHANGED <<rxVars, data, status>>

\* A transmission opportunity for the sender.
NotifyRetransmitRest(sn, bytes) ==
    /\ Room
    /\ RetransmitRest(sn, bytes)
    /\ data' = data \cup {RestOnWire(sn)}
    /\ UNCHANGED <<rxVars, status>>

NotifyRetransmitSegment(sn, bytes) ==
    /\ Room
    /\ RetransmitSegment(sn, bytes)
    /\ data' = data \cup {SegmentOnWire(sn, bytes)}
    /\ UNCHANGED <<rxVars, status>>

NotifyRetransmitNothing(sn, bytes) ==
    RetransmitNothing(sn, bytes) /\ UNCHANGED <<rxVars, data, status>>

NotifyTransmitNew(bytes, len) ==
    /\ Room
    /\ \A pdu \in data : Young(pdu)
    /\ TransmitNew(bytes, len)
    /\ data' = data \cup {NewOnWire(len)}
    /\ UNCHANGED <<rxVars, status>>

DoNotifyTxOpportunity(bytes) ==
    \/ \E len \in NewLens(bytes) : NotifyTransmitNew(bytes, len)
    \/ \E sn \in SN : \/ NotifyRetransmitRest(sn, bytes)
                      \/ NotifyRetransmitSegment(sn, bytes)
                      \/ NotifyRetransmitNothing(sn, bytes)

\* A transmission opportunity for the receiver, which has only STATUS PDUs.
NotifyTransmitStatus ==
    /\ TransmitStatus
    /\ \E cap \in NackCaps, ack \in SN :
          /\ IsAckSn(ack, cap)
          /\ status' = status \cup {[ack |-> ack, nacks |-> StatusNacks(cap)]}
    /\ UNCHANGED <<txVars, data>>

DoReceiveData(sn) ==
    \E pdu \in data :
        /\ pdu.sn = sn
        /\ ReceiveData(pdu)
        /\ data' = data \ {pdu}
        /\ UNCHANGED <<txVars, status>>

DoReceiveStatus ==
    \E s \in status :
        /\ ReceiveStatus(s)
        /\ status' = status \ {s}
        /\ UNCHANGED <<rxVars, data>>

LoseData ==
    /\ \E pdu \in data : data' = data \ {pdu}
    /\ UNCHANGED <<txVars, rxVars, status>>

LoseStatus ==
    /\ \E s \in status : status' = status \ {s}
    /\ UNCHANGED <<txVars, rxVars, data>>

PollRetransmitTimeout == ExpirePollRetransmitTimer /\ UNCHANGED <<rxVars, data, status>>

ReorderingTimeout == ExpireReorderingTimer /\ UNCHANGED <<txVars, data, status>>

StatusProhibitTimeout ==
    /\ Cardinality(status) < StatusCap
    /\ ExpireStatusProhibitTimer
    /\ UNCHANGED <<txVars, data, status>>

Next ==
    \/ \E size \in SduSizes : DoTransmitPdcpPdu(size)
    \/ \E bytes \in OppSizes : DoNotifyTxOpportunity(bytes)
    \/ NotifyTransmitStatus
    \/ \E sn \in SN : DoReceiveData(sn)
    \/ DoReceiveStatus
    \/ LoseData
    \/ LoseStatus
    \/ PollRetransmitTimeout
    \/ ReorderingTimeout
    \/ StatusProhibitTimeout

Spec == Init /\ [][Next]_vars

(***************************************************************************)
(* Fairness.  The MAC keeps giving both entities opportunities (LteTestMac *)
(* in RANDOM_MODE reschedules SendTxOpportunity for ever); a timer that    *)
(* runs expires, because the simulator executes every event; and a PDU     *)
(* with a given SN, or a STATUS PDU, that is sent again and again gets     *)
(* through again and again, because losses are independent of each other.  *)
(***************************************************************************)
Fairness ==
    /\ WF_vars(\E bytes \in OppSizes : DoNotifyTxOpportunity(bytes))
    /\ WF_vars(NotifyTransmitStatus)
    /\ WF_vars(PollRetransmitTimeout)
    /\ WF_vars(ReorderingTimeout)
    /\ WF_vars(StatusProhibitTimeout)
    /\ SF_vars(DoReceiveStatus)
    /\ \A sn \in SN : SF_vars(DoReceiveData(sn))

FairSpec == Spec /\ Fairness

(***************************************************************************)
(* Properties.                                                             *)
(***************************************************************************)

\* Types.
TypeOK ==
    /\ TxTypeOK /\ RxTypeOK
    /\ data \subseteq WireSet
    /\ status \subseteq StatusPdu

\* The payloads are delivered in the order they were built, each once, each
\* whole, whatever was lost, repeated, overtaken or cut into segments.
InOrderExactlyOnce ==
    /\ Len(delivered) <= Len(sent)
    /\ \A i \in DOMAIN delivered : delivered[i] = [id |-> i, len |-> sent[i]]

Buffered(id)  == \E sn \in SN : txedBuffer[sn].id = id \/ retxBuffer[sn].id = id
HeldByRx(id)  == id <= Len(delivered) \/ \E sn \in SN : /\ rxonBuffer[sn].id = id
                                                         /\ rxonBuffer[sn].complete

\* The sender forgets a PDU only when the receiver has all of it.
NothingForgotten == \A id \in 1 .. Len(sent) : Buffered(id) \/ HeldByRx(id)

\* While some SN is unanswered VT(A) is in a buffer: DoReportBufferStatus reads
\* the PDU of VT(A) from the one or the other without looking.
HolBuffered ==
    vtA # vtS => txedBuffer[vtA] # NoPdu \/ retxBuffer[vtA] # NoPdu

\* A STATUS PDU that may arrive NACKs only PDUs the sender still has
\* (NS_ASSERT (m_retxBuffer.at (seqNumberValue).m_pdu != 0) in DoReceivePdu).
\* It fails when STATUS PDUs overtake each other: see the README.
NackedIsBuffered ==
    \A s \in status : \A sn \in SN :
        Nacked(s, sn) => txedBuffer[sn] # NoPdu \/ retxBuffer[sn] # NoPdu

\* VT(A) <= VR(R) <= VR(H) <= VT(S), as numbers of PDUs.
WindowsNested ==
    /\ Len(sent) - Rel(vtS, vtA) <= Len(delivered)
    /\ Len(delivered) + Rel(vrH, vrR) <= Len(sent)

\* As long as the sender waits for an answer somebody is about to act.
NoSilentStall ==
    \/ vtA = vtS
    \/ txonBufferSize > 0 /\ ~WindowStalled
    \/ retxBufferSize > 0
    \/ pollRetransmitTimer \/ reorderingTimer \/ statusPduRequested
    \/ data # {} \/ status # {}

\* A poll is due and no PDU is left to carry it: t-PollRetransmit expired while
\* PDUs waited for their retransmission, so that it moved nothing, and those were
\* acknowledged before they were sent again.
PollWithoutPdu ==
    /\ pollRetransmitTimerJustExpired /\ ~pollRetransmitTimer
    /\ txonBufferSize = 0 /\ retxBufferSize = 0

\* With whole PDUs, that is the only way in which the sender can be left waiting
\* for an answer nobody is going to send (it takes a window of 4 or more).
SilentOnlyIfPollDue == NoSilentStall \/ PollWithoutPdu

\* The sender learns that everything was delivered, so that nothing is left in
\* its buffers, or is left with a poll that no PDU carries.
AllAcknowledged == []<>(txonBufferSize = 0 /\ (vtA = vtS \/ PollWithoutPdu))

\* A whole PDU inside the window, when it arrives, leaves its SN complete
\* (comment of 5.1.3.2.2 in DoReceivePdu: "place the received RLC data PDU in
\* the reception buffer", "discard the duplicate byte segments").  It fails: see
\* the README.
WholePduCompletes ==
    \A pdu \in data :
        ~pdu.segment /\ IsInsideReceivingWindow(vrR, pdu.sn)
          => Placed(rxonBuffer[pdu.sn], pdu).complete

(***************************************************************************)
(* What the bearer promises to PDCP.                                       *)
(***************************************************************************)
Service == INSTANCE LteRlcAmService WITH
    waiting <- txonBufferSize,
    stalled <- PollWithoutPdu

\* The bearer implements the reliable, ordered channel of LteRlcAmService.
ImplementsService == Service!Spec

=============================================================================
