----------------------------- MODULE LteRlcAmRx -----------------------------
(***************************************************************************)
(* The receiving side of an RLC AM entity (class LteRlcAm): the receiving  *)
(* window, the reception buffer with partially received PDUs, t-Reordering,*)
(* and the construction of STATUS PDUs.                                    *)
(*                                                                         *)
(* Delivery to the upper layer is recorded as the payload handed to        *)
(* ReassembleAndDeliver; what that makes of the SDUs is not modelled here. *)
(***************************************************************************)
EXTENDS SequenceNumber10, Sequences, FiniteSets

CONSTANT
    NackCaps       \* how many NACKs fit in the opportunities for a STATUS PDU

ASSUME RxAssumption == NackCaps \subseteq Nat \ {0}

VARIABLES
    vrR, vrX, vrMs, vrH,   \* VR(R), VR(X), VR(MS), VR(H); VR(MR) is VR(R) + WindowSize
    rxonBuffer,            \* m_rxonBuffer
    reorderingTimer,       \* is t-Reordering running
    statusPduRequested,
    statusProhibitTimer,   \* is t-StatusProhibit running
    delivered              \* history: the payloads handed to ReassembleAndDeliver

rxVars == <<vrR, vrX, vrMs, vrH, rxonBuffer, reorderingTimer,
            statusPduRequested, statusProhibitTimer, delivered>>

\* An entry of the reception buffer: the bytes 0 .. len - 1 of the data field
\* of PDU id were received; complete is m_pduComplete.
RxEntry == [id : Nat, len : Nat, complete : BOOLEAN]
NoEntry == [id |-> 0, len |-> 0, complete |-> FALSE]

WireSet == [sn : SN, id : Nat, segment : BOOLEAN, so : Nat, len : Nat,
            last : BOOLEAN, poll : BOOLEAN]

RxInit ==
    /\ vrR = 0 /\ vrX = 0 /\ vrMs = 0 /\ vrH = 0
    /\ rxonBuffer = [sn \in SN |-> NoEntry]
    /\ reorderingTimer = FALSE
    /\ statusPduRequested = FALSE
    /\ statusProhibitTimer = FALSE
    /\ delivered = <<>>

\* Faulty variant: VR(MR) is taken for an SN inside the window.
IsInsideReceivingWindowOrAt(base, sn) == Rel(sn, base) <= WindowSize

IsInsideReceivingWindow(base, sn) == Rel(sn, base) < WindowSize

\* first is the first SN from sn on whose PDU is not completely received.
FirstIncomplete(buffer, sn, first) ==
    \E n \in 0 .. WindowSize :
        /\ first = Plus(sn, n)
        /\ ~buffer[first].complete
        /\ \A i \in 0 .. n - 1 : buffer[Plus(sn, i)].complete

(***************************************************************************)
(* DoReceivePdu, data PDU.                                                 *)
(***************************************************************************)

\* Faulty variant: the offset of a segment is not looked at.
PlacedUnordered(entry, pdu) ==
    IF entry = NoEntry /\ pdu.so = 0
      THEN [id |-> pdu.id, len |-> pdu.len, complete |-> ~pdu.segment]
    ELSE IF entry # NoEntry /\ (~pdu.segment \/ entry.complete)
      THEN entry
    ELSE IF entry # NoEntry
      THEN [id |-> entry.id, len |-> entry.len + pdu.len, complete |-> pdu.last]
    ELSE NoEntry

\* What the reception buffer holds for the SN of pdu once pdu is placed.  A
\* PDU whose first byte is missing is not kept; a segment that does not
\* continue what is there makes the receiver forget both; for a whole PDU
\* that meets an entry there is no branch.
Placed(entry, pdu) ==
    IF entry = NoEntry /\ pdu.so = 0
      THEN [id |-> pdu.id, len |-> pdu.len, complete |-> ~pdu.segment]
    ELSE IF entry # NoEntry /\ (~pdu.segment \/ entry.complete)
      THEN entry
    ELSE IF entry # NoEntry /\ pdu.so = entry.len
      THEN [id |-> entry.id, len |-> entry.len + pdu.len, complete |-> pdu.last]
    ELSE NoEntry

\* The payloads of the SNs from, from + 1, ... to - 1 in this order.
Payloads(buffer, from, to) ==
    [i \in 1 .. Rel(to, from) |->
        LET entry == buffer[Plus(from, i - 1)]
        IN  [id |-> entry.id, len |-> entry.len]]

\* Faulty variant: the poll of a PDU outside the window is not answered.
DiscardPduSilently(pdu) == ~IsInsideReceivingWindow(vrR, pdu.sn) /\ UNCHANGED rxVars

\* A PDU outside the window is dropped, but its poll is answered.
DiscardPdu(pdu) ==
    /\ ~IsInsideReceivingWindow(vrR, pdu.sn)
    /\ statusPduRequested' = (statusPduRequested \/ pdu.poll)
    /\ UNCHANGED <<vrR, vrX, vrMs, vrH, rxonBuffer, reorderingTimer,
                   statusProhibitTimer, delivered>>

\* Faulty variant: t-Reordering is never stopped.
UpdateReorderingTimerUnstopped(r, h) ==
    LET starts == ~reorderingTimer /\ Rel(h, r) > 0
    IN  /\ reorderingTimer' = (reorderingTimer \/ starts)
        /\ vrX' = IF starts THEN h ELSE vrX

\* Faulty variant: VR(X) becomes the SN after VR(R).
UpdateReorderingTimerLow(r, h) ==
    LET running == /\ reorderingTimer
                   /\ vrX # r
                   /\ IsInsideReceivingWindow(r, vrX) \/ vrX = Plus(r, WindowSize)
        starts  == ~running /\ Rel(h, r) > 0
    IN  /\ reorderingTimer' = (running \/ starts)
        /\ vrX' = IF starts THEN Inc(r) ELSE vrX

\* The end of the handler: t-Reordering is stopped when it has nothing left to
\* wait for, and started when it is not running and there is a gap.  r and h
\* are the new VR(R) and VR(H).
UpdateReorderingTimer(r, h) ==
    LET running == /\ reorderingTimer
                   /\ vrX # r
                   /\ IsInsideReceivingWindow(r, vrX) \/ vrX = Plus(r, WindowSize)
        starts  == ~running /\ Rel(h, r) > 0
    IN  /\ reorderingTimer' = (running \/ starts)
        /\ vrX' = IF starts THEN h ELSE vrX

PlacePdu(pdu) ==
    LET buffer == [rxonBuffer EXCEPT ![pdu.sn] = Placed(@, pdu)]
        h      == IF Rel(pdu.sn, vrR) >= Rel(vrH, vrR) THEN Inc(pdu.sn) ELSE vrH
    IN  /\ IsInsideReceivingWindow(vrR, pdu.sn)
        /\ statusPduRequested' = (statusPduRequested \/ pdu.poll)
        /\ vrH' = h
        /\ vrMs' \in SN /\ FirstIncomplete(buffer, vrMs, vrMs')
        /\ vrR' \in SN
        /\ IF pdu.sn = vrR THEN FirstIncomplete(buffer, vrR, vrR') ELSE vrR' = vrR
        /\ delivered' = delivered \o Payloads(buffer, vrR, vrR')
        /\ rxonBuffer' = [sn \in SN |->
                            IF Rel(sn, vrR) < Rel(vrR', vrR) THEN NoEntry ELSE buffer[sn]]
        /\ UpdateReorderingTimer(vrR', h)
        /\ UNCHANGED statusProhibitTimer

ReceiveData(pdu) == DiscardPdu(pdu) \/ PlacePdu(pdu)

(***************************************************************************)
(* ExpireReorderingTimer: the gap below VR(X) is given up as delayed and   *)
(* will be reported as missing.                                            *)
(***************************************************************************)
ExpireReorderingTimer ==
    /\ reorderingTimer
    /\ vrMs' \in SN /\ FirstIncomplete(rxonBuffer, vrX, vrMs')
    /\ LET starts == Rel(vrH, vrR) > Rel(vrMs', vrR)
       IN  /\ reorderingTimer' = starts
           /\ vrX' = IF starts THEN vrH ELSE vrX
    /\ statusPduRequested' = TRUE
    /\ UNCHANGED <<vrR, vrH, rxonBuffer, statusProhibitTimer, delivered>>

(***************************************************************************)
(* DoNotifyTxOpportunity, STATUS PDU: the missing SNs from VR(R) up to     *)
(* VR(MS), as many as fit, and the first SN missing but not reported as    *)
(* such.                                                                   *)
(***************************************************************************)
Missing == {sn \in SN : Rel(sn, vrR) < Rel(vrMs, vrR) /\ ~rxonBuffer[sn].complete}

MissingBelow(sn) == {m \in Missing : Rel(m, vrR) < Rel(sn, vrR)}

StatusNacks(cap) == {sn \in Missing : Cardinality(MissingBelow(sn)) < cap}

\* Faulty variant: VR(H) instead of the first SN not reported as missing.
IsAckSnHighest(ack, cap) == ack = vrH

\* ack is the ACK_SN next to at most cap NACKs: everything missing below it is
\* NACKed, and it is missing itself unless it is VR(MS).
IsAckSn(ack, cap) ==
    /\ ack \in Missing \cup {vrMs}
    /\ MissingBelow(ack) = StatusNacks(cap)

TransmitStatus ==
    /\ statusPduRequested /\ ~statusProhibitTimer
    /\ statusPduRequested' = FALSE
    /\ statusProhibitTimer' = TRUE
    /\ UNCHANGED <<vrR, vrX, vrMs, vrH, rxonBuffer, reorderingTimer, delivered>>

\* ExpireStatusProhibitTimer does nothing; that the timer no longer runs is
\* what counts.
ExpireStatusProhibitTimer ==
    /\ statusProhibitTimer
    /\ statusProhibitTimer' = FALSE
    /\ UNCHANGED <<vrR, vrX, vrMs, vrH, rxonBuffer, reorderingTimer,
                   statusPduRequested, delivered>>

(***************************************************************************)
(* The receiving side in an environment that sends it any data PDU.        *)
(***************************************************************************)
RxNext ==
    \/ \E pdu \in WireSet : ReceiveData(pdu)
    \/ ExpireReorderingTimer
    \/ TransmitStatus
    \/ ExpireStatusProhibitTimer

RxSpec == RxInit /\ [][RxNext]_rxVars

(***************************************************************************)
(* Properties of the receiving side.                                       *)
(***************************************************************************)

\* Types of the receiving side.
RxTypeOK ==
    /\ vrR \in SN /\ vrX \in SN /\ vrMs \in SN /\ vrH \in SN
    /\ rxonBuffer \in [SN -> RxEntry]
    /\ reorderingTimer \in BOOLEAN
    /\ statusPduRequested \in BOOLEAN /\ statusProhibitTimer \in BOOLEAN
    /\ delivered \in Seq([id : Nat, len : Nat])

\* VR(R) <= VR(MS) <= VR(H) <= VR(MR), nothing is kept outside VR(R) .. VR(H),
\* and the two SNs that wait for a PDU do so because it is not complete.
\* DoReceivePdu moves the four variables one after the other.
RxWindowOK ==
    /\ Rel(vrMs, vrR) <= Rel(vrH, vrR)
    /\ Rel(vrH, vrR) <= WindowSize
    /\ \A sn \in SN : rxonBuffer[sn] # NoEntry => Rel(sn, vrR) < Rel(vrH, vrR)
    /\ ~rxonBuffer[vrR].complete
    /\ ~rxonBuffer[vrMs].complete

\* While t-Reordering runs it waits for a gap: VR(R) < VR(X) <= VR(H), and where
\* VR(MS) is already beyond VR(X) nothing is missing between them.  So when the
\* timer expires, the restart of VR(MS) from VR(X) does not take it back.
ReorderingOK ==
    reorderingTimer =>
        /\ 0 < Rel(vrX, vrR) /\ Rel(vrX, vrR) <= Rel(vrH, vrR)
        /\ \A sn \in SN : Rel(vrX, vrR) <= Rel(sn, vrR) /\ Rel(sn, vrR) < Rel(vrMs, vrR)
                            => rxonBuffer[sn].complete

\* No step takes VR(MS) back: an SN once reported on in STATUS PDUs stays so.
VrMsNeverRetreats == [][Rel(vrMs, vrR) <= Rel(vrMs', vrR)]_rxVars

=============================================================================
