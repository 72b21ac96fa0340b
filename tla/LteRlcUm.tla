------------------------------ MODULE LteRlcUm ------------------------------
(***************************************************************************)
(* One direction of an RLC UM bearer (class LteRlcUm): the transmitting    *)
(* side of one entity, the receiving side of its peer, and between them a  *)
(* MAC that loses and reorders PDUs.  Nothing is ever sent again; what     *)
(* arrives is put in order, with a timer for what does not, and taken      *)
(* apart into SDUs.                                                        *)
(***************************************************************************)
EXTENDS LteRlcFraming, FiniteSets

CONSTANTS
    OppSizes,          \* bytes of the transmission opportunities the MAC gives
    SduSizes,          \* bytes of the PDCP PDUs
    MaxTxBufferSize,   \* m_maxTxBufferSize
    MaxAccepted,       \* bound of the model: PDCP PDUs accepted in a behaviour
    DataCap,           \* most PDUs in flight: the HARQ processes of the MAC
    ReorderingIsPrompt \* see Timely

ASSUME UmAssumption ==
    /\ OppSizes \subseteq Nat /\ SduSizes \subseteq Nat \ {0}
    /\ MaxTxBufferSize \in Nat /\ MaxAccepted \in Nat /\ DataCap \in Nat \ {0}
    /\ ReorderingIsPrompt \in BOOLEAN
    /\ SkipsUnexpectedRest

VARIABLES
    txBuffer,          \* m_txBuffer, pieces of SDUs
    sequenceNumber,    \* m_sequenceNumber, the SN of the next PDU
    sizes,             \* history: the sizes of the SDUs accepted
    built,             \* history: the number of PDUs built
    data,              \* PDUs in flight
    vrUr, vrUx, vrUh,  \* VR(UR), VR(UX), VR(UH)
    rxBuffer,          \* m_rxBuffer: a set of PDUs, at most one for each SN
    reorderingTimer,   \* is t-Reordering running
    reassembly,        \* state of ReassembleAndDeliver
    dropped            \* history: the SDUs of which a PDU was lost or discarded

txVars == <<txBuffer, sequenceNumber, sizes, built>>
rxVars == <<vrUr, vrUx, vrUh, rxBuffer, reorderingTimer, reassembly>>
vars == <<txVars, data, rxVars, dropped>>

FixedHeader == 2
SdusOf(pdu) == {pdu.field[i].sdu : i \in DOMAIN pdu.field}

Init ==
    /\ txBuffer = <<>> /\ sequenceNumber = 0
    /\ sizes = <<>> /\ built = 0
    /\ data = {}
    /\ vrUr = 0 /\ vrUx = 0 /\ vrUh = 0
    /\ rxBuffer = {}
    /\ reorderingTimer = FALSE
    /\ reassembly = NothingReassembled
    /\ dropped = {}

(***************************************************************************)
(* The transmitting side.                                                  *)
(***************************************************************************)
DoTransmitPdcpPdu(size) ==
    /\ Len(sizes) < MaxAccepted
    /\ SizeOf(txBuffer, Len(txBuffer)) + size <= MaxTxBufferSize
    /\ txBuffer' = Append(txBuffer, FullSdu(Len(sizes) + 1, size))
    /\ sizes' = Append(sizes, size)
    /\ UNCHANGED <<sequenceNumber, built, data, rxVars, dropped>>

\* The MAC: a PDU in flight is less than WindowSize older than the next one.
Young(pdu) == (built + 1) - pdu.n < WindowSize

\* The receiver, which has only t-Reordering to give up a gap, does so before
\* the sender is WindowSize PDUs ahead of the gap, and fewer than WindowSize
\* PDUs are lost in a row.
Timely == ReorderingIsPrompt => Rel(sequenceNumber, vrUr) < WindowSize

DoNotifyTxOpportunity(bytes) ==
    /\ Cardinality(data) < DataCap
    /\ Timely /\ \A pdu \in data : Young(pdu)
    /\ bytes > FixedHeader
    /\ txBuffer # <<>>
    /\ data' = data \cup {[n |-> built + 1, sn |-> sequenceNumber,
                           field |-> DataField(txBuffer, bytes - FixedHeader)]}
    /\ txBuffer' = QueueAfter(txBuffer, bytes - FixedHeader)
    /\ sequenceNumber' = Inc(sequenceNumber)
    /\ built' = built + 1
    /\ UNCHANGED <<sizes, rxVars, dropped>>

LosePdu ==
    \E pdu \in data :
        /\ data' = data \ {pdu}
        /\ dropped' = dropped \cup SdusOf(pdu)
        /\ UNCHANGED <<txVars, rxVars>>

(***************************************************************************)
(* The receiving side.  All comparisons are relative to the lower end of   *)
(* the reordering window, VR(UH) - UM_Window_Size.                         *)
(***************************************************************************)
Base(uh) == Rel(uh, WindowSize)
IsInsideReorderingWindow(uh, sn) == Rel(sn, Base(uh)) < WindowSize
Received(buffer, sn) == \E pdu \in buffer : pdu.sn = sn

\* The PDUs of a set in the order of their SNs above base, or of their values.
InOrder(pdus, base) ==
    CHOOSE seq \in SetToSeqs(pdus) :
        \A i, j \in DOMAIN seq : i < j => Rel(seq[i].sn, base) <= Rel(seq[j].sn, base)
ByValue(pdus) == InOrder(pdus, 0)

\* ReassembleOutsideWindow looks at the PDUs by increasing value of the SN and
\* stops at the first one inside the window.
OutsideWindow(buffer, uh) ==
    {pdu \in buffer : \A p \in buffer :
        p.sn <= pdu.sn => ~IsInsideReorderingWindow(uh, p.sn)}

\* ReassembleSnInterval
SnInterval(buffer, low, high, base) ==
    {pdu \in buffer : Rel(low, base) <= Rel(pdu.sn, base) /\ Rel(pdu.sn, base) < Rel(high, base)}

\* Faulty variant: an SN already reassembled is not recognised.
IsDiscardedSeldom(pdu) ==
    /\ Rel(vrUr, Base(vrUh)) < Rel(pdu.sn, Base(vrUh))
    /\ Rel(pdu.sn, Base(vrUh)) < WindowSize
    /\ Received(rxBuffer, pdu.sn)

IsDiscarded(pdu) ==
    \/ /\ Rel(vrUr, Base(vrUh)) < Rel(pdu.sn, Base(vrUh))
       /\ Rel(pdu.sn, Base(vrUh)) < WindowSize
       /\ Received(rxBuffer, pdu.sn)
    \/ Rel(pdu.sn, Base(vrUh)) < Rel(vrUr, Base(vrUh))

\* The new VR(UR) when that of ur was received.  The loop counts with a uint16_t,
\* which is never 0 again.
NextMissing(buffer, ur) ==
    LET n == CHOOSE n \in ur + 1 .. Modulus :
                 /\ ~Received(buffer, n)
                 /\ \A m \in ur + 1 .. n - 1 : Received(buffer, m)
    IN  n % Modulus

\* Faulty variant: t-Reordering is not started again for a new gap.
UpdateReorderingTimerOnce(ur, uh) ==
    LET running == reorderingTimer /\ Rel(vrUx, Base(uh)) > Rel(ur, Base(uh))
        starts  == ~reorderingTimer /\ WindowSize > Rel(ur, Base(uh))
    IN  /\ reorderingTimer' = (running \/ starts)
        /\ vrUx' = IF starts THEN uh ELSE vrUx

\* The end of DoReceivePdu.
UpdateReorderingTimer(ur, uh) ==
    LET running == /\ reorderingTimer
                   /\ Rel(vrUx, Base(uh)) > Rel(ur, Base(uh))
                   /\ IsInsideReorderingWindow(uh, vrUx) \/ vrUx = uh
        starts  == ~running /\ WindowSize > Rel(ur, Base(uh))
    IN  /\ reorderingTimer' = (running \/ starts)
        /\ vrUx' = IF starts THEN uh ELSE vrUx

DiscardPdu(pdu) ==
    /\ IsDiscarded(pdu)
    /\ dropped' = dropped \cup SdusOf(pdu)
    /\ UNCHANGED rxVars

PlacePdu(pdu) ==
    LET placed  == {p \in rxBuffer : p.sn # pdu.sn} \cup {pdu}
        moves   == ~IsInsideReorderingWindow(vrUh, pdu.sn)
        uh      == IF moves THEN Inc(pdu.sn) ELSE vrUh
        outside == IF moves THEN OutsideWindow(placed, uh) ELSE {}
        pulled  == moves /\ ~IsInsideReorderingWindow(uh, vrUr)
        low     == IF pulled THEN Base(uh) ELSE vrUr
        base    == IF pulled THEN Base(uh) ELSE Base(vrUh)
        kept    == placed \ outside
        ur      == IF Received(kept, low) THEN NextMissing(kept, low) ELSE low
        inside  == SnInterval(kept, low, ur, base)
    IN  /\ ~IsDiscarded(pdu)
        /\ vrUh' = uh
        /\ vrUr' = ur
        /\ rxBuffer' = kept \ inside
        /\ reassembly' = FoldLeft(ReassembleAndDeliver, reassembly,
                                  ByValue(outside) \o InOrder(inside, base))
        /\ UpdateReorderingTimer(ur, uh)
        /\ UNCHANGED dropped

DoReceivePdu ==
    \E pdu \in data :
        /\ data' = data \ {pdu}
        /\ DiscardPdu(pdu) \/ PlacePdu(pdu)
        /\ UNCHANGED txVars

\* The gap below VR(UX) is given up.
ExpireReorderingTimer ==
    LET k      == CHOOSE k \in 0 .. Modulus :
                      /\ ~Received(rxBuffer, Plus(vrUx, k))
                      /\ \A i \in 0 .. k - 1 : Received(rxBuffer, Plus(vrUx, i))
        ur     == Plus(vrUx, k)
        inside == SnInterval(rxBuffer, vrUr, ur, Base(vrUh))
        starts == WindowSize > Rel(ur, Base(vrUh))
    IN  /\ reorderingTimer
        /\ vrUr' = ur
        /\ rxBuffer' = rxBuffer \ inside
        /\ reassembly' = FoldLeft(ReassembleAndDeliver, reassembly,
                                  InOrder(inside, Base(vrUh)))
        /\ reorderingTimer' = starts
        /\ vrUx' = IF starts THEN vrUh ELSE vrUx
        /\ UNCHANGED <<txVars, data, vrUh, dropped>>

Next ==
    \/ \E size \in SduSizes : DoTransmitPdcpPdu(size)
    \/ \E bytes \in OppSizes : DoNotifyTxOpportunity(bytes)
    \/ LosePdu
    \/ DoReceivePdu
    \/ ExpireReorderingTimer

Spec == Init /\ [][Next]_vars

(***************************************************************************)
(* Properties.                                                             *)
(***************************************************************************)

\* What is handed to PDCP are whole SDUs, in the order they were accepted, none
\* twice, whatever was lost or overtaken and however the SDUs were cut.
WholeSdusInOrder ==
    LET delivered == reassembly.delivered
    IN  /\ \A i \in DOMAIN delivered : IsWhole(delivered[i], sizes)
        /\ \A i, j \in DOMAIN delivered : i < j => delivered[i][1].sdu < delivered[j][1].sdu

\* VR(UR) lies in VR(UH) - UM_Window_Size .. VR(UH), and only SNs from VR(UR) on
\* and inside the window wait in the reception buffer.
WindowOK ==
    /\ Rel(vrUr, Base(vrUh)) <= WindowSize
    /\ \A pdu \in rxBuffer : /\ Rel(vrUr, Base(vrUh)) <= Rel(pdu.sn, Base(vrUh))
                             /\ IsInsideReorderingWindow(vrUh, pdu.sn)

\* No PDU is left behind when the window moves on (comment of 5.1.2.2.3 in
\* DoReceivePdu: "reassemble RLC SDUs from any UMD PDUs with SN that falls outside of
\* the reordering window").  It fails unless gaps are given up in time: see the README.
NothingLeftOutside == \A pdu \in rxBuffer : IsInsideReorderingWindow(vrUh, pdu.sn)

\* A PDU does not wait in the reception buffer without t-Reordering running.
NothingWaitsUntimed == rxBuffer # {} => reorderingTimer

\* When all is quiet an SDU that was not delivered had a PDU that was lost in the
\* MAC or came too late: the reassembly never throws away what it could deliver.
LossExplained ==
    txBuffer = <<>> /\ data = {} /\ ~reorderingTimer
      => \A sdu \in 1 .. Len(sizes) :
            \/ sdu \in dropped
            \/ \E i \in DOMAIN reassembly.delivered : reassembly.delivered[i][1].sdu = sdu

\* VR(UR) was not received (comment of 5.1.2.2.3 in DoReceivePdu: "update VR(UR) to
\* the SN of the first UMD PDU with SN > current VR(UR) that has not been received").
\* It fails: see the README.
UrIsMissing == ~Received(rxBuffer, vrUr)

=============================================================================
