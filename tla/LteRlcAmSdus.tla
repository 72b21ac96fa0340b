---------------------------- MODULE LteRlcAmSdus ----------------------------
(***************************************************************************)
(* The SDUs of an RLC AM bearer: LteRlcAm packs them into PDUs and takes   *)
(* them out at the other end.  What lies between is the channel the bearer *)
(* implements (LteRlcAm!ImplementsService): every PDU arrives, once, in    *)
(* the order of packing.                                                   *)
(***************************************************************************)
EXTENDS LteRlcFraming

CONSTANTS
    OppSizes,          \* bytes of the transmission opportunities the MAC gives
    MinDataOpp,        \* 7 in the code
    SduSizes,          \* bytes of the PDCP PDUs
    MaxTxBufferSize,   \* m_maxTxBufferSize
    MaxAccepted        \* bound of the model: PDCP PDUs accepted in a behaviour

ASSUME AmSdusAssumption ==
    /\ OppSizes \subseteq Nat /\ SduSizes \subseteq Nat \ {0}
    /\ MinDataOpp \in Nat /\ MinDataOpp > 4
    /\ MaxTxBufferSize \in Nat /\ MaxAccepted \in Nat
    /\ ~SkipsUnexpectedRest

VARIABLES
    txonBuffer,   \* m_txonBuffer, pieces of SDUs
    vtS,          \* VT(S)
    sizes,        \* history: the sizes of the SDUs accepted
    channel,      \* the PDUs packed and not taken out yet
    lastPdu,      \* history: the bytes of the last PDU packed and of its opportunity
    reassembly    \* state of ReassembleAndDeliver

vars == <<txonBuffer, vtS, sizes, channel, lastPdu, reassembly>>

FixedHeader == 4
Bytes(queue) == SizeOf(queue, Len(queue))

\* The length the header keeps of itself: an octet and a half for each length
\* indicator, rounded up.
HeaderLength(indicators) ==
    FixedHeader + 2 * ((indicators + 1) \div 2) + indicators \div 2

Init ==
    /\ txonBuffer = <<>> /\ vtS = 0 /\ sizes = <<>>
    /\ channel = <<>>
    /\ lastPdu = [size |-> 0, opportunity |-> 0]
    /\ reassembly = NothingReassembled

DoTransmitPdcpPdu(size) ==
    /\ Len(sizes) < MaxAccepted
    /\ Bytes(txonBuffer) + size <= MaxTxBufferSize
    /\ txonBuffer' = Append(txonBuffer, FullSdu(Len(sizes) + 1, size))
    /\ sizes' = Append(sizes, size)
    /\ UNCHANGED <<vtS, channel, lastPdu, reassembly>>

TransmitNew(bytes) ==
    LET field == DataField(txonBuffer, bytes - FixedHeader)
        size  == HeaderLength(Len(field) - 1) + Bytes(field)
    IN  /\ bytes >= MinDataOpp
        /\ txonBuffer # <<>>
        /\ channel' = Append(channel, [sn |-> vtS, field |-> field])
        /\ txonBuffer' = QueueAfter(txonBuffer, bytes - FixedHeader)
        /\ vtS' = Inc(vtS)
        /\ lastPdu' = [size |-> size, opportunity |-> bytes]
        /\ UNCHANGED <<sizes, reassembly>>

Receive ==
    /\ channel # <<>>
    /\ channel' = Tail(channel)
    /\ reassembly' = ReassembleAndDeliver(reassembly, Head(channel))
    /\ UNCHANGED <<txonBuffer, vtS, sizes, lastPdu>>

Next ==
    \/ \E size \in SduSizes : DoTransmitPdcpPdu(size)
    \/ \E bytes \in OppSizes : TransmitNew(bytes)
    \/ Receive

Spec == Init /\ [][Next]_vars

(***************************************************************************)
(* Properties.                                                             *)
(***************************************************************************)

\* Every SDU is handed to PDCP whole and in the order of acceptance, and what was
\* not handed over yet is still on its way: no byte is lost between two PDUs.
EverySduInOrder ==
    LET delivered == reassembly.delivered
        onTheWay  == txonBuffer # <<>> \/ channel # <<>>
    IN  /\ \A i \in DOMAIN delivered :
              delivered[i][1].sdu = i /\ IsWhole(delivered[i], sizes)
        /\ Len(delivered) = Len(sizes) \/ onTheWay

\* A PDU with its length indicators fits in its opportunity.  This bounds the
\* number of bytes that LteRlcAmTx!NewLens lets a PDU take from the queue.
PduFits == lastPdu.size <= lastPdu.opportunity

=============================================================================
