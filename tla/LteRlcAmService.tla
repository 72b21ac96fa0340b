--------------------------- MODULE LteRlcAmService ---------------------------
(***************************************************************************)
(* What an RLC AM bearer promises to PDCP: bytes are accepted into a       *)
(* bounded queue, packed into PDUs, and handed to the peer's PDCP in the   *)
(* order of packing, each PDU once and whole; and everything accepted is   *)
(* handed over in the end, unless the sender is stalled.                   *)
(***************************************************************************)
EXTENDS Naturals, Sequences

CONSTANTS
    SduSizes,         \* bytes of the PDCP PDUs
    MaxTxBufferSize   \* bytes that may wait

VARIABLES
    waiting,     \* bytes accepted and not packed yet
    accepted,    \* bytes accepted so far
    sent,        \* the PDUs packed: the size of each
    delivered,   \* the PDUs handed over: number and size of each
    stalled      \* the sender waits for an answer that will not come

vars == <<waiting, accepted, sent, delivered>>

Init ==
    /\ waiting = 0 /\ accepted = 0
    /\ sent = <<>> /\ delivered = <<>>

\* A PDCP PDU is taken when it fits (and dropped otherwise).
Accept ==
    \E size \in SduSizes :
        /\ waiting + size <= MaxTxBufferSize
        /\ waiting' = waiting + size
        /\ accepted' = accepted + size
        /\ UNCHANGED <<sent, delivered>>

\* Some of the waiting bytes become the next PDU.
Pack ==
    \E len \in 1 .. waiting :
        /\ sent' = Append(sent, len)
        /\ waiting' = waiting - len
        /\ UNCHANGED <<accepted, delivered>>

\* The next few PDUs are handed over.
Deliver ==
    \E upTo \in Len(delivered) + 1 .. Len(sent) :
        /\ delivered' = [i \in 1 .. upTo |->
                            IF i <= Len(delivered) THEN delivered[i]
                                                   ELSE [id |-> i, len |-> sent[i]]]
        /\ UNCHANGED <<waiting, accepted, sent>>

Next == Accept \/ Pack \/ Deliver

Spec == Init /\ [][Next]_vars /\ WF_vars(Pack) /\ WF_vars(Deliver /\ ~stalled)

=============================================================================
