--------------------------- MODULE LteRlcAmHeader ---------------------------
(***************************************************************************)
(* The STATUS PDU of RLC AM (class LteRlcAmHeader): how many NACKs go into *)
(* an opportunity, and the octets they become.                             *)
(*                                                                         *)
(* One behaviour is the construction of one STATUS PDU by                  *)
(* DoNotifyTxOpportunity.  A shift is a division or a multiplication by a  *)
(* power of two; the fields of an octet do not overlap, so | is +.         *)
(*                                                                         *)
(* The loop compares sequence numbers relative to VR(R), and the peer its  *)
(* ACK_SN relative to a VT(A) that moves meanwhile: that the operators of  *)
(* the code do what the models of RLC take them to do is stated here.      *)
(***************************************************************************)
EXTENDS SequenceNumber10Code, SequencesExt

CONSTANTS
    OppBytes,     \* bytes of the opportunities; fewer than 4 are refused
    SomeSNs       \* the sequence numbers that occur

ASSUME HeaderAssumption ==
    /\ OppBytes \subseteq Nat /\ \A bytes \in OppBytes : bytes >= 4
    /\ SomeSNs \subseteq SN

VARIABLES
    bytes,            \* txOpParams.bytes
    vrR,              \* VR(R), the first SN the loop looks at
    m_nackSnList,
    m_headerLength,
    m_ackSn,
    octets            \* the STATUS PDU, once it is made

vars == <<bytes, vrR, m_nackSnList, m_headerLength, m_ackSn, octets>>

\* Shifts within an octet.
Right(x, k) == x \div 2^k
Left(x, k)  == (x * 2^k) % 256

Init ==
    /\ bytes \in OppBytes
    /\ vrR \in SomeSNs
    /\ m_nackSnList = <<>>
    /\ m_headerLength = 2
    /\ m_ackSn = vrR
    /\ octets = <<>>

\* Faulty variant: the first NACK of a pair is counted with one octet.
OneMoreNackWouldFitInShort == m_headerLength <= bytes

OneMoreNackWouldFitIn ==
    IF Len(m_nackSnList) % 2 = 0
      THEN m_headerLength < bytes
      ELSE m_headerLength < bytes - 1

\* The octets a NACK adds to the header, when it is the n-th.
Growth(n) == IF n % 2 = 0 THEN 1 ELSE 2

\* The next missing SN; m_ackSn is the SN the loop has reached.
PushNack(sn) ==
    /\ octets = <<>>
    /\ OneMoreNackWouldFitIn
    /\ Rel(m_ackSn, vrR) <= Rel(sn, vrR) /\ Rel(sn, vrR) < WindowSize
    /\ m_nackSnList' = Append(m_nackSnList, sn)
    /\ m_headerLength' = m_headerLength + Growth(Len(m_nackSnList) + 1)
    /\ m_ackSn' = Inc(sn)
    /\ UNCHANGED <<bytes, vrR, octets>>

(***************************************************************************)
(* Serialize, for a STATUS PDU.  NACKs are written in pairs; nacks[i] is   *)
(* the odd one, whose highest bit is in the octet before the group.        *)
(***************************************************************************)

\* Faulty variant: the highest bit of the second NACK of a pair is masked out.
GroupMasked(nacks, i) ==
    IF i = Len(nacks)
      THEN <<Right(nacks[i], 1) % 256, Left(nacks[i], 7)>>
      ELSE <<Right(nacks[i], 1) % 256,
             Left(nacks[i], 7) + 64 + (Right(nacks[i + 1], 5) % 16),
             Left(nacks[i + 1], 3)
               + IF i + 1 = Len(nacks) THEN 0 ELSE 4 + (Right(nacks[i + 2], 9) % 2)>>

Group(nacks, i) ==
    IF i = Len(nacks)
      THEN <<Right(nacks[i], 1) % 256, Left(nacks[i], 7)>>
      ELSE <<Right(nacks[i], 1) % 256,
             Left(nacks[i], 7) + 64 + (Right(nacks[i + 1], 5) % 32),
             Left(nacks[i + 1], 3)
               + IF i + 1 = Len(nacks) THEN 0 ELSE 4 + (Right(nacks[i + 2], 9) % 2)>>

Serialize(ack, nacks) ==
    <<Right(ack, 6) % 16,
      Left(ack, 2) + IF nacks = <<>> THEN 0 ELSE 2 + (Right(nacks[1], 9) % 2)>>
    \o FlattenSeq([g \in 1 .. (Len(nacks) + 1) \div 2 |-> Group(nacks, 2 * g - 1)])

(***************************************************************************)
(* Deserialize, for a STATUS PDU: a bit after each NACK tells whether      *)
(* another one follows.  The k-th NACK starts in octet From(k).            *)
(***************************************************************************)
From(k) == 2 + 3 * ((k - 1) \div 2) + IF k % 2 = 1 THEN 0 ELSE 2

ReadNack(o, k) ==
    IF k % 2 = 1
      THEN (o[From(k)] % 2) * 512 + o[From(k) + 1] * 2 + Right(o[From(k) + 2], 7)
      ELSE (o[From(k)] % 32) * 32 + Right(o[From(k) + 1], 3)

\* Whether another NACK follows the k-th; k = 0 is the ACK.
MoreNacks(o, k) ==
    IF k = 0 THEN Right(o[2], 1) % 2 = 1
    ELSE IF k % 2 = 1 THEN Right(o[From(k) + 2], 6) % 2 = 1
    ELSE Right(o[From(k) + 1], 2) % 2 = 1

NackCount(o) ==
    CHOOSE n \in 0 .. Len(o) : ~MoreNacks(o, n) /\ \A k \in 0 .. n - 1 : MoreNacks(o, k)

Deserialize(o) ==
    [ack |-> (o[1] % 16) * 64 + Right(o[2], 2),
     nacks |-> [k \in 1 .. NackCount(o) |-> ReadNack(o, k)]]

\* The loop ends, because it reached VR(MS) or because nothing more fits, and
\* the STATUS PDU acknowledges up to some SN not below the last NACK.
Transmit(ack) ==
    /\ octets = <<>>
    /\ Rel(m_ackSn, vrR) <= Rel(ack, vrR) /\ Rel(ack, vrR) <= WindowSize
    /\ m_ackSn' = ack
    /\ octets' = Serialize(ack, m_nackSnList)
    /\ UNCHANGED <<bytes, vrR, m_nackSnList, m_headerLength>>

Next ==
    \/ \E sn \in SomeSNs : PushNack(sn)
    \/ \E ack \in SomeSNs \cup {m_ackSn} : Transmit(ack)

Spec == Init /\ [][Next]_vars

\* The operators of the code are those of SequenceNumber10, which the models of
\* RLC use: the comparisons of the loop, whose base is VR(R), compare distances
\* above the base, although the dividend of the remainder is negative when the
\* SN wrapped and the base did not, and sums and differences wrap once.
OperatorsAgree ==
    /\ \A other \in SN :
           Greater(m_ackSn, other, vrR) <=> Rel(m_ackSn, vrR) > Rel(other, vrR)
    /\ Inc(m_ackSn) = Incremented(m_ackSn)
    /\ Dec(m_ackSn) = Subtracted(m_ackSn, 1)
    /\ \A delta \in 0 .. Modulus : Plus(m_ackSn, delta) = Added(m_ackSn, delta)

\* Moving the base up past neither of two SNs leaves their order as it was: the
\* loop of DoReceivePdu that sets the base of ACK_SN to each new VT(A) compares
\* with the same result before and after.
RebaseKeepsOrder ==
    \A base \in SomeSNs : \A other \in SomeSNs :
        (/\ Rel(base, vrR) <= Rel(m_ackSn, vrR)
         /\ Rel(base, vrR) <= Rel(other, vrR))
        => (Greater(m_ackSn, other, base) <=> Greater(m_ackSn, other, vrR))

\* The peer reads the ACK and the NACKs that were written, and no others.
RoundTrip ==
    octets # <<>> => Deserialize(octets) = [ack |-> m_ackSn, nacks |-> m_nackSnList]

\* A STATUS PDU is as long as was reserved for it (GetSerializedSize returns the
\* length PushNack keeps), which exceeds the opportunity at most by one octet,
\* and only when the opportunity is a multiple of 3 octets.
OverrunIsOneOctet ==
    octets # <<>> =>
        /\ Len(octets) = m_headerLength
        /\ m_headerLength <= bytes + IF bytes % 3 = 0 THEN 1 ELSE 0

\* What OneMoreNackWouldFitIn promises (lte-rlc-am-header.h: "true if one more
\* NACK would fit in the CONTROL PDU").  It fails: see the README.
StatusFits == octets # <<>> => Len(octets) <= bytes

=============================================================================
