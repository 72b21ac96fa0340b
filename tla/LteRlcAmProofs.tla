--------------------------- MODULE LteRlcAmProofs ---------------------------
(***************************************************************************)
(* Proofs about RLC AM, in three parts.                                    *)
(*                                                                         *)
(* The two sides, each against every peer: the transmitting side whatever  *)
(* STATUS PDUs it receives, stale, repeated or wrong ones included, and    *)
(* the receiving side whatever data PDUs and segments it receives, in      *)
(* whatever order.                                                         *)
(*                                                                         *)
(* Safety of the bearer: the PDUs that are in flight are shown to be among *)
(* those the peer's proof allows, so the safety of both sides carries over *)
(* to the bearer.                                                          *)
(*                                                                         *)
(* Delivery: the bearer delivers every PDU whole, once and in order, and   *)
(* its sender forgets nothing the receiver lacks, whatever the MAC loses,  *)
(* delays and lets overtake, as long as a STATUS PDU does not overtake     *)
(* another (StatusCap = 1; with more the properties fail).                 *)
(***************************************************************************)
EXTENDS LteRlcAm, SequenceNumber10Proofs, FiniteSetTheorems, SequenceTheorems

---------------------------------------------------------------------------
(***************************************************************************)
(* The transmitting side: the buffers and the window.                      *)
(***************************************************************************)

\* The inductive invariant: the buffers need the types, and nothing else.
TxInv == TxTypeOK /\ TxBuffersOK

\* Polling keeps the types of the polling variables.
LEMMA PollType ==
    ASSUME TxTypeOK, NEW p \in BOOLEAN, NEW n \in SN, Poll(p, n)
    PROVE  /\ pollSn' \in SN
           /\ pollRetransmitTimer' \in BOOLEAN
           /\ pollRetransmitTimerJustExpired' \in BOOLEAN
BY DEF TxTypeOK, Poll

\* TxInit establishes the invariant.
LEMMA TxInitInv == TxInit => TxInv
BY SequenceNumberAssumption DEF TxInit, TxInv, TxTypeOK, TxBuffersOK, SN, Pdu, NoPdu,
   NoSeg, Rel, InFlight, IsSegment

\* A PDCP PDU only enters the queue.
LEMMA TransmitPdcpPduInv ==
    ASSUME TxInv, NEW size \in SduSizes, TransmitPdcpPdu(size)
    PROVE  TxInv'
<1>1. size \in Nat BY TxAssumption
<1>2. TxTypeOK' BY <1>1 DEF TxInv, TxTypeOK, TransmitPdcpPdu, bufferVars
<1>3. TxBuffersOK'
  BY DEF TxInv, TxBuffersOK, TransmitPdcpPdu, bufferVars, InFlight, IsSegment
<1>4. QED BY <1>2, <1>3 DEF TxInv

\* A new PDU takes no more than waits in the queue.
LEMMA NewLenType ==
    ASSUME txonBufferSize \in Nat, NEW bytes \in OppSizes, NEW len \in NewLens(bytes)
    PROVE  len \in Nat \ {0} /\ len <= txonBufferSize
BY DEF NewLens

\* A new PDU goes to the slot of VT(S), which was free.
LEMMA TransmitNewInv ==
    ASSUME TxInv, NEW bytes \in OppSizes, NEW len \in NewLens(bytes),
           TransmitNew(bytes, len)
    PROVE  TxInv'
<1>1. txonBufferSize \in Nat
  BY DEF TxInv, TxTypeOK
<1>2. len \in Nat /\ len <= txonBufferSize
  BY <1>1, NewLenType
<1>3. NewPdu(len) \in Pdu /\ NewPdu(len) # NoPdu
  BY <1>2 DEF NewPdu, Pdu, NoPdu, TxInv, TxTypeOK
<1>4. vtS \in SN /\ vtA \in SN /\ vtS' = Inc(vtS) /\ vtA' = vtA
  BY DEF TransmitNew, TxInv, TxTypeOK
<1>5. TxTypeOK'
  <2>1. /\ txonBufferSize' \in Nat /\ sent' \in Seq(Nat)
    BY <1>1, <1>2 DEF TransmitNew, TxInv, TxTypeOK
  <2>2. vtS' \in SN BY <1>4, IncDecType
  <2>3. txedBuffer' \in [SN -> Pdu]
    BY <1>3 DEF TransmitNew, TxInv, TxTypeOK
  <2>4. QED BY <1>4, <2>1, <2>2, <2>3, PollType DEF TransmitNew, TxInv, TxTypeOK
<1>6. Rel(vtS, vtA) < WindowSize
  BY <1>4, RelType, SequenceNumberAssumption DEF TransmitNew, WindowStalled
<1>7. Rel(vtS', vtA') = Rel(vtS, vtA) + 1
  BY <1>4, <1>6, RelInc
<1>8. \A sn \in SN : InFlight(sn)' <=> InFlight(sn) \/ sn = vtS
  BY <1>4, <1>7, RelType, RelInjective DEF InFlight
<1>9. txedBuffer[vtS] = NoPdu /\ retxBuffer[vtS] = NoPdu
  BY <1>4, RelType DEF TxInv, TxBuffersOK, InFlight
<1>10. TxBuffersOK'
  <2>1. Rel(vtS', vtA') <= WindowSize
    BY <1>4, <1>6, <1>7, RelType, SequenceNumberAssumption
  <2>2. ASSUME NEW sn \in SN
        PROVE  /\ txedBuffer'[sn] = NoPdu \/ retxBuffer'[sn] = NoPdu
               /\ txedBuffer'[sn] # NoPdu \/ retxBuffer'[sn] # NoPdu => InFlight(sn)'
               /\ IsSegment(sn)' => /\ retxBuffer'[sn] # NoPdu
                                    /\ retxSegBuffer'[sn] < retxBuffer'[sn].len
    <3>1. CASE sn = vtS
      BY <3>1, <1>8, <1>9 DEF TransmitNew, TxInv, TxBuffersOK, TxTypeOK, IsSegment
    <3>2. CASE sn # vtS
      BY <3>2, <1>8 DEF TransmitNew, TxInv, TxBuffersOK, TxTypeOK, IsSegment
    <3>3. QED BY <3>1, <3>2
  <2>3. QED BY <2>1, <2>2 DEF TxBuffersOK
<1>11. QED BY <1>5, <1>10 DEF TxInv

\* What waits for retransmission is in the retxBuffer, and the part of it
\* still to be sent is not empty when a part of it was sent.
LEMMA RetxFacts ==
    ASSUME TxInv, NEW sn \in SN, FirstForRetx(sn)
    PROVE  /\ InFlight(sn)
           /\ retxBuffer[sn] \in Pdu /\ retxBuffer[sn] # NoPdu
           /\ txedBuffer[sn] = NoPdu
           /\ RetxOffset(sn) \in Nat /\ RetxLen(sn) \in Nat
           /\ retxBuffer[sn].len = RetxOffset(sn) + RetxLen(sn)
<1>1. InFlight(sn) /\ WaitsForRetx(sn) BY DEF FirstForRetx
<1>2. retxBuffer[sn] # NoPdu /\ txedBuffer[sn] = NoPdu
  BY <1>1 DEF TxInv, TxBuffersOK, WaitsForRetx, IsSegment
<1>3. retxBuffer[sn] \in Pdu /\ retxSegBuffer[sn] \in Nat \cup {NoSeg}
  BY DEF TxInv, TxTypeOK
<1>4. IsSegment(sn) => retxSegBuffer[sn] < retxBuffer[sn].len
  BY DEF TxInv, TxBuffersOK
<1>5. retxBuffer[sn].len \in Nat BY <1>3 DEF Pdu
<1>6. RetxOffset(sn) \in Nat /\ RetxOffset(sn) <= retxBuffer[sn].len
  BY <1>3, <1>4, <1>5 DEF RetxOffset, IsSegment, NoSeg
<1>7. QED BY <1>1, <1>2, <1>3, <1>5, <1>6 DEF RetxLen

\* Sending the rest of a PDU moves it from one buffer to the other.
LEMMA RetransmitRestInv ==
    ASSUME TxInv, NEW bytes \in OppSizes, NEW sn \in SN, RetransmitRest(sn, bytes)
    PROVE  TxInv'
<1>1. InFlight(sn) /\ retxBuffer[sn] \in Pdu
  BY RetxFacts DEF RetransmitRest
<1>2. TxTypeOK'
  <2>1. vtS \in SN /\ Dec(vtS) \in SN BY IncDecType DEF TxInv, TxTypeOK
  <2>2. /\ pollSn' \in SN
        /\ pollRetransmitTimer' \in BOOLEAN
        /\ pollRetransmitTimerJustExpired' \in BOOLEAN
    BY <2>1 DEF RetransmitRest, Poll, TxInv, TxTypeOK
  <2>3. /\ txedBuffer' \in [SN -> Pdu] /\ retxBuffer' \in [SN -> Pdu]
        /\ retxSegBuffer' \in [SN -> Nat \cup {NoSeg}]
    BY <1>1 DEF RetransmitRest, TxInv, TxTypeOK, Pdu, NoPdu
  <2>4. QED BY <2>2, <2>3 DEF RetransmitRest, historyVars, TxInv, TxTypeOK
<1>3. vtA' = vtA /\ vtS' = vtS BY DEF RetransmitRest
<1>4. \A s \in SN : InFlight(s)' <=> InFlight(s) BY <1>3 DEF InFlight
<1>5. TxBuffersOK'
  BY <1>1, <1>3, <1>4 DEF RetransmitRest, TxInv, TxBuffersOK, TxTypeOK, IsSegment
<1>6. QED BY <1>2, <1>5 DEF TxInv

\* Sending a part of a PDU only moves the offset, and not to the end.
LEMMA RetransmitSegmentInv ==
    ASSUME TxInv, NEW bytes \in OppSizes, NEW sn \in SN, RetransmitSegment(sn, bytes)
    PROVE  TxInv'
<1>1. /\ retxBuffer[sn] # NoPdu
      /\ RetxOffset(sn) \in Nat /\ RetxLen(sn) \in Nat
      /\ retxBuffer[sn].len = RetxOffset(sn) + RetxLen(sn)
  BY RetxFacts DEF RetransmitSegment
<1>2. bytes \in Nat /\ HdrLen \in Nat /\ bytes >= HdrLen /\ HdrLen + RetxLen(sn) > bytes
  BY <1>1, TxAssumption DEF RetransmitSegment, RetxFits
<1> DEFINE offset == RetxOffset(sn) + bytes - HdrLen
<1>3. offset \in Nat /\ offset < retxBuffer[sn].len
  BY <1>1, <1>2
<1>4. retxSegBuffer' = [retxSegBuffer EXCEPT ![sn] = offset]
  BY DEF RetransmitSegment
<1> HIDE DEF offset
<1>5. TxTypeOK'
  <2>1. vtS \in SN /\ Dec(vtS) \in SN BY IncDecType DEF TxInv, TxTypeOK
  <2>2. /\ pollSn' \in SN
        /\ pollRetransmitTimer' \in BOOLEAN
        /\ pollRetransmitTimerJustExpired' \in BOOLEAN
    BY <2>1 DEF RetransmitSegment, Poll, TxInv, TxTypeOK
  <2>3. retxSegBuffer' \in [SN -> Nat \cup {NoSeg}]
    BY <1>3, <1>4 DEF TxInv, TxTypeOK
  <2>4. QED
    BY <2>2, <2>3 DEF RetransmitSegment, bufferVars, historyVars, TxInv, TxTypeOK
<1>6. vtA' = vtA /\ vtS' = vtS /\ txedBuffer' = txedBuffer /\ retxBuffer' = retxBuffer
  BY DEF RetransmitSegment, bufferVars
<1>7. \A s \in SN : InFlight(s)' <=> InFlight(s) BY <1>6 DEF InFlight
<1>8. TxBuffersOK'
  BY <1>1, <1>3, <1>4, <1>6, <1>7 DEF TxInv, TxBuffersOK, TxTypeOK, IsSegment
<1>9. QED BY <1>5, <1>8 DEF TxInv

\* Without room for the header nothing but the polling variables moves.
LEMMA RetransmitNothingInv ==
    ASSUME TxInv, NEW bytes \in OppSizes, NEW sn \in SN, RetransmitNothing(sn, bytes)
    PROVE  TxInv'
<1>1. TxTypeOK'
  <2>1. vtS \in SN /\ Dec(vtS) \in SN BY IncDecType DEF TxInv, TxTypeOK
  <2>2. /\ pollSn' \in SN
        /\ pollRetransmitTimer' \in BOOLEAN
        /\ pollRetransmitTimerJustExpired' \in BOOLEAN
    BY <2>1 DEF RetransmitNothing, Poll, TxInv, TxTypeOK
  <2>3. QED BY <2>2 DEF RetransmitNothing, bufferVars, historyVars, TxInv, TxTypeOK
<1>2. TxBuffersOK'
  BY DEF RetransmitNothing, bufferVars, TxInv, TxBuffersOK, InFlight, IsSegment
<1>3. QED BY <1>1, <1>2 DEF TxInv

\* When t-PollRetransmit expires unanswered PDUs change buffers, if at all.
LEMMA ExpirePollRetransmitTimerInv ==
    ASSUME TxInv, ExpirePollRetransmitTimer
    PROVE  TxInv'
<1>1. PICK moved \in SUBSET {sn \in SN : InFlight(sn) /\ txedBuffer[sn] # NoPdu} :
        /\ retxBuffer' = [sn \in SN |->
                             IF sn \in moved THEN txedBuffer[sn] ELSE retxBuffer[sn]]
        /\ txedBuffer' = [sn \in SN |->
                             IF sn \in moved THEN NoPdu ELSE txedBuffer[sn]]
  BY DEF ExpirePollRetransmitTimer
<1>2. /\ pollRetransmitTimer' = FALSE
      /\ pollRetransmitTimerJustExpired' = TRUE
      /\ UNCHANGED <<txonBufferSize, vtA, vtS, retxSegBuffer, pollSn, historyVars>>
  BY DEF ExpirePollRetransmitTimer
<1>3. TxTypeOK'
  BY <1>1, <1>2 DEF TxInv, TxTypeOK, historyVars, Pdu, NoPdu
<1>4. TxBuffersOK'
  BY <1>1, <1>2 DEF TxInv, TxTypeOK, TxBuffersOK, InFlight, IsSegment
<1>5. QED BY <1>3, <1>4 DEF TxInv

\* A STATUS PDU takes VT(A) up by k SNs, all of them acknowledged and none of them
\* beyond VT(S).
LEMMA AckedRun ==
    ASSUME TxInv, NEW s \in StatusPdu, ReceiveStatus(s)
    PROVE  \E k \in 0 .. WindowSize :
              /\ \A i \in 0 .. k - 1 : Acked(s, Plus(vtA, i))
              /\ vtA' = Plus(vtA, k)
              /\ k <= Rel(vtS, vtA)
              /\ Rel(vtS, vtA') = Rel(vtS, vtA) - k
<1>1. PICK k \in 0 .. WindowSize :
         /\ \A i \in 0 .. k - 1 : Acked(s, Plus(vtA, i))
         /\ vtA' = Plus(vtA, k)
  BY DEF ReceiveStatus, FirstNotAcked
<1>2. /\ k \in Nat /\ k <= WindowSize /\ k < Modulus
      /\ vtA \in SN /\ vtS \in SN
  BY SequenceNumberAssumption DEF TxInv, TxTypeOK
<1>3. k <= Rel(vtS, vtA)
  <2>1. CASE k = 0 BY <2>1, <1>2, RelType
  <2>2. CASE k > 0
    <3>1. k - 1 \in 0 .. k - 1 /\ k - 1 \in Nat /\ k - 1 < Modulus
      BY <1>2, <2>2, SequenceNumberAssumption
    <3>2. Rel(Plus(vtA, k - 1), vtA) < Rel(vtS, vtA)
      BY <1>1, <3>1 DEF Acked, Reported, InFlight
    <3>3. QED BY <1>2, <3>1, <3>2, RelPlus, RelType
  <2>3. QED BY <1>2, <2>1, <2>2
<1>4. Rel(vtS, vtA') = Rel(vtS, vtA) - k
  BY <1>1, <1>2, <1>3, RelMoveBase
<1>5. QED BY <1>1, <1>3, <1>4

\* A STATUS PDU takes nothing out of the buffers that it does not report.
LEMMA ReceiveStatusInv ==
    ASSUME TxInv, NEW s \in StatusPdu, ReceiveStatus(s)
    PROVE  TxInv'
<1> DEFINE moved == {sn \in SN : Nacked(s, sn) /\ txedBuffer[sn] # NoPdu}
           acked == {sn \in SN : Acked(s, sn)}
<1>1. /\ txedBuffer' = [sn \in SN |->
                           IF sn \in moved \cup acked THEN NoPdu ELSE txedBuffer[sn]]
      /\ retxBuffer' = [sn \in SN |->
                           IF sn \in moved THEN txedBuffer[sn]
                           ELSE IF sn \in acked THEN NoPdu ELSE retxBuffer[sn]]
      /\ retxSegBuffer' = [sn \in SN |->
                           IF sn \in acked /\ retxBuffer[sn] # NoPdu
                             THEN NoSeg ELSE retxSegBuffer[sn]]
      /\ pollRetransmitTimer' = (pollRetransmitTimer /\ ~Reported(s, pollSn))
      /\ UNCHANGED <<txonBufferSize, vtS, pollSn, pollRetransmitTimerJustExpired,
                     historyVars>>
  BY DEF ReceiveStatus
<1>2. PICK k \in 0 .. WindowSize :
         /\ \A i \in 0 .. k - 1 : Acked(s, Plus(vtA, i))
         /\ vtA' = Plus(vtA, k)
         /\ k <= Rel(vtS, vtA)
         /\ Rel(vtS, vtA') = Rel(vtS, vtA) - k
  BY AckedRun
<1>3. /\ k \in Nat /\ k <= WindowSize /\ k < Modulus
      /\ vtA \in SN /\ vtS \in SN /\ vtS' = vtS
  BY <1>1, SequenceNumberAssumption DEF TxInv, TxTypeOK
<1>4. \A sn \in SN : ~(sn \in moved /\ sn \in acked)
  BY DEF Nacked, Acked
<1>5. TxTypeOK'
  <2>1. vtA' \in SN BY <1>2, <1>3, RelPlus
  <2>2. txedBuffer' \in [SN -> Pdu] /\ retxSegBuffer' \in [SN -> Nat \cup {NoSeg}]
    BY <1>1 DEF TxInv, TxTypeOK, Pdu, NoPdu
  <2>3. ASSUME NEW sn \in SN
        PROVE  retxBuffer'[sn] \in Pdu
    <3>1. NoPdu \in Pdu BY DEF Pdu, NoPdu
    <3>2. txedBuffer[sn] \in Pdu /\ retxBuffer[sn] \in Pdu BY DEF TxInv, TxTypeOK
    <3>3. retxBuffer'[sn] \in {txedBuffer[sn], NoPdu, retxBuffer[sn]}
      BY <1>1, <1>4
    <3>4. QED BY <3>1, <3>2, <3>3
  <2>4. retxBuffer' \in [SN -> Pdu] BY <1>1, <2>3
  <2>5. pollRetransmitTimer' \in BOOLEAN BY <1>1
  <2>6. QED
    BY <1>1, <2>1, <2>2, <2>4, <2>5 DEF TxInv, TxTypeOK, historyVars
<1>6. k <= Rel(vtS, vtA)
  BY <1>2
<1>7. Rel(vtS', vtA') = Rel(vtS, vtA) - k
  BY <1>2, <1>3
<1>8. ASSUME NEW sn \in SN, InFlight(sn), sn \notin acked
      PROVE  InFlight(sn)'
  <2>1. k <= Rel(sn, vtA)
    <3>1. SUFFICES ASSUME Rel(sn, vtA) < k PROVE FALSE
      BY <1>3, RelType
    <3>2. Plus(vtA, Rel(sn, vtA)) = sn /\ Rel(sn, vtA) \in 0 .. k - 1
      BY <1>3, <3>1, RelType
    <3>3. QED BY <1>2, <1>8, <3>2
  <2>2. Rel(sn, vtA') = Rel(sn, vtA) - k
    BY <1>2, <1>3, <2>1, RelMoveBase
  <2>3. QED BY <1>3, <1>7, <1>8, <2>2, RelType DEF InFlight
<1>9. \A sn \in SN : sn \in moved => InFlight(sn)
  BY DEF Nacked, Reported
<1>10. TxBuffersOK'
  <2>1. Rel(vtS', vtA') <= WindowSize
    BY <1>3, <1>7, RelType, SequenceNumberAssumption DEF TxInv, TxBuffersOK
  <2>2. ASSUME NEW sn \in SN
        PROVE  /\ txedBuffer'[sn] = NoPdu \/ retxBuffer'[sn] = NoPdu
               /\ txedBuffer'[sn] # NoPdu \/ retxBuffer'[sn] # NoPdu => InFlight(sn)'
               /\ IsSegment(sn)' => /\ retxBuffer'[sn] # NoPdu
                                    /\ retxSegBuffer'[sn] < retxBuffer'[sn].len
    <3>1. /\ txedBuffer[sn] = NoPdu \/ retxBuffer[sn] = NoPdu
          /\ txedBuffer[sn] # NoPdu \/ retxBuffer[sn] # NoPdu => InFlight(sn)
          /\ IsSegment(sn) => /\ retxBuffer[sn] # NoPdu
                              /\ retxSegBuffer[sn] < retxBuffer[sn].len
      BY DEF TxInv, TxBuffersOK
    <3>2. CASE sn \in moved
      <4>1. txedBuffer'[sn] = NoPdu /\ retxSegBuffer'[sn] = retxSegBuffer[sn]
        BY <1>1, <1>4, <3>2
      <4>2. ~IsSegment(sn) BY <3>1, <3>2
      <4>3. InFlight(sn)' BY <1>4, <1>8, <1>9, <3>2
      <4>4. QED BY <4>1, <4>2, <4>3 DEF IsSegment
    <3>3. CASE sn \in acked
      <4>1. txedBuffer'[sn] = NoPdu /\ retxBuffer'[sn] = NoPdu
        BY <1>1, <1>4, <3>3
      <4>2. retxSegBuffer'[sn] = IF retxBuffer[sn] # NoPdu THEN NoSeg ELSE retxSegBuffer[sn]
        BY <1>1, <3>3
      <4>3. ~IsSegment(sn)' BY <3>1, <4>2 DEF IsSegment
      <4>4. QED BY <4>1, <4>3
    <3>4. CASE sn \notin moved /\ sn \notin acked
      <4>1. /\ txedBuffer'[sn] = txedBuffer[sn]
            /\ retxBuffer'[sn] = retxBuffer[sn]
            /\ retxSegBuffer'[sn] = retxSegBuffer[sn]
        BY <1>1, <3>4
      <4>2. InFlight(sn) => InFlight(sn)' BY <1>8, <3>4
      <4>3. QED BY <3>1, <4>1, <4>2 DEF IsSegment
    <3>5. QED BY <3>2, <3>3, <3>4
  <2>3. QED BY <2>1, <2>2 DEF TxBuffersOK
<1>11. QED BY <1>5, <1>10 DEF TxInv

\* Every step keeps the invariant.
LEMMA TxNextInv == TxInv /\ [TxNext]_txVars => TxInv'
<1> SUFFICES ASSUME TxInv, [TxNext]_txVars PROVE TxInv'
  OBVIOUS
<1>1. ASSUME NEW size \in SduSizes, TransmitPdcpPdu(size) PROVE TxInv'
  BY <1>1, TransmitPdcpPduInv
<1>2. ASSUME NEW bytes \in OppSizes, NEW len \in NewLens(bytes), TransmitNew(bytes, len)
      PROVE  TxInv'
  BY <1>2, TransmitNewInv
<1>3. ASSUME NEW bytes \in OppSizes, NEW sn \in SN, RetransmitRest(sn, bytes)
      PROVE  TxInv'
  BY <1>3, RetransmitRestInv
<1>4. ASSUME NEW bytes \in OppSizes, NEW sn \in SN, RetransmitSegment(sn, bytes)
      PROVE  TxInv'
  BY <1>4, RetransmitSegmentInv
<1>5. ASSUME NEW bytes \in OppSizes, NEW sn \in SN, RetransmitNothing(sn, bytes)
      PROVE  TxInv'
  BY <1>5, RetransmitNothingInv
<1>6. ASSUME NEW s \in StatusPdu, ReceiveStatus(s) PROVE TxInv'
  BY <1>6, ReceiveStatusInv
<1>7. CASE ExpirePollRetransmitTimer
  BY <1>7, ExpirePollRetransmitTimerInv
<1>8. CASE UNCHANGED txVars
  BY <1>8 DEF txVars, TxInv, TxTypeOK, TxBuffersOK, InFlight, IsSegment
<1>9. QED BY <1>1, <1>2, <1>3, <1>4, <1>5, <1>6, <1>7, <1>8 DEF TxNext

\* Whatever STATUS PDUs arrive, the sender never exceeds its window, holds a
\* PDU in one buffer at most and only for an SN of the window, and has a
\* segment only of a PDU it can still retransmit.
THEOREM TxSafety == TxSpec => [](TxTypeOK /\ TxBuffersOK)
<1>1. TxInit => TxInv BY TxInitInv
<1>2. TxInv /\ [TxNext]_txVars => TxInv' BY TxNextInv
<1>3. TxInv => TxTypeOK /\ TxBuffersOK BY DEF TxInv
<1>4. QED BY <1>1, <1>2, <1>3, PTL DEF TxSpec

\* VT(A) moves when a STATUS PDU arrives, over the SNs it acknowledges.
LEMMA VtAStep == TxInv /\ [TxNext]_txVars => [Rel(vtA', vtA) <= Rel(vtS, vtA)]_txVars
<1> SUFFICES ASSUME TxInv, TxNext PROVE Rel(vtA', vtA) <= Rel(vtS, vtA)
  OBVIOUS
<1>1. vtA \in SN /\ vtS \in SN BY DEF TxInv, TxTypeOK
<1>2. ASSUME NEW s \in StatusPdu, ReceiveStatus(s)
      PROVE  Rel(vtA', vtA) <= Rel(vtS, vtA)
  <2>1. PICK k \in 0 .. WindowSize : vtA' = Plus(vtA, k) /\ k <= Rel(vtS, vtA)
    BY <1>2, AckedRun
  <2>2. k \in Nat /\ k < Modulus BY SequenceNumberAssumption
  <2>3. QED BY <1>1, <2>1, <2>2, RelPlus
<1>3. CASE UNCHANGED vtA
  <2>1. Plus(vtA, 0) = vtA /\ Rel(Plus(vtA, 0), vtA) = 0
    BY <1>1, SequenceNumberAssumption DEF Plus, Rel, SN
  <2>2. QED BY <1>1, <1>3, <2>1, RelType
<1>4. (\E s \in StatusPdu : ReceiveStatus(s)) \/ UNCHANGED vtA
  BY DEF TxNext, TransmitPdcpPdu, TransmitNew, RetransmitRest, RetransmitSegment,
         RetransmitNothing, ExpirePollRetransmitTimer
<1>5. QED BY <1>2, <1>3, <1>4

\* Whatever STATUS PDUs arrive, stale or wrong ones included, VT(A) neither retreats
\* nor passes VT(S).
THEOREM VtAForward == TxSpec => VtANeverRetreats
<1>1. TxInit => TxInv BY TxInitInv
<1>2. TxInv /\ [TxNext]_txVars => TxInv' BY TxNextInv
<1>3. TxInv /\ [TxNext]_txVars => [Rel(vtA', vtA) <= Rel(vtS, vtA)]_txVars
  BY VtAStep
<1>4. QED BY <1>1, <1>2, <1>3, PTL DEF TxSpec, VtANeverRetreats

(***************************************************************************)
(* Induction, with a set in the place of the predicate.                    *)
(***************************************************************************)

\* A family with the empty set, and with a set as soon as it has all that are
\* smaller by one element, has every finite set.
LEMMA SubsetInduction ==
    ASSUME NEW S, IsFiniteSet(S), NEW F, {} \in F,
           \A A \in SUBSET S : A # {} /\ (\A x \in A : A \ {x} \in F) => A \in F
    PROVE  \A A \in SUBSET S : A \in F
<1> DEFINE Bad == {n \in Nat : \E A \in SUBSET S : Cardinality(A) = n /\ A \notin F}
<1>1. \A A \in SUBSET S : IsFiniteSet(A) /\ Cardinality(A) \in Nat
  BY FS_Subset, FS_CardinalityType
<1>2. SUFFICES ASSUME Bad # {} PROVE FALSE
  BY <1>1
<1>3. PICK n \in Bad : \A m \in Bad : n <= m
  <2>1. Bad \in SUBSET Nat OBVIOUS
  <2> HIDE DEF Bad
  <2>2. QED BY <1>2, <2>1, LeastNat
<1>4. PICK A \in SUBSET S : Cardinality(A) = n /\ A \notin F
  OBVIOUS
<1>5. ASSUME NEW x \in A PROVE A \ {x} \in F
  <2>1. Cardinality(A \ {x}) = n - 1 BY <1>1, <1>4, FS_RemoveElement
  <2>2. A \ {x} \in SUBSET S /\ Cardinality(A \ {x}) \in Nat BY <1>1
  <2>3. n - 1 \notin Bad BY <1>3, <2>1, <2>2
  <2>4. QED BY <2>1, <2>2, <2>3
<1>6. QED BY <1>4, <1>5

(***************************************************************************)
(* The bytes in a buffer: MapThenSumSet takes the SNs in an order of its   *)
(* own, and the sum does not depend on it.                                 *)
(***************************************************************************)

Pick(s) == CHOOSE x \in s : TRUE

\* g adds up the sizes for the sets of D, in the order of MapThenSumSet.
Unfolds(g, buffer, D) ==
    g = [s \in D |-> IF s = {} THEN 0 ELSE PduSize(buffer[Pick(s)]) + g[s \ {Pick(s)}]]

\* There is such a function for the subsets of a finite set.
LEMMA UnfoldingExists ==
    ASSUME NEW buffer, NEW S, IsFiniteSet(S)
    PROVE  \E g : Unfolds(g, buffer, SUBSET S)
<1> DEFINE Small(n) == {s \in SUBSET S : Cardinality(s) <= n}
           Bad == {n \in Nat : ~ \E g : Unfolds(g, buffer, Small(n))}
<1>1. \A s \in SUBSET S : /\ IsFiniteSet(s) /\ Cardinality(s) \in Nat
                          /\ Cardinality(s) <= Cardinality(S)
  BY FS_Subset, FS_CardinalityType
<1>2. \E g : Unfolds(g, buffer, Small(0))
  <2>1. Small(0) = {{}}
    <3>1. \A s \in SUBSET S : Cardinality(s) = 0 <=> s = {}
      BY <1>1, FS_EmptySet
    <3>2. QED BY <1>1, <3>1
  <2>2. Unfolds([s \in {{}} |-> 0], buffer, {{}}) BY DEF Unfolds
  <2>3. QED BY <2>1, <2>2
<1>3. ASSUME NEW n \in Nat, NEW g, Unfolds(g, buffer, Small(n))
      PROVE  \E h : Unfolds(h, buffer, Small(n + 1))
  <2> DEFINE h == [s \in Small(n + 1) |->
                     IF s = {} THEN 0 ELSE PduSize(buffer[Pick(s)]) + g[s \ {Pick(s)}]]
  <2>1. ASSUME NEW s \in Small(n + 1), s # {}
        PROVE  h[s \ {Pick(s)}] = g[s \ {Pick(s)}]
    <3>1. Pick(s) \in s BY <2>1 DEF Pick
    <3>2. Cardinality(s \ {Pick(s)}) = Cardinality(s) - 1
      BY <1>1, <3>1, FS_RemoveElement
    <3> DEFINE t == s \ {Pick(s)}
    <3>3. t \in Small(n) /\ t \in Small(n + 1)
      BY <1>1, <3>2
    <3>4. g[t] = IF t = {} THEN 0 ELSE PduSize(buffer[Pick(t)]) + g[t \ {Pick(t)}]
      <4> HIDE DEF t, Small
      <4>1. QED BY <1>3, <3>3 DEF Unfolds
    <3>5. h[t] = IF t = {} THEN 0 ELSE PduSize(buffer[Pick(t)]) + g[t \ {Pick(t)}]
      BY <3>3
    <3>6. QED BY <3>4, <3>5
  <2>2. h = [s \in Small(n + 1) |->
               IF s = {} THEN 0 ELSE PduSize(buffer[Pick(s)]) + h[s \ {Pick(s)}]]
    BY <2>1
  <2> HIDE DEF h
  <2>3. QED BY <2>2 DEF Unfolds
<1>4. Bad = {}
  <2>1. SUFFICES ASSUME Bad # {} PROVE FALSE OBVIOUS
  <2>2. Bad \in SUBSET Nat OBVIOUS
  <2>3. PICK m \in Bad : \A k \in Bad : m <= k
    <3> HIDE DEF Bad
    <3>1. QED BY <2>1, <2>2, LeastNat
  <2>4. m \in Nat /\ m # 0 BY <1>2
  <2>5. m - 1 \in Nat /\ m - 1 \notin Bad
    <3> HIDE DEF Bad
    <3>1. QED BY <2>3, <2>4
  <2>6. PICK g : Unfolds(g, buffer, Small(m - 1)) BY <2>5
  <2>7. \E h : Unfolds(h, buffer, Small((m - 1) + 1)) BY <1>3, <2>5, <2>6
  <2>8. (m - 1) + 1 = m BY <2>4
  <2>9. QED BY <2>3, <2>7, <2>8
<1>5. Small(Cardinality(S)) = SUBSET S /\ Cardinality(S) \in Nat
  BY <1>1
<1>6. QED BY <1>4, <1>5

\* Two such functions agree where both are defined.
LEMMA UnfoldingUnique ==
    ASSUME NEW buffer, NEW S, NEW T, IsFiniteSet(S), T \subseteq S,
           NEW g, NEW h, Unfolds(g, buffer, SUBSET S), Unfolds(h, buffer, SUBSET T)
    PROVE  g[T] = h[T]
<1> DEFINE F == {A \in SUBSET T : g[A] = h[A]}
<1>1. ASSUME NEW A \in SUBSET T
      PROVE  /\ g[A] = IF A = {} THEN 0 ELSE PduSize(buffer[Pick(A)]) + g[A \ {Pick(A)}]
             /\ h[A] = IF A = {} THEN 0 ELSE PduSize(buffer[Pick(A)]) + h[A \ {Pick(A)}]
  <2>1. A \in SUBSET S OBVIOUS
  <2>2. QED BY <2>1 DEF Unfolds
<1>2. {} \in F BY <1>1
<1>3. ASSUME NEW A \in SUBSET T, A # {}, \A x \in A : A \ {x} \in F
      PROVE  A \in F
  <2>1. Pick(A) \in A BY <1>3 DEF Pick
  <2>2. g[A \ {Pick(A)}] = h[A \ {Pick(A)}] BY <1>3, <2>1
  <2>3. QED BY <1>1, <1>3, <2>2
<1>4. IsFiniteSet(T) BY FS_Subset
<1> HIDE DEF F
<1>5. T \in F BY <1>2, <1>3, <1>4, SubsetInduction
<1>6. QED BY <1>5 DEF F

\* The sum takes the size at one SN and goes on with the others.
LEMMA BytesUnfold ==
    ASSUME NEW buffer, NEW S, IsFiniteSet(S)
    PROVE  BytesIn(buffer, S) =
             IF S = {} THEN 0 ELSE PduSize(buffer[Pick(S)]) + BytesIn(buffer, S \ {Pick(S)})
<1>1. ASSUME NEW T, \E g : Unfolds(g, buffer, SUBSET T)
      PROVE  \E g : Unfolds(g, buffer, SUBSET T) /\ BytesIn(buffer, T) = g[T]
  BY <1>1 DEF BytesIn, MapThenSumSet, MapThenFoldSet, Unfolds, Pick
<1>2. PICK g : Unfolds(g, buffer, SUBSET S) /\ BytesIn(buffer, S) = g[S]
  BY <1>1, UnfoldingExists
<1>3. S \in SUBSET S OBVIOUS
<1>4. g[S] = IF S = {} THEN 0 ELSE PduSize(buffer[Pick(S)]) + g[S \ {Pick(S)}]
  BY <1>2, <1>3 DEF Unfolds
<1>5. S # {} => g[S \ {Pick(S)}] = BytesIn(buffer, S \ {Pick(S)})
  <2> PICK T : T = S \ {Pick(S)} OBVIOUS
  <2>1. IsFiniteSet(T) /\ T \subseteq S BY FS_Subset
  <2>2. PICK h : Unfolds(h, buffer, SUBSET T) /\ BytesIn(buffer, T) = h[T]
    BY <1>1, <2>1, UnfoldingExists
  <2>3. g[T] = h[T]
    <3>1. Unfolds(g, buffer, SUBSET S) BY <1>2
    <3>2. Unfolds(h, buffer, SUBSET T) BY <2>2
    <3>3. QED BY <2>1, <3>1, <3>2, UnfoldingUnique
  <2>4. QED BY <2>2, <2>3
<1>6. QED BY <1>2, <1>4, <1>5

\* SN is finite, and a PDU has a size.
LEMMA SizeType ==
    /\ \A S \in SUBSET SN : IsFiniteSet(S)
    /\ PduSize(NoPdu) = 0
    /\ \A pdu \in Pdu : PduSize(pdu) \in Nat /\ (pdu # NoPdu => PduSize(pdu) > 0)
<1>1. IsFiniteSet(SN)
  BY SequenceNumberAssumption, FS_Interval DEF SN
<1>2. QED BY <1>1, FS_Subset, TxAssumption DEF PduSize, Pdu

\* The sum is a number.
LEMMA BytesType ==
    ASSUME NEW buffer \in [SN -> Pdu], NEW S \in SUBSET SN
    PROVE  BytesIn(buffer, S) \in Nat
<1> DEFINE F == {A \in SUBSET SN : BytesIn(buffer, A) \in Nat}
<1>1. {} \in F BY SizeType, BytesUnfold
<1>2. ASSUME NEW A \in SUBSET SN, A # {}, \A x \in A : A \ {x} \in F
      PROVE  A \in F
  <2>1. Pick(A) \in A BY <1>2 DEF Pick
  <2>2. BytesIn(buffer, A) = PduSize(buffer[Pick(A)]) + BytesIn(buffer, A \ {Pick(A)})
    BY <1>2, SizeType, BytesUnfold
  <2>3. BytesIn(buffer, A \ {Pick(A)}) \in Nat BY <1>2, <2>1
  <2>4. PduSize(buffer[Pick(A)]) \in Nat BY <2>1, SizeType
  <2>5. QED BY <2>2, <2>3, <2>4
<1>3. IsFiniteSet(SN) BY SizeType
<1> HIDE DEF F
<1>4. S \in F BY <1>1, <1>2, <1>3, SubsetInduction
<1>5. QED BY <1>4 DEF F

\* The sum may start at any SN.
LEMMA BytesSplit ==
    ASSUME NEW buffer \in [SN -> Pdu], NEW S \in SUBSET SN, NEW y \in S
    PROVE  BytesIn(buffer, S) = PduSize(buffer[y]) + BytesIn(buffer, S \ {y})
<1> DEFINE F == {A \in SUBSET SN :
                   \A x \in A : BytesIn(buffer, A)
                                  = PduSize(buffer[x]) + BytesIn(buffer, A \ {x})}
<1>1. \A x \in SN : PduSize(buffer[x]) \in Nat BY SizeType
<1>2. {} \in F OBVIOUS
<1>3. ASSUME NEW A \in SUBSET SN, A # {}, \A x \in A : A \ {x} \in F
      PROVE  A \in F
  <2> DEFINE p == Pick(A)
  <2>1. p \in A BY <1>3 DEF Pick
  <2> HIDE DEF p
  <2>2. BytesIn(buffer, A) = PduSize(buffer[p]) + BytesIn(buffer, A \ {p})
    BY <1>3, SizeType, BytesUnfold DEF p
  <2>3. ASSUME NEW x \in A, x # p
        PROVE  BytesIn(buffer, A) = PduSize(buffer[x]) + BytesIn(buffer, A \ {x})
    <3> DEFINE rest == BytesIn(buffer, (A \ {p}) \ {x})
    <3>1. BytesIn(buffer, A \ {p}) = PduSize(buffer[x]) + rest
      BY <1>3, <2>1, <2>3
    <3>2. BytesIn(buffer, A \ {x}) = PduSize(buffer[p]) + rest
      <4>1. BytesIn(buffer, A \ {x}) = PduSize(buffer[p]) + BytesIn(buffer, (A \ {x}) \ {p})
        BY <1>3, <2>1, <2>3
      <4>2. (A \ {x}) \ {p} = (A \ {p}) \ {x} OBVIOUS
      <4>3. QED BY <4>1, <4>2
    <3>3. rest \in Nat
      <4>1. (A \ {p}) \ {x} \in SUBSET SN OBVIOUS
      <4>2. QED BY <4>1, BytesType
    <3>4. PduSize(buffer[p]) \in Nat /\ PduSize(buffer[x]) \in Nat
      BY <1>1, <2>1
    <3> HIDE DEF rest, F
    <3>5. QED BY <2>2, <3>1, <3>2, <3>3, <3>4
  <2>4. QED BY <2>2, <2>3
<1>4. IsFiniteSet(SN) BY SizeType
<1> HIDE DEF F
<1>5. S \in F BY <1>2, <1>3, <1>4, SubsetInduction
<1>6. QED BY <1>5 DEF F

\* The sum over two sets without a common SN.
LEMMA BytesUnion ==
    ASSUME NEW buffer \in [SN -> Pdu], NEW S \in SUBSET SN, NEW T \in SUBSET SN,
           S \cap T = {}
    PROVE  BytesIn(buffer, S \cup T) = BytesIn(buffer, S) + BytesIn(buffer, T)
<1> DEFINE F == {A \in SUBSET S :
                   BytesIn(buffer, A \cup T) = BytesIn(buffer, A) + BytesIn(buffer, T)}
<1>1. BytesIn(buffer, T) \in Nat BY BytesType
<1>2. {} \in F
  <2>1. BytesIn(buffer, {}) = 0 BY SizeType, BytesUnfold
  <2>2. {} \cup T = T OBVIOUS
  <2>3. QED BY <1>1, <2>1, <2>2
<1>3. ASSUME NEW A \in SUBSET S, A # {}, \A x \in A : A \ {x} \in F
      PROVE  A \in F
  <2>1. PICK x \in A : TRUE BY <1>3
  <2>2. BytesIn(buffer, A) = PduSize(buffer[x]) + BytesIn(buffer, A \ {x})
    BY <2>1, BytesSplit
  <2>3. BytesIn(buffer, A \cup T) = PduSize(buffer[x]) + BytesIn(buffer, (A \ {x}) \cup T)
    <3>1. (A \cup T) \ {x} = (A \ {x}) \cup T OBVIOUS
    <3>2. A \cup T \in SUBSET SN /\ x \in A \cup T OBVIOUS
    <3>3. QED BY <3>1, <3>2, BytesSplit
  <2>4. BytesIn(buffer, (A \ {x}) \cup T) = BytesIn(buffer, A \ {x}) + BytesIn(buffer, T)
    BY <1>3
  <2>5. BytesIn(buffer, A \ {x}) \in Nat /\ PduSize(buffer[x]) \in Nat
    BY BytesType, SizeType
  <2>6. BytesIn(buffer, A \cup T) = BytesIn(buffer, A) + BytesIn(buffer, T)
    <3> HIDE DEF F
    <3>1. QED BY <1>1, <2>2, <2>3, <2>4, <2>5
  <2>7. QED BY <2>6
<1>4. IsFiniteSet(S) BY SizeType
<1> HIDE DEF F
<1>5. S \in F BY <1>2, <1>3, <1>4, SubsetInduction
<1>6. QED BY <1>5 DEF F

\* Buffers that hold the same at the SNs of a set have the same sum there.
LEMMA BytesSame ==
    ASSUME NEW buffer \in [SN -> Pdu], NEW other \in [SN -> Pdu], NEW S \in SUBSET SN,
           \A x \in S : buffer[x] = other[x]
    PROVE  BytesIn(buffer, S) = BytesIn(other, S)
<1> DEFINE F == {A \in SUBSET S : BytesIn(buffer, A) = BytesIn(other, A)}
<1>1. {} \in F BY SizeType, BytesUnfold
<1>2. ASSUME NEW A \in SUBSET S, A # {}, \A x \in A : A \ {x} \in F
      PROVE  A \in F
  <2>1. PICK x \in A : TRUE BY <1>2
  <2>2. /\ BytesIn(buffer, A) = PduSize(buffer[x]) + BytesIn(buffer, A \ {x})
        /\ BytesIn(other, A) = PduSize(other[x]) + BytesIn(other, A \ {x})
    BY <2>1, BytesSplit
  <2>3. BytesIn(buffer, A \ {x}) = BytesIn(other, A \ {x}) /\ buffer[x] = other[x]
    BY <1>2
  <2>4. QED BY <2>2, <2>3
<1>3. IsFiniteSet(S) BY SizeType
<1> HIDE DEF F
<1>4. S \in F BY <1>1, <1>2, <1>3, SubsetInduction
<1>5. QED BY <1>4 DEF F

\* Where a buffer holds nothing there are no bytes, and where there are none it
\* holds nothing.
LEMMA BytesNone ==
    ASSUME NEW buffer \in [SN -> Pdu], NEW S \in SUBSET SN
    PROVE  BytesIn(buffer, S) = 0 <=> \A x \in S : buffer[x] = NoPdu
<1> DEFINE F == {A \in SUBSET S : BytesIn(buffer, A) = 0 <=> \A x \in A : buffer[x] = NoPdu}
<1>1. {} \in F BY SizeType, BytesUnfold
<1>2. ASSUME NEW A \in SUBSET S, A # {}, \A x \in A : A \ {x} \in F
      PROVE  A \in F
  <2>1. PICK x \in A : TRUE BY <1>2
  <2>2. BytesIn(buffer, A) = PduSize(buffer[x]) + BytesIn(buffer, A \ {x})
    BY <2>1, BytesSplit
  <2>3. BytesIn(buffer, A \ {x}) = 0 <=> \A y \in A \ {x} : buffer[y] = NoPdu
    BY <1>2
  <2>4. /\ BytesIn(buffer, A \ {x}) \in Nat /\ PduSize(buffer[x]) \in Nat
        /\ PduSize(buffer[x]) = 0 <=> buffer[x] = NoPdu
    BY BytesType, SizeType
  <2>5. BytesIn(buffer, A) = 0 <=> buffer[x] = NoPdu /\ \A y \in A \ {x} : buffer[y] = NoPdu
    BY <2>2, <2>3, <2>4
  <2>6. QED BY <2>5
<1>3. IsFiniteSet(S) BY SizeType
<1> HIDE DEF F
<1>4. S \in F BY <1>1, <1>2, <1>3, SubsetInduction
<1>5. QED BY <1>4 DEF F

(***************************************************************************)
(* The byte counters.                                                      *)
(***************************************************************************)

\* What one SN adds to the bytes of a buffer.
LEMMA BytesAt ==
    ASSUME NEW buffer \in [SN -> Pdu], NEW sn \in SN
    PROVE  /\ BytesIn(buffer, SN) = PduSize(buffer[sn]) + BytesIn(buffer, SN \ {sn})
           /\ BytesIn(buffer, SN \ {sn}) \in Nat /\ PduSize(buffer[sn]) \in Nat
BY BytesSplit, BytesType, SizeType

\* A buffer that changes at one SN changes its bytes by what was and is there.
LEMMA BytesChange ==
    ASSUME NEW buffer \in [SN -> Pdu], NEW sn \in SN, NEW pdu \in Pdu
    PROVE  BytesIn([buffer EXCEPT ![sn] = pdu], SN)
             = BytesIn(buffer, SN) - PduSize(buffer[sn]) + PduSize(pdu)
<1> DEFINE other == [buffer EXCEPT ![sn] = pdu]
<1>1. other \in [SN -> Pdu] /\ other[sn] = pdu /\ \A s \in SN \ {sn} : other[s] = buffer[s]
  OBVIOUS
<1> HIDE DEF other
<1>2. BytesIn(other, SN \ {sn}) = BytesIn(buffer, SN \ {sn})
  BY <1>1, BytesSame
<1>3. QED
  <2>1. /\ BytesIn(other, SN) = PduSize(pdu) + BytesIn(other, SN \ {sn})
        /\ PduSize(pdu) \in Nat
    BY <1>1, BytesAt
  <2>2. QED BY <1>2, <2>1, BytesAt DEF other

\* A set of SNs and the others.
LEMMA BytesInPart ==
    ASSUME NEW buffer \in [SN -> Pdu], NEW S \in SUBSET SN
    PROVE  /\ BytesIn(buffer, SN) = BytesIn(buffer, S) + BytesIn(buffer, SN \ S)
           /\ BytesIn(buffer, S) \in Nat /\ BytesIn(buffer, SN \ S) \in Nat
<1>1. S \cup (SN \ S) = SN /\ S \cap (SN \ S) = {} /\ SN \ S \in SUBSET SN
  OBVIOUS
<1>2. BytesIn(buffer, S \cup (SN \ S)) = BytesIn(buffer, S) + BytesIn(buffer, SN \ S)
  BY <1>1, BytesUnion
<1>3. QED BY <1>1, <1>2, BytesType

\* A new PDU is counted as transmitted.
LEMMA TransmitNewSizes ==
    ASSUME TxInv, SizesExact, NEW bytes \in OppSizes, NEW len \in NewLens(bytes),
           TransmitNew(bytes, len)
    PROVE  SizesExact'
<1>1. vtS \in SN /\ txedBuffer \in [SN -> Pdu] /\ txonBufferSize \in Nat /\ Len(sent) \in Nat
  BY DEF TxInv, TxTypeOK
<1>2. NewPdu(len) \in Pdu
  BY <1>1, NewLenType DEF NewPdu, Pdu
<1>3. txedBuffer[vtS] = NoPdu
  BY <1>1, RelType DEF TxInv, TxTypeOK, TxBuffersOK, InFlight
<1>4. /\ txedBuffer' = [txedBuffer EXCEPT ![vtS] = NewPdu(len)]
      /\ txedBufferSize' = txedBufferSize + PduSize(NewPdu(len))
      /\ UNCHANGED <<retxBuffer, retxBufferSize>>
  BY DEF TransmitNew
<1>5. BytesIn(txedBuffer', SN)
        = BytesIn(txedBuffer, SN) - PduSize(txedBuffer[vtS]) + PduSize(NewPdu(len))
  BY <1>1, <1>2, <1>4, BytesChange
<1>6. /\ PduSize(txedBuffer[vtS]) = 0 /\ PduSize(NewPdu(len)) \in Nat
      /\ BytesIn(txedBuffer, SN) \in Nat
  BY <1>1, <1>2, <1>3, SizeType, BytesType
<1>7. QED BY <1>4, <1>5, <1>6 DEF SizesExact

\* The last part of a retransmission takes the PDU from one counter to the other.
LEMMA RetransmitRestSizes ==
    ASSUME TxInv, SizesExact, NEW bytes \in OppSizes, NEW sn \in SN,
           RetransmitRest(sn, bytes)
    PROVE  SizesExact'
<1>1. /\ txedBuffer \in [SN -> Pdu] /\ retxBuffer \in [SN -> Pdu] /\ retxBuffer[sn] \in Pdu
      /\ NoPdu \in Pdu
  BY DEF TxInv, TxTypeOK, Pdu, NoPdu
<1>2. txedBuffer[sn] = NoPdu
  BY RetxFacts DEF RetransmitRest
<1>3. /\ txedBuffer' = [txedBuffer EXCEPT ![sn] = retxBuffer[sn]]
      /\ retxBuffer' = [retxBuffer EXCEPT ![sn] = NoPdu]
      /\ txedBufferSize' = txedBufferSize + PduSize(retxBuffer[sn])
      /\ retxBufferSize' = retxBufferSize - PduSize(retxBuffer[sn])
  BY DEF RetransmitRest
<1>4. /\ BytesIn(txedBuffer', SN)
           = BytesIn(txedBuffer, SN) - PduSize(txedBuffer[sn]) + PduSize(retxBuffer[sn])
      /\ BytesIn(retxBuffer', SN)
           = BytesIn(retxBuffer, SN) - PduSize(retxBuffer[sn]) + PduSize(NoPdu)
  BY <1>1, <1>3, BytesChange
<1>5. /\ PduSize(txedBuffer[sn]) = 0 /\ PduSize(NoPdu) = 0 /\ PduSize(retxBuffer[sn]) \in Nat
      /\ BytesIn(txedBuffer, SN) \in Nat /\ BytesIn(retxBuffer, SN) \in Nat
  BY <1>1, <1>2, SizeType, BytesType
<1>6. QED BY <1>3, <1>4, <1>5 DEF SizesExact

\* Where both buffers change at the SNs of a set only, the bytes there make the
\* difference.
LEMMA BytesMove ==
    ASSUME NEW buffer \in [SN -> Pdu], NEW other \in [SN -> Pdu], NEW S \in SUBSET SN,
           \A sn \in SN \ S : other[sn] = buffer[sn]
    PROVE  BytesIn(other, SN) = BytesIn(buffer, SN) - BytesIn(buffer, S) + BytesIn(other, S)
<1>1. BytesIn(other, SN \ S) = BytesIn(buffer, SN \ S)
  BY BytesSame
<1>2. QED BY <1>1, BytesInPart

\* t-PollRetransmit takes every unanswered PDU from one counter to the other.
LEMMA ExpirePollRetransmitTimerSizes ==
    ASSUME TxInv, SizesExact, ExpirePollRetransmitTimer
    PROVE  SizesExact'
<1>1. PICK moved \in SUBSET SN :
        /\ \A sn \in moved : txedBuffer[sn] # NoPdu
        /\ retxBuffer' = [sn \in SN |->
                             IF sn \in moved THEN txedBuffer[sn] ELSE retxBuffer[sn]]
        /\ txedBuffer' = [sn \in SN |->
                             IF sn \in moved THEN NoPdu ELSE txedBuffer[sn]]
        /\ retxBufferSize' = retxBufferSize + BytesIn(txedBuffer, moved)
        /\ txedBufferSize' = txedBufferSize - BytesIn(txedBuffer, moved)
  <2> DEFINE moved == IF (txonBufferSize = 0 /\ retxBufferSize = 0) \/ WindowStalled
                        THEN {sn \in SN : InFlight(sn) /\ txedBuffer[sn] # NoPdu}
                        ELSE {}
  <2>1. moved \in SUBSET SN /\ \A sn \in moved : txedBuffer[sn] # NoPdu
    OBVIOUS
  <2>2. QED BY <2>1 DEF ExpirePollRetransmitTimer
<1>2. /\ txedBuffer \in [SN -> Pdu] /\ retxBuffer \in [SN -> Pdu] /\ NoPdu \in Pdu
      /\ \A sn \in SN : txedBuffer[sn] = NoPdu \/ retxBuffer[sn] = NoPdu
  BY DEF TxInv, TxTypeOK, TxBuffersOK, Pdu, NoPdu
<1>3. txedBuffer' \in [SN -> Pdu] /\ retxBuffer' \in [SN -> Pdu]
  BY <1>1, <1>2
<1>4. /\ BytesIn(txedBuffer', SN)
           = BytesIn(txedBuffer, SN) - BytesIn(txedBuffer, moved) + BytesIn(txedBuffer', moved)
      /\ BytesIn(retxBuffer', SN)
           = BytesIn(retxBuffer, SN) - BytesIn(retxBuffer, moved) + BytesIn(retxBuffer', moved)
  BY <1>1, <1>2, <1>3, BytesMove
<1>5. BytesIn(txedBuffer', moved) = 0 /\ BytesIn(retxBuffer, moved) = 0
  BY <1>1, <1>2, <1>3, BytesNone
<1>6. BytesIn(retxBuffer', moved) = BytesIn(txedBuffer, moved)
  BY <1>1, <1>2, <1>3, BytesSame
<1>7. /\ BytesIn(txedBuffer, SN) \in Nat /\ BytesIn(retxBuffer, SN) \in Nat
      /\ BytesIn(txedBuffer, moved) \in Nat
  BY <1>2, BytesType
<1>8. QED BY <1>1, <1>4, <1>5, <1>6, <1>7 DEF SizesExact

\* A STATUS PDU takes what it NACKs to the other counter, and what it
\* acknowledges out of the counter it is in.
LEMMA ReceiveStatusSizes ==
    ASSUME TxInv, SizesExact, NEW s \in StatusPdu, ReceiveStatus(s)
    PROVE  SizesExact'
<1>1. PICK moved \in SUBSET SN, acked \in SUBSET SN :
        /\ moved \cap acked = {}
        /\ \A sn \in moved : txedBuffer[sn] # NoPdu
        /\ txedBuffer' = [sn \in SN |->
                             IF sn \in moved \cup acked THEN NoPdu ELSE txedBuffer[sn]]
        /\ retxBuffer' = [sn \in SN |->
                             IF sn \in moved THEN txedBuffer[sn]
                             ELSE IF sn \in acked THEN NoPdu ELSE retxBuffer[sn]]
        /\ txedBufferSize' = txedBufferSize - BytesIn(txedBuffer, moved \cup acked)
        /\ retxBufferSize'
             = retxBufferSize + BytesIn(txedBuffer, moved) - BytesIn(retxBuffer, acked)
  <2> DEFINE moved == {sn \in SN : Nacked(s, sn) /\ txedBuffer[sn] # NoPdu}
             acked == {sn \in SN : Acked(s, sn)}
  <2>1. /\ moved \in SUBSET SN /\ acked \in SUBSET SN
        /\ moved \cap acked = {} /\ \A sn \in moved : txedBuffer[sn] # NoPdu
    BY DEF Nacked, Acked
  <2>2. QED BY <2>1 DEF ReceiveStatus, RetxBytesAfter
<1>2. /\ txedBuffer \in [SN -> Pdu] /\ retxBuffer \in [SN -> Pdu] /\ NoPdu \in Pdu
      /\ \A sn \in SN : txedBuffer[sn] = NoPdu \/ retxBuffer[sn] = NoPdu
  BY DEF TxInv, TxTypeOK, TxBuffersOK, Pdu, NoPdu
<1>3. txedBuffer' \in [SN -> Pdu] /\ retxBuffer' \in [SN -> Pdu]
  BY <1>1, <1>2
<1> DEFINE touched == moved \cup acked
<1>4. touched \in SUBSET SN OBVIOUS
<1>5. BytesIn(retxBuffer, touched) = BytesIn(retxBuffer, moved) + BytesIn(retxBuffer, acked)
  BY <1>1, <1>2, BytesUnion
<1>6. BytesIn(retxBuffer', touched) = BytesIn(retxBuffer', moved) + BytesIn(retxBuffer', acked)
  BY <1>1, <1>3, BytesUnion
<1>7. /\ \A sn \in SN \ touched : txedBuffer'[sn] = txedBuffer[sn] /\ retxBuffer'[sn] = retxBuffer[sn]
      /\ \A sn \in touched : txedBuffer'[sn] = NoPdu
      /\ \A sn \in moved : retxBuffer'[sn] = txedBuffer[sn] /\ retxBuffer[sn] = NoPdu
      /\ \A sn \in acked : retxBuffer'[sn] = NoPdu
  BY <1>1, <1>2
<1>8. BytesIn(retxBuffer, moved) = 0 /\ BytesIn(retxBuffer', acked) = 0
  BY <1>2, <1>3, <1>7, BytesNone
<1>9. BytesIn(retxBuffer', moved) = BytesIn(txedBuffer, moved)
  BY <1>2, <1>3, <1>7, BytesSame
<1> HIDE DEF touched
<1>10. BytesIn(txedBuffer', touched) = 0
  BY <1>3, <1>4, <1>7, BytesNone
<1>11. /\ BytesIn(txedBuffer', SN)
            = BytesIn(txedBuffer, SN) - BytesIn(txedBuffer, touched) + BytesIn(txedBuffer', touched)
       /\ BytesIn(retxBuffer', SN)
            = BytesIn(retxBuffer, SN) - BytesIn(retxBuffer, touched) + BytesIn(retxBuffer', touched)
  BY <1>2, <1>3, <1>4, <1>7, BytesMove
<1>12. /\ BytesIn(txedBuffer, SN) \in Nat /\ BytesIn(retxBuffer, SN) \in Nat
       /\ BytesIn(txedBuffer, touched) \in Nat /\ BytesIn(txedBuffer, moved) \in Nat
       /\ BytesIn(retxBuffer, acked) \in Nat
  BY <1>2, <1>4, BytesType
<1>13. BytesIn(txedBuffer, touched) = BytesIn(txedBuffer, moved \cup acked)
  BY DEF touched
<1>14. QED
  BY <1>1, <1>5, <1>6, <1>8, <1>9, <1>10, <1>11, <1>12, <1>13 DEF SizesExact

\* Every step keeps the counters exact.
LEMMA TxNextSizes == TxInv /\ SizesExact /\ [TxNext]_txVars => SizesExact'
<1> SUFFICES ASSUME TxInv, SizesExact, [TxNext]_txVars PROVE SizesExact'
  OBVIOUS
<1>1. ASSUME NEW size \in SduSizes, TransmitPdcpPdu(size) PROVE SizesExact'
  BY <1>1 DEF TransmitPdcpPdu, bufferVars, SizesExact
<1>2. ASSUME NEW bytes \in OppSizes, NEW len \in NewLens(bytes), TransmitNew(bytes, len)
      PROVE  SizesExact'
  BY <1>2, TransmitNewSizes
<1>3. ASSUME NEW bytes \in OppSizes, NEW sn \in SN, RetransmitRest(sn, bytes)
      PROVE  SizesExact'
  BY <1>3, RetransmitRestSizes
<1>4. ASSUME NEW bytes \in OppSizes, NEW sn \in SN,
             RetransmitSegment(sn, bytes) \/ RetransmitNothing(sn, bytes)
      PROVE  SizesExact'
  BY <1>4 DEF RetransmitSegment, RetransmitNothing, bufferVars, SizesExact
<1>5. ASSUME NEW s \in StatusPdu, ReceiveStatus(s) PROVE SizesExact'
  BY <1>5, ReceiveStatusSizes
<1>6. CASE ExpirePollRetransmitTimer
  BY <1>6, ExpirePollRetransmitTimerSizes
<1>7. CASE UNCHANGED txVars
  BY <1>7 DEF txVars, SizesExact
<1>8. QED BY <1>1, <1>2, <1>3, <1>4, <1>5, <1>6, <1>7 DEF TxNext

\* The buffers are empty at first, and so are the counters.
LEMMA TxInitSizes == TxInit => SizesExact
<1> SUFFICES ASSUME TxInit PROVE SizesExact
  OBVIOUS
<1>1. /\ txedBuffer = [sn \in SN |-> NoPdu] /\ retxBuffer = [sn \in SN |-> NoPdu]
      /\ txedBufferSize = 0 /\ retxBufferSize = 0
  BY DEF TxInit
<1>2. txedBuffer \in [SN -> Pdu] /\ retxBuffer \in [SN -> Pdu]
  BY <1>1 DEF Pdu, NoPdu
<1>3. BytesIn(txedBuffer, SN) = 0 /\ BytesIn(retxBuffer, SN) = 0
  BY <1>1, <1>2, BytesNone
<1>4. QED BY <1>1, <1>3 DEF SizesExact

\* Whatever STATUS PDUs arrive, m_txedBufferSize and m_retxBufferSize are the bytes
\* in the buffers: the unsigned subtractions of the five handlers never wrap.
THEOREM TxCountersExact == TxSpec => []SizesExact
<1>1. TxInit => TxInv /\ SizesExact BY TxInitInv, TxInitSizes
<1>2. TxInv /\ SizesExact /\ [TxNext]_txVars => (TxInv /\ SizesExact)'
  BY TxNextInv, TxNextSizes
<1>3. QED BY <1>1, <1>2, PTL DEF TxSpec

(***************************************************************************)
(* Polling, when every retransmission sends a whole PDU.                   *)
(***************************************************************************)

\* Behind every PDU that waits for an answer, nearer to VT(S), one waits for its
\* retransmission: the last of those will poll.
TailWaits ==
    \A sn \in SN : txedBuffer[sn] # NoPdu =>
        \E later \in SN : retxBuffer[later] # NoPdu /\ Rel(vtS, later) < Rel(vtS, sn)

\* Why the sender will be answered: it waits for the answer to a poll, or the next
\* new PDU will poll, or the last retransmission will.  While t-PollRetransmit
\* runs POLL_SN is the last SN in use, so an answer to the poll answers everything.
PollInv ==
    /\ \A sn \in SN : ~IsSegment(sn)
    /\ pollRetransmitTimer => pollSn = Dec(vtS)
    /\ \/ pollRetransmitTimer
       \/ ~WindowStalled /\ (pollRetransmitTimerJustExpired \/ txonBufferSize > 0)
       \/ TailWaits

\* The same order from VT(A) and from VT(S).
LEMMA NearerToTop ==
    ASSUME TxInv, NEW u \in SN, NEW v \in SN, InFlight(u), InFlight(v)
    PROVE  Rel(u, vtA) < Rel(v, vtA) <=> Rel(vtS, v) < Rel(vtS, u)
<1>1. vtA \in SN /\ vtS \in SN BY DEF TxInv, TxTypeOK
<1>2. /\ Rel(vtS, u) <= Rel(vtS, vtA) /\ Rel(vtS, v) <= Rel(vtS, vtA)
  BY <1>1, RelBetween DEF InFlight
<1>3. /\ Rel(u, vtA) = Rel(vtS, vtA) - Rel(vtS, u)
      /\ Rel(v, vtA) = Rel(vtS, vtA) - Rel(vtS, v)
  BY <1>1, <1>2, RelFromTop
<1>4. Rel(vtS, u) \in Nat /\ Rel(vtS, v) \in Nat /\ Rel(vtS, vtA) \in Nat
  BY <1>1, RelType
<1>5. QED BY <1>3, <1>4

\* A retransmission that does not poll leaves new data or a later retransmission
\* to do so.
LEMMA RetransmitRestPolls ==
    ASSUME TxInv, SizesExact, PollInv, NEW bytes \in OppSizes, NEW sn \in SN,
           RetransmitRest(sn, bytes)
    PROVE  PollInv'
<1>1. /\ retxBuffer[sn] \in Pdu /\ retxBuffer[sn] # NoPdu /\ InFlight(sn)
      /\ txedBuffer \in [SN -> Pdu] /\ retxBuffer \in [SN -> Pdu]
      /\ retxSegBuffer \in [SN -> Nat \cup {NoSeg}]
      /\ vtA \in SN /\ vtS \in SN /\ txonBufferSize \in Nat
  BY RetxFacts DEF RetransmitRest, TxInv, TxTypeOK
<1>2. /\ Poll(RetxPolls(sn), Dec(vtS))
      /\ txedBuffer' = [txedBuffer EXCEPT ![sn] = retxBuffer[sn]]
      /\ retxBuffer' = [retxBuffer EXCEPT ![sn] = NoPdu]
      /\ retxSegBuffer' = [retxSegBuffer EXCEPT ![sn] = NoSeg]
      /\ vtA' = vtA /\ vtS' = vtS /\ txonBufferSize' = txonBufferSize
  BY DEF RetransmitRest
<1>3. \A s \in SN : ~IsSegment(s)'
  BY <1>1, <1>2 DEF PollInv, IsSegment
<1>4. CASE RetxPolls(sn)
  BY <1>2, <1>3, <1>4 DEF Poll, PollInv
<1>5. CASE ~RetxPolls(sn)
  <2>1. UNCHANGED <<pollSn, pollRetransmitTimer, pollRetransmitTimerJustExpired>>
    BY <1>2, <1>5 DEF Poll
  <2>2. pollRetransmitTimer' => pollSn' = Dec(vtS')
    BY <1>2, <2>1 DEF PollInv
  <2>3. ~WindowStalled /\ ~pollRetransmitTimerJustExpired
    BY <1>5 DEF RetxPolls
  <2>4. CASE pollRetransmitTimer
    BY <1>3, <2>1, <2>2, <2>4 DEF PollInv
  <2>5. CASE txonBufferSize > 0
    <3>1. ~WindowStalled' BY <1>2, <2>3 DEF WindowStalled
    <3>2. QED BY <1>2, <1>3, <2>2, <2>5, <3>1 DEF PollInv
  <2>6. CASE ~pollRetransmitTimer /\ ~(txonBufferSize > 0)
    <3>1. TailWaits BY <2>3, <2>6 DEF PollInv
    <3>2. txonBufferSize = 0 BY <1>1, <2>6
    <3>3. retxBufferSize # HdrLen + RetxLen(sn) BY <1>5, <3>2 DEF RetxPolls
    <3>4. HdrLen + RetxLen(sn) = PduSize(retxBuffer[sn])
      <4>1. ~IsSegment(sn) /\ retxBuffer[sn].len \in Nat BY <1>1 DEF PollInv, Pdu
      <4>2. QED BY <1>1, <4>1 DEF RetxLen, RetxOffset, PduSize
    <3>5. PICK next \in SN \ {sn} : retxBuffer[next] # NoPdu
      <4>1. BytesIn(retxBuffer, SN \ {sn}) # 0
        BY <1>1, <3>3, <3>4, BytesAt DEF SizesExact
      <4>2. QED BY <1>1, <4>1, BytesNone
    <3>6. Rel(vtS, next) < Rel(vtS, sn)
      <4>1. InFlight(next) BY <3>5 DEF TxInv, TxBuffersOK
      <4>2. Rel(sn, vtA) <= Rel(next, vtA)
        BY <3>5, <4>1 DEF RetransmitRest, FirstForRetx, WaitsForRetx
      <4>3. Rel(sn, vtA) # Rel(next, vtA) BY <1>1, RelInjective
      <4>4. Rel(sn, vtA) \in Nat /\ Rel(next, vtA) \in Nat BY <1>1, RelType
      <4>5. QED BY <1>1, <4>1, <4>2, <4>3, <4>4, NearerToTop
    <3>7. ASSUME NEW x \in SN, txedBuffer'[x] # NoPdu
          PROVE  \E later \in SN : /\ retxBuffer'[later] # NoPdu
                                   /\ Rel(vtS', later) < Rel(vtS', x)
      <4>1. retxBuffer'[next] = retxBuffer[next] BY <1>1, <1>2, <3>5
      <4>2. CASE x = sn BY <1>2, <3>5, <3>6, <4>1, <4>2
      <4>3. CASE x # sn
        <5>1. PICK later \in SN : retxBuffer[later] # NoPdu /\ Rel(vtS, later) < Rel(vtS, x)
          BY <1>1, <1>2, <3>1, <3>7, <4>3 DEF TailWaits
        <5>2. CASE later # sn BY <1>1, <1>2, <5>1, <5>2
        <5>3. CASE later = sn
          <6>1. /\ Rel(vtS, next) \in Nat /\ Rel(vtS, sn) \in Nat /\ Rel(vtS, x) \in Nat
            BY <1>1, RelType
          <6>2. Rel(vtS, next) < Rel(vtS, x) BY <3>6, <5>1, <5>3, <6>1
          <6>3. QED BY <1>2, <3>5, <4>1, <6>2
        <5>4. QED BY <5>2, <5>3
      <4>4. QED BY <4>2, <4>3
    <3>8. TailWaits' BY <3>7 DEF TailWaits
    <3>9. QED BY <1>3, <2>2, <3>8 DEF PollInv
  <2>7. QED BY <2>4, <2>5, <2>6
<1>6. QED BY <1>4, <1>5

\* When t-PollRetransmit expires either everything unanswered waits for its
\* retransmission, or the next PDU polls.
LEMMA ExpirePollRetransmitTimerPolls ==
    ASSUME TxInv, PollInv, ExpirePollRetransmitTimer
    PROVE  PollInv'
<1>1. /\ pollRetransmitTimer' = FALSE /\ pollRetransmitTimerJustExpired' = TRUE
      /\ vtA' = vtA /\ vtS' = vtS /\ retxSegBuffer' = retxSegBuffer
  BY DEF ExpirePollRetransmitTimer
<1>2. \A sn \in SN : ~IsSegment(sn)'
  BY <1>1 DEF PollInv, IsSegment
<1>3. CASE ~WindowStalled
  <2>1. ~WindowStalled' BY <1>1, <1>3 DEF WindowStalled
  <2>2. QED BY <1>1, <1>2, <2>1 DEF PollInv
<1>4. CASE WindowStalled
  <2>1. \A sn \in SN : txedBuffer[sn] # NoPdu => InFlight(sn)
    BY DEF TxInv, TxBuffersOK
  <2>2. \A sn \in SN : txedBuffer'[sn] = NoPdu
    BY <1>4, <2>1 DEF ExpirePollRetransmitTimer
  <2>3. TailWaits' BY <2>2 DEF TailWaits
  <2>4. QED BY <1>1, <1>2, <2>3 DEF PollInv
<1>5. QED BY <1>3, <1>4

\* A STATUS PDU that answers the poll answers everything; one that does not leaves
\* what it does not report where it is.
LEMMA ReceiveStatusPolls ==
    ASSUME TxInv, PollInv, NEW s \in StatusPdu, ReceiveStatus(s)
    PROVE  PollInv'
<1>1. PICK moved \in SUBSET SN, acked \in SUBSET SN :
        /\ moved = {sn \in SN : Nacked(s, sn) /\ txedBuffer[sn] # NoPdu}
        /\ acked = {sn \in SN : Acked(s, sn)}
        /\ txedBuffer' = [sn \in SN |->
                             IF sn \in moved \cup acked THEN NoPdu ELSE txedBuffer[sn]]
        /\ retxBuffer' = [sn \in SN |->
                             IF sn \in moved THEN txedBuffer[sn]
                             ELSE IF sn \in acked THEN NoPdu ELSE retxBuffer[sn]]
        /\ retxSegBuffer' = [sn \in SN |->
                             IF sn \in acked /\ retxBuffer[sn] # NoPdu
                               THEN NoSeg ELSE retxSegBuffer[sn]]
  <2> DEFINE moved == {sn \in SN : Nacked(s, sn) /\ txedBuffer[sn] # NoPdu}
             acked == {sn \in SN : Acked(s, sn)}
  <2>1. moved \in SUBSET SN /\ acked \in SUBSET SN OBVIOUS
  <2>2. QED BY <2>1 DEF ReceiveStatus
<1>2. /\ pollRetransmitTimer' = (pollRetransmitTimer /\ ~Reported(s, pollSn))
      /\ pollRetransmitTimerJustExpired' = pollRetransmitTimerJustExpired
      /\ pollSn' = pollSn /\ vtS' = vtS /\ txonBufferSize' = txonBufferSize
  BY DEF ReceiveStatus
<1>3. /\ vtA \in SN /\ vtS \in SN /\ s.ack \in SN
      /\ pollRetransmitTimer \in BOOLEAN
      /\ \A sn \in SN : /\ txedBuffer[sn] # NoPdu \/ retxBuffer[sn] # NoPdu => InFlight(sn)
                        /\ txedBuffer[sn] = NoPdu \/ retxBuffer[sn] = NoPdu
  BY DEF TxInv, TxTypeOK, TxBuffersOK, StatusPdu
<1>4. \A sn \in SN : ~IsSegment(sn)'
  BY <1>1 DEF PollInv, IsSegment
<1>5. pollRetransmitTimer' => pollSn' = Dec(vtS')
  BY <1>2 DEF PollInv
<1>6. ASSUME NEW sn \in SN, txedBuffer'[sn] # NoPdu
      PROVE  txedBuffer[sn] # NoPdu /\ InFlight(sn) /\ ~Reported(s, sn)
  BY <1>1, <1>3, <1>6 DEF Nacked, Acked
<1>7. CASE pollRetransmitTimer /\ ~Reported(s, pollSn)
  BY <1>2, <1>4, <1>5, <1>7 DEF PollInv
<1>8. CASE pollRetransmitTimer /\ Reported(s, pollSn)
  <2>1. pollSn = Dec(vtS) /\ InFlight(pollSn) /\ Rel(pollSn, vtA) < Rel(s.ack, vtA)
    BY <1>8 DEF PollInv, Reported
  <2>2. ASSUME NEW sn \in SN, InFlight(sn) PROVE Reported(s, sn)
    <3>1. Rel(sn, vtA) <= Rel(Dec(vtS), vtA)
      BY <1>3, <2>1, <2>2, RelDec DEF InFlight
    <3>2. Dec(vtS) \in SN BY <1>3, IncDecType
    <3>3. /\ Rel(sn, vtA) \in Nat /\ Rel(Dec(vtS), vtA) \in Nat /\ Rel(s.ack, vtA) \in Nat
      BY <1>3, <3>2, RelType
    <3>4. QED BY <2>1, <2>2, <3>1, <3>3 DEF Reported
  <2>3. TailWaits' BY <1>6, <2>2 DEF TailWaits
  <2>4. QED BY <1>4, <1>5, <2>3 DEF PollInv
<1>9. CASE ~WindowStalled /\ (pollRetransmitTimerJustExpired \/ txonBufferSize > 0)
  <2>1. PICK k \in 0 .. WindowSize : Rel(vtS, vtA') = Rel(vtS, vtA) - k
    BY AckedRun
  <2>2. Rel(vtS, vtA) \in Nat /\ WindowSize \in Nat /\ k \in Nat
    BY <1>3, RelType, SequenceNumberAssumption
  <2>3. ~WindowStalled' BY <1>2, <1>9, <2>1, <2>2 DEF WindowStalled
  <2>4. QED BY <1>2, <1>4, <1>5, <1>9, <2>3 DEF PollInv
<1>10. CASE TailWaits
  <2>1. ASSUME NEW sn \in SN, txedBuffer'[sn] # NoPdu
        PROVE  \E later \in SN : /\ retxBuffer'[later] # NoPdu
                                 /\ Rel(vtS', later) < Rel(vtS', sn)
    <3>1. PICK later \in SN : retxBuffer[later] # NoPdu /\ Rel(vtS, later) < Rel(vtS, sn)
      BY <1>6, <1>10, <2>1 DEF TailWaits
    <3>2. InFlight(later) /\ txedBuffer[later] = NoPdu BY <1>3, <3>1
    <3>3. InFlight(sn) /\ ~Reported(s, sn) BY <1>6, <2>1
    <3>4. Rel(sn, vtA) < Rel(later, vtA) BY <3>1, <3>2, <3>3, NearerToTop
    <3>5. /\ Rel(sn, vtA) \in Nat /\ Rel(later, vtA) \in Nat /\ Rel(s.ack, vtA) \in Nat
      BY <1>3, RelType
    <3>6. ~Reported(s, later) BY <3>3, <3>4, <3>5 DEF Reported
    <3>7. later \notin moved /\ later \notin acked
      BY <1>1, <3>2, <3>6 DEF Acked
    <3>8. retxBuffer'[later] = retxBuffer[later] BY <1>1, <3>7
    <3>9. QED BY <1>2, <3>1, <3>8
  <2>2. TailWaits' BY <2>1 DEF TailWaits
  <2>3. QED BY <1>4, <1>5, <2>2 DEF PollInv
<1>11. QED BY <1>7, <1>8, <1>9, <1>10 DEF PollInv

\* Every step keeps the polling invariant.
LEMMA TxNextPolls ==
    ASSUME RetxAlwaysBigEnough, TxInv, SizesExact, PollInv, [TxNext]_txVars
    PROVE  PollInv'
<1> USE DEF PollInv
<1>1. ASSUME NEW size \in SduSizes, TransmitPdcpPdu(size) PROVE PollInv'
  <2>1. txonBufferSize \in Nat /\ txonBufferSize' = txonBufferSize + size /\ size \in Nat
    BY <1>1, TxAssumption DEF TransmitPdcpPdu, TxInv, TxTypeOK
  <2>2. UNCHANGED <<vtA, vtS, txedBuffer, retxBuffer, retxSegBuffer, pollSn,
                    pollRetransmitTimer, pollRetransmitTimerJustExpired>>
    BY <1>1 DEF TransmitPdcpPdu, bufferVars
  <2>3. QED BY <2>1, <2>2 DEF TailWaits, IsSegment, WindowStalled
<1>2. ASSUME NEW bytes \in OppSizes, NEW len \in NewLens(bytes), TransmitNew(bytes, len)
      PROVE  PollInv'
  <2>1. /\ pollSn' = vtS /\ pollRetransmitTimer' = TRUE /\ vtS' = Inc(vtS)
        /\ retxSegBuffer' = retxSegBuffer
    BY <1>2 DEF TransmitNew, Poll
  <2>2. vtS \in SN BY DEF TxInv, TxTypeOK
  <2>3. Dec(Inc(vtS)) = vtS BY <2>2, SequenceNumberAssumption DEF Inc, Dec, SN
  <2>4. Dec(vtS') = vtS BY <2>1, <2>3
  <2>5. QED BY <2>1, <2>4 DEF IsSegment
<1>3. ASSUME NEW bytes \in OppSizes, NEW sn \in SN, RetransmitRest(sn, bytes)
      PROVE  PollInv'
  BY <1>3, RetransmitRestPolls
<1>4. ASSUME NEW bytes \in OppSizes, NEW sn \in SN,
             RetransmitSegment(sn, bytes) \/ RetransmitNothing(sn, bytes)
      PROVE  PollInv'
  BY <1>4 DEF RetransmitSegment, RetransmitNothing, RetxFits
<1>5. ASSUME NEW s \in StatusPdu, ReceiveStatus(s) PROVE PollInv'
  BY <1>5, ReceiveStatusPolls
<1>6. CASE ExpirePollRetransmitTimer
  BY <1>6, ExpirePollRetransmitTimerPolls
<1>7. CASE UNCHANGED txVars
  BY <1>7 DEF txVars, TailWaits, IsSegment, WindowStalled
<1>8. QED BY <1>1, <1>2, <1>3, <1>4, <1>5, <1>6, <1>7 DEF TxNext

\* At first nothing was sent.
LEMMA TxInitPolls == TxInit => PollInv
BY DEF TxInit, PollInv, TailWaits, IsSegment

---------------------------------------------------------------------------
(***************************************************************************)
(* The receiving side.                                                     *)
(***************************************************************************)

\* The inductive invariant: the window alone is not inductive, because VR(MS)
\* restarts from VR(X) when t-Reordering expires.
RxInv == RxTypeOK /\ RxWindowOK /\ ReorderingOK

\* What a walk over complete entries cannot do: pass an SN without an entry.
LEMMA FirstIncompleteFacts ==
    ASSUME NEW buffer \in [SN -> RxEntry], NEW base \in SN,
           NEW from \in SN, NEW top \in SN, NEW first \in SN,
           Rel(from, base) <= Rel(top, base), Rel(top, base) <= WindowSize,
           ~buffer[top].complete,
           FirstIncomplete(buffer, from, first)
    PROVE  /\ ~buffer[first].complete
           /\ Rel(from, base) <= Rel(first, base)
           /\ Rel(first, base) <= Rel(top, base)
           /\ \A sn \in SN : Rel(from, base) <= Rel(sn, base) /\ Rel(sn, base) < Rel(first, base)
                               => buffer[sn].complete
<1>1. PICK n \in 0 .. WindowSize :
        /\ first = Plus(from, n)
        /\ ~buffer[first].complete
        /\ \A i \in 0 .. n - 1 : buffer[Plus(from, i)].complete
  BY DEF FirstIncomplete
<1>2. /\ Modulus \in Nat /\ WindowSize \in Nat /\ WindowSize < Modulus
      /\ n \in Nat
  BY SequenceNumberAssumption
<1>3. /\ Rel(from, base) \in Nat /\ Rel(top, base) \in Nat
      /\ Rel(from, base) < Modulus /\ Rel(top, base) < Modulus
  BY RelType
<1>4. ASSUME NEW sn \in SN, Rel(from, base) <= Rel(sn, base)
      PROVE  /\ Rel(sn, base) - Rel(from, base) \in Nat
             /\ Plus(from, Rel(sn, base) - Rel(from, base)) = sn
  <2> DEFINE k == Rel(sn, base) - Rel(from, base)
  <2>1. Rel(sn, base) \in Nat /\ Rel(sn, base) < Modulus BY RelType
  <2>2. k \in Nat /\ Rel(from, base) + k = Rel(sn, base) BY <1>3, <1>4, <2>1
  <2>3. Plus(from, k) \in SN /\ Rel(Plus(from, k), base) = Rel(sn, base)
    BY <2>1, <2>2, RelPlusPlus
  <2>4. QED BY <2>2, <2>3, RelInjective
<1>5. n <= Rel(top, base) - Rel(from, base)
  <2>1. SUFFICES ASSUME Rel(top, base) - Rel(from, base) < n PROVE FALSE
    BY <1>2, <1>3
  <2>2. Rel(top, base) - Rel(from, base) \in 0 .. n - 1
    BY <1>2, <1>3, <2>1
  <2>3. Plus(from, Rel(top, base) - Rel(from, base)) = top BY <1>4
  <2>4. QED BY <1>1, <2>2, <2>3
<1>6. Rel(first, base) = Rel(from, base) + n
  BY <1>1, <1>2, <1>3, <1>5, RelPlusPlus
<1>7. ASSUME NEW sn \in SN,
             Rel(from, base) <= Rel(sn, base), Rel(sn, base) < Rel(first, base)
      PROVE  buffer[sn].complete
  <2>1. Rel(sn, base) - Rel(from, base) \in 0 .. n - 1
    BY <1>2, <1>3, <1>4, <1>6, <1>7, RelType
  <2>2. Plus(from, Rel(sn, base) - Rel(from, base)) = sn BY <1>4, <1>7
  <2>3. QED BY <1>1, <2>1, <2>2
<1>8. QED BY <1>1, <1>2, <1>3, <1>5, <1>6, <1>7

\* RxInit establishes the invariant.
LEMMA RxInitInv == RxInit => RxInv
<1> SUFFICES ASSUME RxInit PROVE RxInv
  OBVIOUS
<1>1. 0 \in SN /\ Rel(0, 0) = 0 /\ WindowSize \in Nat
  BY SequenceNumberAssumption DEF SN, Rel
<1>2. NoEntry \in RxEntry /\ ~NoEntry.complete BY DEF NoEntry, RxEntry
<1>3. RxTypeOK BY <1>1, <1>2 DEF RxInit, RxTypeOK
<1>4. RxWindowOK BY <1>1, <1>2 DEF RxInit, RxWindowOK
<1>5. ReorderingOK BY DEF RxInit, ReorderingOK
<1>6. QED BY <1>3, <1>4, <1>5 DEF RxInv

\* What PlacePdu leaves in the reception buffer before it delivers.
LEMMA PlacedType ==
    ASSUME NEW entry \in RxEntry, NEW pdu \in WireSet
    PROVE  /\ Placed(entry, pdu) \in RxEntry
           /\ entry.complete => Placed(entry, pdu) = entry
<1>1. NoEntry \in RxEntry /\ ~NoEntry.complete BY DEF RxEntry, NoEntry
<1>2. /\ entry.id \in Nat /\ entry.len \in Nat /\ entry.complete \in BOOLEAN
      /\ pdu.id \in Nat /\ pdu.len \in Nat /\ pdu.last \in BOOLEAN /\ pdu.segment \in BOOLEAN
  BY DEF RxEntry, WireSet
<1>3. [id |-> pdu.id, len |-> pdu.len, complete |-> ~pdu.segment] \in RxEntry
  BY <1>2 DEF RxEntry
<1>4. [id |-> entry.id, len |-> entry.len + pdu.len, complete |-> pdu.last] \in RxEntry
  BY <1>2 DEF RxEntry
<1>5. QED BY <1>1, <1>3, <1>4 DEF Placed

\* A PDU outside the window changes only what is asked of the next STATUS PDU.
LEMMA DiscardPduInv ==
    ASSUME RxInv, NEW pdu \in WireSet, DiscardPdu(pdu)
    PROVE  RxInv' /\ Rel(vrMs, vrR) <= Rel(vrMs', vrR)
<1>1. pdu.poll \in BOOLEAN BY DEF WireSet
<1>2. RxTypeOK' BY <1>1 DEF RxInv, RxTypeOK, DiscardPdu
<1>3. RxWindowOK' /\ ReorderingOK'
  BY DEF RxInv, RxWindowOK, ReorderingOK, DiscardPdu
<1>4. Rel(vrMs, vrR) \in Nat /\ vrMs' = vrMs
  BY RelType DEF RxInv, RxTypeOK, DiscardPdu
<1>5. QED BY <1>2, <1>3, <1>4 DEF RxInv

\* The payloads handed on form a sequence of payloads.
LEMMA PayloadsType ==
    ASSUME NEW buffer \in [SN -> RxEntry], NEW from \in SN, NEW to \in SN
    PROVE  Payloads(buffer, from, to) \in Seq([id : Nat, len : Nat])
<1>1. Rel(to, from) \in Nat /\ Rel(to, from) < Modulus BY RelType
<1>2. ASSUME NEW i \in 1 .. Rel(to, from)
      PROVE  Payloads(buffer, from, to)[i] \in [id : Nat, len : Nat]
  <2>1. i - 1 \in Nat /\ i - 1 < Modulus
    BY <1>1, SequenceNumberAssumption
  <2>2. buffer[Plus(from, i - 1)] \in RxEntry BY <2>1, RelPlus
  <2>3. QED BY <2>2 DEF Payloads, RxEntry
<1>3. Payloads(buffer, from, to) \in [1 .. Rel(to, from) -> [id : Nat, len : Nat]]
  BY <1>2 DEF Payloads
<1>4. Payloads(buffer, from, to) \in
        UNION {[1 .. n -> [id : Nat, len : Nat]] : n \in Nat}
  BY <1>1, <1>3
<1>5. QED BY <1>4, SeqDef

\* The reception buffer and VR(H) with pdu placed.
BufferWith(pdu)  == [rxonBuffer EXCEPT ![pdu.sn] = Placed(@, pdu)]
HighestWith(pdu) ==
    IF Rel(pdu.sn, vrR) >= Rel(vrH, vrR) THEN Inc(pdu.sn) ELSE vrH

\* Where the two walks over complete entries of PlacePdu end: neither passes the
\* new VR(H), and each passes complete entries only.
LEMMA PlacePduWalks ==
    ASSUME RxInv, NEW pdu \in WireSet, PlacePdu(pdu)
    PROVE  /\ BufferWith(pdu) \in [SN -> RxEntry]
           /\ \A sn \in SN : sn # pdu.sn => BufferWith(pdu)[sn] = rxonBuffer[sn]
           /\ \A sn \in SN : rxonBuffer[sn].complete => BufferWith(pdu)[sn] = rxonBuffer[sn]
           /\ HighestWith(pdu) \in SN
           /\ Rel(vrH, vrR) <= Rel(HighestWith(pdu), vrR)
           /\ Rel(HighestWith(pdu), vrR) <= WindowSize
           /\ Rel(pdu.sn, vrR) < Rel(HighestWith(pdu), vrR)
           /\ \A sn \in SN : BufferWith(pdu)[sn] # NoEntry
                              => Rel(sn, vrR) < Rel(HighestWith(pdu), vrR)
           /\ ~BufferWith(pdu)[vrMs'].complete
           /\ Rel(vrMs, vrR) <= Rel(vrMs', vrR)
           /\ Rel(vrMs', vrR) <= Rel(HighestWith(pdu), vrR)
           /\ \A sn \in SN : Rel(vrMs, vrR) <= Rel(sn, vrR) /\ Rel(sn, vrR) < Rel(vrMs', vrR)
                              => BufferWith(pdu)[sn].complete
           /\ ~BufferWith(pdu)[vrR'].complete
           /\ Rel(vrR', vrR) <= Rel(HighestWith(pdu), vrR)
           /\ \A sn \in SN : Rel(sn, vrR) < Rel(vrR', vrR) => BufferWith(pdu)[sn].complete
<1> DEFINE buffer == BufferWith(pdu)
           h      == HighestWith(pdu)
<1>1. /\ IsInsideReceivingWindow(vrR, pdu.sn)
      /\ vrMs' \in SN /\ FirstIncomplete(buffer, vrMs, vrMs')
      /\ vrR' \in SN
      /\ IF pdu.sn = vrR THEN FirstIncomplete(buffer, vrR, vrR') ELSE vrR' = vrR
  BY DEF PlacePdu, BufferWith
<1>2. /\ vrR \in SN /\ vrX \in SN /\ vrMs \in SN /\ vrH \in SN
      /\ rxonBuffer \in [SN -> RxEntry]
      /\ pdu.sn \in SN
  BY DEF RxInv, RxTypeOK, WireSet
<1>3. Modulus \in Nat /\ WindowSize \in Nat /\ WindowSize > 0 /\ 2 * WindowSize <= Modulus
  BY SequenceNumberAssumption
<1>4. /\ Rel(vrMs, vrR) <= Rel(vrH, vrR)
      /\ Rel(vrH, vrR) <= WindowSize
      /\ \A sn \in SN : rxonBuffer[sn] # NoEntry => Rel(sn, vrR) < Rel(vrH, vrR)
  BY DEF RxInv, RxWindowOK
<1>5. /\ buffer \in [SN -> RxEntry]
      /\ \A sn \in SN : sn # pdu.sn => buffer[sn] = rxonBuffer[sn]
      /\ \A sn \in SN : rxonBuffer[sn].complete => buffer[sn] = rxonBuffer[sn]
  BY <1>2, PlacedType DEF BufferWith
<1>6. /\ h \in SN
      /\ Rel(vrH, vrR) <= Rel(h, vrR) /\ Rel(h, vrR) <= WindowSize
      /\ Rel(pdu.sn, vrR) < Rel(h, vrR)
  <2>1. Rel(pdu.sn, vrR) < WindowSize BY <1>1 DEF IsInsideReceivingWindow
  <2>2. Rel(pdu.sn, vrR) \in Nat /\ Rel(vrH, vrR) \in Nat BY <1>2, RelType
  <2>3. CASE Rel(pdu.sn, vrR) >= Rel(vrH, vrR)
    <3>1. h = Inc(pdu.sn) BY <2>3 DEF HighestWith
    <3>2. h \in SN /\ Rel(h, vrR) = Rel(pdu.sn, vrR) + 1
      BY <1>2, <2>1, <3>1, IncDecType, RelInc
    <3>3. QED BY <1>3, <2>1, <2>2, <2>3, <3>2
  <2>4. CASE ~(Rel(pdu.sn, vrR) >= Rel(vrH, vrR))
    BY <1>2, <1>4, <2>2, <2>4 DEF HighestWith
  <2>5. QED BY <2>3, <2>4
<1> HIDE DEF buffer, h
<1>7. \A sn \in SN : buffer[sn] # NoEntry => Rel(sn, vrR) < Rel(h, vrR)
  <2>1. SUFFICES ASSUME NEW sn \in SN, buffer[sn] # NoEntry
                 PROVE  Rel(sn, vrR) < Rel(h, vrR)
    OBVIOUS
  <2>2. Rel(sn, vrR) \in Nat /\ Rel(vrH, vrR) \in Nat /\ Rel(h, vrR) \in Nat
    BY <1>2, <1>6, RelType
  <2>3. CASE sn = pdu.sn BY <1>6, <2>3
  <2>4. CASE sn # pdu.sn BY <1>4, <1>5, <1>6, <2>1, <2>2, <2>4
  <2>5. QED BY <2>3, <2>4
<1>8. ~buffer[h].complete
  <2>1. Rel(h, vrR) \in Nat BY <1>2, <1>6, RelType
  <2>2. buffer[h] = NoEntry BY <1>6, <1>7, <2>1
  <2>3. QED BY <2>2 DEF NoEntry
<1>9. /\ ~buffer[vrMs'].complete
      /\ Rel(vrMs, vrR) <= Rel(vrMs', vrR)
      /\ Rel(vrMs', vrR) <= Rel(h, vrR)
      /\ \A sn \in SN : Rel(vrMs, vrR) <= Rel(sn, vrR) /\ Rel(sn, vrR) < Rel(vrMs', vrR)
                          => buffer[sn].complete
  <2>1. Rel(vrMs, vrR) <= Rel(h, vrR)
    <3>1. /\ Rel(vrMs, vrR) \in Nat /\ Rel(vrH, vrR) \in Nat /\ Rel(h, vrR) \in Nat
      BY <1>2, <1>6, RelType
    <3>2. QED BY <1>4, <1>6, <3>1
  <2>2. QED BY <1>1, <1>2, <1>5, <1>6, <1>8, <2>1, FirstIncompleteFacts
<1>10. /\ ~buffer[vrR'].complete
       /\ Rel(vrR', vrR) <= Rel(h, vrR)
       /\ \A sn \in SN : Rel(sn, vrR) < Rel(vrR', vrR) => buffer[sn].complete
  <2>1. Rel(vrR, vrR) = 0 BY <1>2 DEF SN, Rel
  <2>2. Rel(h, vrR) \in Nat /\ \A sn \in SN : Rel(sn, vrR) \in Nat
    BY <1>2, <1>6, RelType
  <2>3. CASE pdu.sn = vrR
    <3>1. FirstIncomplete(buffer, vrR, vrR') /\ Rel(vrR, vrR) <= Rel(h, vrR)
      BY <1>1, <2>1, <2>2, <2>3
    <3>2. /\ ~buffer[vrR'].complete
          /\ Rel(vrR', vrR) <= Rel(h, vrR)
          /\ \A sn \in SN : Rel(vrR, vrR) <= Rel(sn, vrR) /\ Rel(sn, vrR) < Rel(vrR', vrR)
                              => buffer[sn].complete
      BY <1>1, <1>2, <1>5, <1>6, <1>8, <3>1, FirstIncompleteFacts
    <3>3. QED BY <2>1, <2>2, <3>2
  <2>4. CASE pdu.sn # vrR
    <3>1. vrR' = vrR BY <1>1, <2>4
    <3>2. ~buffer[vrR].complete
      BY <1>2, <1>5, <2>4 DEF RxInv, RxWindowOK
    <3>3. QED BY <2>1, <2>2, <3>1, <3>2
  <2>5. QED BY <2>3, <2>4
<1>11. QED BY <1>5, <1>6, <1>7, <1>9, <1>10 DEF buffer, h

\* Placing a PDU moves VR(MS), VR(R) and VR(H) up together.
LEMMA PlacePduInv ==
    ASSUME RxInv, NEW pdu \in WireSet, PlacePdu(pdu)
    PROVE  RxInv' /\ Rel(vrMs, vrR) <= Rel(vrMs', vrR)
<1> DEFINE buffer == BufferWith(pdu)
           h      == HighestWith(pdu)
<1>1. /\ IsInsideReceivingWindow(vrR, pdu.sn)
      /\ statusPduRequested' = (statusPduRequested \/ pdu.poll)
      /\ vrH' = h
      /\ vrMs' \in SN /\ FirstIncomplete(buffer, vrMs, vrMs')
      /\ vrR' \in SN
      /\ IF pdu.sn = vrR THEN FirstIncomplete(buffer, vrR, vrR') ELSE vrR' = vrR
      /\ delivered' = delivered \o Payloads(buffer, vrR, vrR')
      /\ rxonBuffer' = [sn \in SN |->
                          IF Rel(sn, vrR) < Rel(vrR', vrR) THEN NoEntry ELSE buffer[sn]]
      /\ UpdateReorderingTimer(vrR', h)
      /\ statusProhibitTimer' = statusProhibitTimer
  BY DEF PlacePdu, BufferWith, HighestWith
<1>2. /\ vrR \in SN /\ vrX \in SN /\ vrMs \in SN /\ vrH \in SN
      /\ rxonBuffer \in [SN -> RxEntry]
      /\ pdu.sn \in SN /\ pdu.poll \in BOOLEAN
  BY DEF RxInv, RxTypeOK, WireSet
<1>3. Modulus \in Nat /\ WindowSize \in Nat /\ WindowSize > 0 /\ 2 * WindowSize <= Modulus
  BY SequenceNumberAssumption
<1>4. /\ Rel(vrMs, vrR) <= Rel(vrH, vrR)
      /\ Rel(vrH, vrR) <= WindowSize
      /\ \A sn \in SN : rxonBuffer[sn] # NoEntry => Rel(sn, vrR) < Rel(vrH, vrR)
  BY DEF RxInv, RxWindowOK
<1>5. /\ buffer \in [SN -> RxEntry]
      /\ \A sn \in SN : sn # pdu.sn => buffer[sn] = rxonBuffer[sn]
      /\ \A sn \in SN : rxonBuffer[sn].complete => buffer[sn] = rxonBuffer[sn]
  BY PlacePduWalks
<1>6. /\ h \in SN
      /\ Rel(vrH, vrR) <= Rel(h, vrR) /\ Rel(h, vrR) <= WindowSize
      /\ Rel(pdu.sn, vrR) < Rel(h, vrR)
  BY PlacePduWalks
<1>7. \A sn \in SN : buffer[sn] # NoEntry => Rel(sn, vrR) < Rel(h, vrR)
  BY PlacePduWalks
<1>9. /\ ~buffer[vrMs'].complete
      /\ Rel(vrMs, vrR) <= Rel(vrMs', vrR)
      /\ Rel(vrMs', vrR) <= Rel(h, vrR)
      /\ \A sn \in SN : Rel(vrMs, vrR) <= Rel(sn, vrR) /\ Rel(sn, vrR) < Rel(vrMs', vrR)
                          => buffer[sn].complete
  BY PlacePduWalks
<1>10. /\ ~buffer[vrR'].complete
       /\ Rel(vrR', vrR) <= Rel(h, vrR)
       /\ \A sn \in SN : Rel(sn, vrR) < Rel(vrR', vrR) => buffer[sn].complete
  BY PlacePduWalks
<1> HIDE DEF buffer, h
<1>11. Rel(vrR', vrR) <= Rel(vrMs', vrR)
  <2>1. Rel(vrR', vrR) \in Nat /\ Rel(vrMs', vrR) \in Nat BY <1>1, <1>2, RelType
  <2>2. QED BY <1>1, <1>9, <1>10, <2>1
<1>12. ASSUME NEW sn \in SN, Rel(vrR', vrR) <= Rel(sn, vrR)
       PROVE  /\ Rel(sn, vrR') = Rel(sn, vrR) - Rel(vrR', vrR)
              /\ rxonBuffer'[sn] = buffer[sn]
  <2>1. Rel(vrR', vrR) \in Nat /\ Plus(vrR, Rel(vrR', vrR)) = vrR'
    BY <1>1, <1>2, RelType
  <2>2. Rel(sn, vrR') = Rel(sn, vrR) - Rel(vrR', vrR)
    BY <1>2, <1>12, <2>1, RelMoveBase
  <2>3. Rel(sn, vrR) \in Nat BY <1>2, RelType
  <2>4. rxonBuffer'[sn] = buffer[sn] BY <1>1, <1>12, <2>1, <2>3
  <2>5. QED BY <2>2, <2>4
<1>13. \A sn \in SN : Rel(sn, vrR) < Rel(vrR', vrR) => rxonBuffer'[sn] = NoEntry
  BY <1>1
<1>14. RxTypeOK'
  <2>1. vrX' \in SN /\ reorderingTimer' \in BOOLEAN
    BY <1>1, <1>2, <1>6 DEF UpdateReorderingTimer, RxInv, RxTypeOK
  <2>2. NoEntry \in RxEntry BY DEF NoEntry, RxEntry
  <2>3. rxonBuffer' \in [SN -> RxEntry]
    BY <1>1, <1>5, <2>2
  <2>4. delivered' \in Seq([id : Nat, len : Nat])
    BY <1>1, <1>2, <1>5, PayloadsType, ConcatProperties DEF RxInv, RxTypeOK
  <2>5. statusPduRequested' \in BOOLEAN /\ statusProhibitTimer' \in BOOLEAN
    BY <1>1, <1>2 DEF RxInv, RxTypeOK
  <2>6. QED BY <1>1, <1>6, <2>1, <2>3, <2>4, <2>5 DEF RxTypeOK
<1>15. /\ Rel(h, vrR) \in Nat /\ Rel(vrR', vrR) \in Nat /\ Rel(vrMs', vrR) \in Nat
       /\ Rel(vrMs, vrR) \in Nat
  BY <1>1, <1>2, <1>6, RelType
<1>16. /\ Rel(h, vrR') = Rel(h, vrR) - Rel(vrR', vrR)
       /\ Rel(vrMs', vrR') = Rel(vrMs', vrR) - Rel(vrR', vrR)
  BY <1>1, <1>6, <1>10, <1>11, <1>12
<1>17. RxWindowOK'
  <2>1. Rel(vrMs', vrR') <= Rel(vrH', vrR') /\ Rel(vrH', vrR') <= WindowSize
    BY <1>1, <1>3, <1>6, <1>9, <1>15, <1>16
  <2>2. ASSUME NEW sn \in SN, rxonBuffer'[sn] # NoEntry
        PROVE  Rel(sn, vrR') < Rel(vrH', vrR')
    <3>1. Rel(sn, vrR) \in Nat BY <1>2, RelType
    <3>2. Rel(vrR', vrR) <= Rel(sn, vrR) BY <1>13, <1>15, <2>2, <3>1
    <3>3. Rel(sn, vrR) < Rel(h, vrR) BY <1>7, <1>12, <2>2, <3>2
    <3>4. QED BY <1>1, <1>12, <1>15, <1>16, <3>1, <3>2, <3>3
  <2>3. ~rxonBuffer'[vrR'].complete
    BY <1>1, <1>10, <1>12, <1>15
  <2>4. ~rxonBuffer'[vrMs'].complete
    BY <1>1, <1>9, <1>11, <1>12
  <2>5. QED BY <2>1, <2>2, <2>3, <2>4 DEF RxWindowOK
<1>18. ReorderingOK'
  <2>1. SUFFICES ASSUME reorderingTimer'
                 PROVE  /\ 0 < Rel(vrX', vrR') /\ Rel(vrX', vrR') <= Rel(vrH', vrR')
                        /\ \A sn \in SN : Rel(vrX', vrR') <= Rel(sn, vrR')
                                           /\ Rel(sn, vrR') < Rel(vrMs', vrR')
                                           => rxonBuffer'[sn].complete
    BY DEF ReorderingOK
  <2> DEFINE running == /\ reorderingTimer
                        /\ vrX # vrR'
                        /\ IsInsideReceivingWindow(vrR', vrX) \/ vrX = Plus(vrR', WindowSize)
             starts  == ~running /\ Rel(h, vrR') > 0
  <2>2. reorderingTimer' = (running \/ starts) /\ vrX' = IF starts THEN h ELSE vrX
    BY <1>1 DEF UpdateReorderingTimer
  <2>3. CASE starts
    <3>1. vrX' = h /\ vrH' = h BY <1>1, <2>2, <2>3
    <3>2. \A sn \in SN : Rel(sn, vrR') \in Nat BY <1>1, RelType
    <3>3. Rel(vrMs', vrR') <= Rel(h, vrR') BY <1>9, <1>15, <1>16
    <3>4. QED BY <1>1, <1>6, <2>3, <3>1, <3>2, <3>3
  <2>4. CASE running
    <3>1. vrX' = vrX BY <2>2, <2>4
    <3>2. /\ 0 < Rel(vrX, vrR) /\ Rel(vrX, vrR) <= Rel(vrH, vrR)
          /\ \A sn \in SN : Rel(vrX, vrR) <= Rel(sn, vrR) /\ Rel(sn, vrR) < Rel(vrMs, vrR)
                             => rxonBuffer[sn].complete
      BY <2>4 DEF RxInv, ReorderingOK
    <3>3. Rel(vrX, vrR) \in Nat /\ Rel(vrX, vrR') \in Nat /\ Rel(vrH, vrR) \in Nat
      BY <1>1, <1>2, RelType
    <3>4. Rel(vrX, vrR') <= WindowSize /\ Rel(vrX, vrR') # 0
      <4>1. Rel(vrX, vrR') # 0
        <5>1. Rel(vrR', vrR') = 0
          <6>1. vrR' \in SN BY <1>1
          <6>2. \A v \in SN : Rel(v, v) = 0 BY DEF SN, Rel
          <6>3. QED BY <6>1, <6>2
        <5>2. vrX # vrR' BY <2>4
        <5>3. QED BY <1>1, <1>2, <5>1, <5>2, RelInjective
      <4>2. CASE IsInsideReceivingWindow(vrR', vrX)
        BY <1>3, <3>3, <4>1, <4>2 DEF IsInsideReceivingWindow
      <4>3. CASE vrX = Plus(vrR', WindowSize)
        BY <1>1, <1>3, <4>1, <4>3, RelPlus
      <4>4. QED BY <2>4, <4>2, <4>3
    <3>5. Rel(vrR', vrR) <= Rel(vrX, vrR)
      <4>1. SUFFICES ASSUME Rel(vrX, vrR) < Rel(vrR', vrR) PROVE FALSE
        BY <1>15, <3>3
      <4>2. Plus(vrR, Rel(vrR', vrR)) = vrR' /\ Rel(vrR', vrR) < Modulus
        BY <1>1, <1>2, RelType
      <4>3. Rel(vrX, vrR') = Rel(vrX, vrR) - Rel(vrR', vrR) + Modulus
        BY <1>2, <1>15, <4>1, <4>2, RelMoveBaseBeyond
      <4>4. Rel(vrR', vrR) <= WindowSize BY <1>3, <1>6, <1>10, <1>15
      <4>5. QED BY <1>3, <1>15, <3>2, <3>3, <3>4, <4>3, <4>4
    <3>6. Rel(vrX, vrR') = Rel(vrX, vrR) - Rel(vrR', vrR)
      BY <1>2, <1>12, <3>5
    <3>7. Rel(vrX, vrR') <= Rel(vrH', vrR')
      BY <1>1, <1>6, <1>15, <1>16, <3>2, <3>3, <3>6
    <3>8. ASSUME NEW sn \in SN,
                 Rel(vrX, vrR') <= Rel(sn, vrR'), Rel(sn, vrR') < Rel(vrMs', vrR')
          PROVE  rxonBuffer'[sn].complete
      <4>1. /\ Rel(sn, vrR) \in Nat /\ Rel(sn, vrR') \in Nat
            /\ Rel(sn, vrR) < Modulus
        BY <1>1, <1>2, RelType
      <4>2. Rel(vrR', vrR) <= Rel(sn, vrR)
        <5>1. SUFFICES ASSUME Rel(sn, vrR) < Rel(vrR', vrR) PROVE FALSE
          BY <1>15, <4>1
        <5>2. Plus(vrR, Rel(vrR', vrR)) = vrR' /\ Rel(vrR', vrR) < Modulus
          BY <1>1, <1>2, RelType
        <5>3. Rel(sn, vrR') = Rel(sn, vrR) - Rel(vrR', vrR) + Modulus
          BY <1>2, <1>15, <5>1, <5>2, RelMoveBaseBeyond
        <5>4. Rel(vrR', vrR) <= WindowSize /\ Rel(vrMs', vrR) <= WindowSize
          BY <1>3, <1>6, <1>9, <1>10, <1>15
        <5>5. QED BY <1>3, <1>15, <1>16, <3>8, <4>1, <5>3, <5>4
      <4>3. Rel(sn, vrR') = Rel(sn, vrR) - Rel(vrR', vrR) /\ rxonBuffer'[sn] = buffer[sn]
        BY <1>12, <4>2
      <4>4. Rel(vrX, vrR) <= Rel(sn, vrR) /\ Rel(sn, vrR) < Rel(vrMs', vrR)
        BY <1>15, <1>16, <3>3, <3>6, <3>8, <4>1, <4>3
      <4>5. buffer[sn].complete
        <5>1. CASE Rel(sn, vrR) < Rel(vrMs, vrR) BY <1>5, <3>2, <4>4, <5>1
        <5>2. CASE Rel(vrMs, vrR) <= Rel(sn, vrR) BY <1>9, <4>4, <5>2
        <5>3. QED BY <1>15, <4>1, <5>1, <5>2
      <4>6. QED BY <4>3, <4>5
    <3>9. QED BY <3>1, <3>3, <3>4, <3>7, <3>8
  <2>5. QED BY <2>1, <2>2, <2>3, <2>4
<1>19. QED BY <1>9, <1>14, <1>17, <1>18 DEF RxInv

\* When t-Reordering expires, VR(MS) restarts from VR(X), and ends no lower than
\* it was: what lies between VR(X) and VR(MS) is complete.
LEMMA ExpireReorderingTimerInv ==
    ASSUME RxInv, ExpireReorderingTimer
    PROVE  RxInv' /\ Rel(vrMs, vrR) <= Rel(vrMs', vrR)
<1>1. /\ reorderingTimer
      /\ vrMs' \in SN /\ FirstIncomplete(rxonBuffer, vrX, vrMs')
      /\ reorderingTimer' = (Rel(vrH, vrR) > Rel(vrMs', vrR))
      /\ vrX' = IF Rel(vrH, vrR) > Rel(vrMs', vrR) THEN vrH ELSE vrX
      /\ statusPduRequested' = TRUE
      /\ UNCHANGED <<vrR, vrH, rxonBuffer, statusProhibitTimer, delivered>>
  BY DEF ExpireReorderingTimer
<1>2. /\ vrR \in SN /\ vrX \in SN /\ vrMs \in SN /\ vrH \in SN
      /\ rxonBuffer \in [SN -> RxEntry]
      /\ \A sn \in SN : Rel(sn, vrR) \in Nat
  BY RelType DEF RxInv, RxTypeOK
<1>3. /\ Rel(vrMs, vrR) <= Rel(vrH, vrR) /\ Rel(vrH, vrR) <= WindowSize
      /\ \A sn \in SN : rxonBuffer[sn] # NoEntry => Rel(sn, vrR) < Rel(vrH, vrR)
      /\ ~rxonBuffer[vrR].complete /\ ~rxonBuffer[vrMs].complete
  BY DEF RxInv, RxWindowOK
<1>4. /\ 0 < Rel(vrX, vrR) /\ Rel(vrX, vrR) <= Rel(vrH, vrR)
      /\ \A sn \in SN : Rel(vrX, vrR) <= Rel(sn, vrR) /\ Rel(sn, vrR) < Rel(vrMs, vrR)
                          => rxonBuffer[sn].complete
  BY <1>1 DEF RxInv, ReorderingOK
<1>5. ~rxonBuffer[vrH].complete
  <2>1. rxonBuffer[vrH] = NoEntry BY <1>2, <1>3
  <2>2. QED BY <2>1 DEF NoEntry
<1>6. /\ ~rxonBuffer[vrMs'].complete
      /\ Rel(vrX, vrR) <= Rel(vrMs', vrR)
      /\ Rel(vrMs', vrR) <= Rel(vrH, vrR)
  BY <1>1, <1>2, <1>3, <1>4, <1>5, FirstIncompleteFacts
<1>7. Rel(vrMs, vrR) <= Rel(vrMs', vrR)
  BY <1>1, <1>2, <1>4, <1>6
<1>8. RxTypeOK'
  BY <1>1, <1>2 DEF RxInv, RxTypeOK
<1>9. RxWindowOK'
  BY <1>1, <1>3, <1>6 DEF RxWindowOK
<1>10. ReorderingOK'
  <2>1. SUFFICES ASSUME reorderingTimer'
                 PROVE  /\ 0 < Rel(vrX', vrR') /\ Rel(vrX', vrR') <= Rel(vrH', vrR')
                        /\ \A sn \in SN : Rel(vrX', vrR') <= Rel(sn, vrR')
                                           /\ Rel(sn, vrR') < Rel(vrMs', vrR')
                                           => rxonBuffer'[sn].complete
    BY DEF ReorderingOK
  <2>2. Rel(vrH, vrR) > Rel(vrMs', vrR) /\ vrX' = vrH /\ vrR' = vrR /\ vrH' = vrH
    BY <1>1, <2>1
  <2>3. QED BY <1>1, <1>2, <2>2
<1>11. QED BY <1>7, <1>8, <1>9, <1>10 DEF RxInv

\* Every step preserves the invariant and takes VR(MS) no lower.
LEMMA RxNextInv ==
    RxInv /\ [RxNext]_rxVars => RxInv' /\ Rel(vrMs, vrR) <= Rel(vrMs', vrR)
<1> SUFFICES ASSUME RxInv, [RxNext]_rxVars
             PROVE  RxInv' /\ Rel(vrMs, vrR) <= Rel(vrMs', vrR)
  OBVIOUS
<1>1. Rel(vrMs, vrR) \in Nat
  BY RelType DEF RxInv, RxTypeOK
<1>2. CASE \E pdu \in WireSet : ReceiveData(pdu)
  <2>1. PICK pdu \in WireSet : DiscardPdu(pdu) \/ PlacePdu(pdu)
    BY <1>2 DEF ReceiveData
  <2>2. CASE DiscardPdu(pdu) BY <2>2, DiscardPduInv
  <2>3. CASE PlacePdu(pdu) BY <2>3, PlacePduInv
  <2>4. QED BY <2>1, <2>2, <2>3
<1>3. CASE ExpireReorderingTimer
  BY <1>3, ExpireReorderingTimerInv
<1>4. CASE TransmitStatus
  <2>1. RxTypeOK' BY <1>4 DEF TransmitStatus, RxInv, RxTypeOK
  <2>2. RxWindowOK' /\ ReorderingOK' /\ vrMs' = vrMs
    BY <1>4 DEF TransmitStatus, RxInv, RxWindowOK, ReorderingOK
  <2>3. QED BY <1>1, <2>1, <2>2 DEF RxInv
<1>5. CASE ExpireStatusProhibitTimer
  <2>1. RxTypeOK' BY <1>5 DEF ExpireStatusProhibitTimer, RxInv, RxTypeOK
  <2>2. RxWindowOK' /\ ReorderingOK' /\ vrMs' = vrMs
    BY <1>5 DEF ExpireStatusProhibitTimer, RxInv, RxWindowOK, ReorderingOK
  <2>3. QED BY <1>1, <2>1, <2>2 DEF RxInv
<1>6. CASE UNCHANGED rxVars
  <2>1. RxTypeOK' BY <1>6 DEF rxVars, RxInv, RxTypeOK
  <2>2. RxWindowOK' /\ ReorderingOK' /\ vrMs' = vrMs
    BY <1>6 DEF rxVars, RxInv, RxWindowOK, ReorderingOK
  <2>3. QED BY <1>1, <2>1, <2>2 DEF RxInv
<1>7. QED BY <1>2, <1>3, <1>4, <1>5, <1>6 DEF RxNext

\* Whatever it receives in whatever order, the receiving side keeps its state
\* variables ordered, its window within WindowSize, nothing outside the window,
\* and a running t-Reordering waiting for a real gap.
THEOREM RxSafety == RxSpec => [](RxTypeOK /\ RxWindowOK /\ ReorderingOK)
<1>1. RxInit => RxInv BY RxInitInv
<1>2. RxInv /\ [RxNext]_rxVars => RxInv' BY RxNextInv
<1>3. RxInv => RxTypeOK /\ RxWindowOK /\ ReorderingOK BY DEF RxInv
<1>4. QED BY <1>1, <1>2, <1>3, PTL DEF RxSpec

\* VR(MS), below which STATUS PDUs report every SN, only moves up, although the
\* expiry of t-Reordering assigns it from VR(X).
THEOREM VrMsForward == RxSpec => VrMsNeverRetreats
<1>1. RxInit => RxInv BY RxInitInv
<1>2. RxInv /\ [RxNext]_rxVars => RxInv' BY RxNextInv
<1>3. RxInv /\ [RxNext]_rxVars => [Rel(vrMs, vrR) <= Rel(vrMs', vrR)]_rxVars
  BY RxNextInv
<1>4. QED BY <1>1, <1>2, <1>3, PTL DEF RxSpec, VrMsNeverRetreats

---------------------------------------------------------------------------
(***************************************************************************)
(* Safety of each side.                                                    *)
(***************************************************************************)

\* The inductive invariant of the bearer.
Inv ==
    /\ TxInv /\ RxInv
    /\ data \subseteq WireSet
    /\ status \subseteq StatusPdu

\* What the sender puts on the wire is a data PDU or segment.
LEMMA RestOnWireType ==
    ASSUME TxInv, NEW sn \in SN, FirstForRetx(sn)
    PROVE  RestOnWire(sn) \in WireSet
<1>1. /\ retxBuffer[sn] \in Pdu /\ retxSegBuffer[sn] \in Nat \cup {NoSeg}
      /\ IsSegment(sn) => retxSegBuffer[sn] < retxBuffer[sn].len
  BY DEF TxInv, TxTypeOK, TxBuffersOK
<1>2. retxBuffer[sn].id \in Nat /\ retxBuffer[sn].len \in Nat
  BY <1>1 DEF Pdu
<1>3. RetxOffset(sn) \in Nat /\ RetxLen(sn) \in Nat
  BY <1>1, <1>2 DEF RetxOffset, RetxLen, IsSegment, NoSeg
<1>4. IsSegment(sn) \in BOOLEAN /\ RetxPolls(sn) \in BOOLEAN
  BY DEF IsSegment, RetxPolls, WindowStalled, TxInv, TxTypeOK
<1>5. QED BY <1>2, <1>3, <1>4 DEF RestOnWire, WirePdu, WireSet

\* The same for a segment.
LEMMA SegmentOnWireType ==
    ASSUME TxInv, NEW sn \in SN, NEW bytes \in OppSizes, bytes >= HdrLen
    PROVE  SegmentOnWire(sn, bytes) \in WireSet
<1>1. /\ retxBuffer[sn] \in Pdu /\ retxSegBuffer[sn] \in Nat \cup {NoSeg}
  BY DEF TxInv, TxTypeOK
<1>2. retxBuffer[sn].id \in Nat
  BY <1>1 DEF Pdu
<1>3. RetxOffset(sn) \in Nat
  BY <1>1 DEF RetxOffset, IsSegment, NoSeg
<1>4. bytes - HdrLen \in Nat
  BY TxAssumption
<1>5. RetxPolls(sn) \in BOOLEAN
  BY DEF RetxPolls, WindowStalled, TxInv, TxTypeOK
<1>6. QED BY <1>2, <1>3, <1>4, <1>5 DEF SegmentOnWire, WirePdu, WireSet

\* The same for a new PDU.
LEMMA NewOnWireType ==
    ASSUME TxInv, NEW bytes \in OppSizes, NEW len \in NewLens(bytes)
    PROVE  NewOnWire(len) \in WireSet
<1>1. vtS \in SN /\ txonBufferSize \in Nat /\ Len(sent) \in Nat
  BY DEF TxInv, TxTypeOK
<1>2. len \in Nat
  BY <1>1, NewLenType
<1>3. NewPdu(len).id \in Nat
  BY <1>1 DEF NewPdu
<1>4. QED BY <1>1, <1>2, <1>3 DEF NewOnWire, WirePdu, WireSet

\* The bearer starts in the invariant.
LEMMA InitInv == Init => Inv
BY TxInitInv, RxInitInv DEF Init, Inv

\* A step of the bearer is a step of the transmitting side, or leaves it alone.
LEMMA NextIsTxStep == Inv /\ [Next]_vars => [TxNext]_txVars
<1> SUFFICES ASSUME Inv, [Next]_vars PROVE [TxNext]_txVars
  OBVIOUS
<1>1. CASE \E size \in SduSizes : DoTransmitPdcpPdu(size)
  BY <1>1 DEF DoTransmitPdcpPdu, TxNext
<1>2. CASE \E bytes \in OppSizes : DoNotifyTxOpportunity(bytes)
  <2>1. PICK bytes \in OppSizes : DoNotifyTxOpportunity(bytes) BY <1>2
  <2>2. CASE \E len \in NewLens(bytes) : NotifyTransmitNew(bytes, len)
    BY <2>2 DEF NotifyTransmitNew, TxNext
  <2>3. CASE \E sn \in SN : NotifyRetransmitRest(sn, bytes)
    BY <2>3 DEF NotifyRetransmitRest, TxNext
  <2>4. CASE \E sn \in SN : NotifyRetransmitSegment(sn, bytes)
    BY <2>4 DEF NotifyRetransmitSegment, TxNext
  <2>5. CASE \E sn \in SN : NotifyRetransmitNothing(sn, bytes)
    BY <2>5 DEF NotifyRetransmitNothing, TxNext
  <2>6. QED BY <2>1, <2>2, <2>3, <2>4, <2>5 DEF DoNotifyTxOpportunity
<1>3. CASE DoReceiveStatus
  BY <1>3 DEF DoReceiveStatus, Inv, TxNext
<1>4. CASE PollRetransmitTimeout
  BY <1>4 DEF PollRetransmitTimeout, TxNext
<1>5. CASE UNCHANGED txVars
  BY <1>5
<1>6. CASE \/ NotifyTransmitStatus \/ \E sn \in SN : DoReceiveData(sn)
           \/ LoseData \/ LoseStatus \/ ReorderingTimeout \/ StatusProhibitTimeout
           \/ UNCHANGED vars
  <2>1. UNCHANGED txVars
    BY <1>6 DEF NotifyTransmitStatus, DoReceiveData, LoseData, LoseStatus,
                ReorderingTimeout, StatusProhibitTimeout, vars
  <2>2. QED BY <2>1
<1>7. QED BY <1>1, <1>2, <1>3, <1>4, <1>6 DEF Next

\* A step of the bearer is a step of the receiving side, or leaves it alone.
LEMMA NextIsRxStep == Inv /\ [Next]_vars => [RxNext]_rxVars
<1> SUFFICES ASSUME Inv, [Next]_vars PROVE [RxNext]_rxVars
  OBVIOUS
<1>1. CASE \E sn \in SN : DoReceiveData(sn)
  BY <1>1 DEF DoReceiveData, Inv, RxNext
<1>2. CASE NotifyTransmitStatus
  BY <1>2 DEF NotifyTransmitStatus, RxNext
<1>3. CASE ReorderingTimeout
  BY <1>3 DEF ReorderingTimeout, RxNext
<1>4. CASE StatusProhibitTimeout
  BY <1>4 DEF StatusProhibitTimeout, RxNext
<1>5. CASE \E bytes \in OppSizes : DoNotifyTxOpportunity(bytes)
  <2>1. UNCHANGED rxVars
    BY <1>5 DEF DoNotifyTxOpportunity, NotifyTransmitNew, NotifyRetransmitRest,
                NotifyRetransmitSegment, NotifyRetransmitNothing
  <2>2. QED BY <2>1
<1>6. CASE \/ \E size \in SduSizes : DoTransmitPdcpPdu(size)
           \/ DoReceiveStatus \/ LoseData \/ LoseStatus
           \/ PollRetransmitTimeout \/ UNCHANGED vars
  <2>1. UNCHANGED rxVars
    BY <1>6 DEF DoTransmitPdcpPdu, DoReceiveStatus, LoseData, LoseStatus,
                PollRetransmitTimeout, vars
  <2>2. QED BY <2>1
<1>7. QED BY <1>1, <1>2, <1>3, <1>4, <1>5, <1>6 DEF Next

\* What is in flight stays among the PDUs of the types the two sides expect.
LEMMA FlightInv ==
    Inv /\ [Next]_vars => data' \subseteq WireSet /\ status' \subseteq StatusPdu
<1> SUFFICES ASSUME Inv, [Next]_vars
             PROVE  data' \subseteq WireSet /\ status' \subseteq StatusPdu
  OBVIOUS
<1> USE DEF Inv
<1>1. CASE \E bytes \in OppSizes : DoNotifyTxOpportunity(bytes)
  <2>1. PICK bytes \in OppSizes : DoNotifyTxOpportunity(bytes) BY <1>1
  <2>2. CASE \E len \in NewLens(bytes) : NotifyTransmitNew(bytes, len)
    <3>1. PICK len \in NewLens(bytes) : NotifyTransmitNew(bytes, len) BY <2>2
    <3>2. NewOnWire(len) \in WireSet BY NewOnWireType
    <3>3. QED BY <3>1, <3>2 DEF NotifyTransmitNew
  <2>3. CASE \E sn \in SN : NotifyRetransmitRest(sn, bytes)
    <3>1. PICK sn \in SN : NotifyRetransmitRest(sn, bytes) BY <2>3
    <3>2. RestOnWire(sn) \in WireSet
      BY <3>1, RestOnWireType DEF NotifyRetransmitRest, RetransmitRest
    <3>3. QED BY <3>1, <3>2 DEF NotifyRetransmitRest
  <2>4. CASE \E sn \in SN : NotifyRetransmitSegment(sn, bytes)
    <3>1. PICK sn \in SN : NotifyRetransmitSegment(sn, bytes) BY <2>4
    <3>2. SegmentOnWire(sn, bytes) \in WireSet
      BY <3>1, SegmentOnWireType DEF NotifyRetransmitSegment, RetransmitSegment
    <3>3. QED BY <3>1, <3>2 DEF NotifyRetransmitSegment
  <2>5. CASE \E sn \in SN : NotifyRetransmitNothing(sn, bytes)
    BY <2>5 DEF NotifyRetransmitNothing
  <2>6. QED BY <2>1, <2>2, <2>3, <2>4, <2>5 DEF DoNotifyTxOpportunity
<1>2. CASE NotifyTransmitStatus
  <2>1. PICK cap \in NackCaps, ack \in SN :
            status' = status \cup {[ack |-> ack, nacks |-> StatusNacks(cap)]}
    BY <1>2 DEF NotifyTransmitStatus
  <2>2. StatusNacks(cap) \in SUBSET SN BY DEF StatusNacks, Missing
  <2>3. [ack |-> ack, nacks |-> StatusNacks(cap)] \in StatusPdu
    BY <2>2 DEF StatusPdu
  <2>4. QED BY <1>2, <2>1, <2>3 DEF NotifyTransmitStatus
<1>3. CASE \/ \E sn \in SN : DoReceiveData(sn)
           \/ DoReceiveStatus \/ LoseData \/ LoseStatus
  BY <1>3 DEF DoReceiveData, DoReceiveStatus, LoseData, LoseStatus
<1>4. CASE \/ \E size \in SduSizes : DoTransmitPdcpPdu(size)
           \/ PollRetransmitTimeout \/ ReorderingTimeout \/ StatusProhibitTimeout
           \/ UNCHANGED vars
  BY <1>4 DEF DoTransmitPdcpPdu, PollRetransmitTimeout, ReorderingTimeout,
              StatusProhibitTimeout, vars
<1>5. QED BY <1>1, <1>2, <1>3, <1>4 DEF Next

\* Every step of the bearer preserves the invariant.
LEMMA NextInv == Inv /\ [Next]_vars => Inv'
<1> SUFFICES ASSUME Inv, [Next]_vars PROVE Inv'
  OBVIOUS
<1>1. TxInv' BY NextIsTxStep, TxNextInv DEF Inv
<1>2. RxInv' BY NextIsRxStep, RxNextInv DEF Inv
<1>3. data' \subseteq WireSet /\ status' \subseteq StatusPdu BY FlightInv
<1>4. QED BY <1>1, <1>2, <1>3 DEF Inv

\* The types of the bearer, whatever is lost or reordered.
THEOREM TypeSafety == Spec => []TypeOK
<1>1. Inv => TypeOK BY DEF Inv, TxInv, RxInv, TypeOK
<1>2. QED BY <1>1, InitInv, NextInv, PTL DEF Spec

\* The buffers and the window of the sender, and the window and t-Reordering of
\* the receiver, are sound together, whatever is lost or reordered.
THEOREM BearerSafety == Spec => [](TxBuffersOK /\ RxWindowOK /\ ReorderingOK)
<1>1. Inv => TxBuffersOK /\ RxWindowOK /\ ReorderingOK BY DEF Inv, TxInv, RxInv
<1>2. QED BY <1>1, InitInv, NextInv, PTL DEF Spec

\* The window and t-Reordering of the bearer's receiver, which the sender's peer
\* relies on when it reads ACK_SN: while the timer runs there is a gap below
\* VR(X), and VR(MS) has nothing missing between VR(X) and itself.
THEOREM BearerReordering == Spec => []ReorderingOK
<1>1. Inv => ReorderingOK BY DEF Inv, RxInv
<1>2. QED BY <1>1, InitInv, NextInv, PTL DEF Spec

\* The byte counters of the bearer's sender are the sizes of its buffers in
\* every behaviour of the bearer.
THEOREM BearerCountersExact == Spec => []SizesExact
<1>1. Init => SizesExact BY TxInitSizes DEF Init
<1>2. Inv /\ SizesExact /\ [Next]_vars => SizesExact'
  BY NextIsTxStep, TxNextSizes DEF Inv
<1>3. QED BY <1>1, <1>2, InitInv, NextInv, PTL DEF Spec

\* VT(A) of the bearer's sender never retreats, however STATUS PDUs overtake each other.
THEOREM BearerVtAForward == Spec => VtANeverRetreats
<1>1. Inv /\ [Next]_vars => [Rel(vtA', vtA) <= Rel(vtS, vtA)]_txVars
  BY NextIsTxStep, VtAStep DEF Inv
<1>2. QED BY <1>1, InitInv, NextInv, PTL DEF Spec, VtANeverRetreats

\* VR(MS) of the bearer's receiver never retreats.
THEOREM BearerVrMsForward == Spec => VrMsNeverRetreats
<1>1. Inv /\ [Next]_vars => [Rel(vrMs, vrR) <= Rel(vrMs', vrR)]_rxVars
  BY NextIsRxStep, RxNextInv DEF Inv
<1>2. QED BY <1>1, InitInv, NextInv, PTL DEF Spec, VrMsNeverRetreats

---------------------------------------------------------------------------
(***************************************************************************)
(* Delivery.  The two sides know SNs only.  The proof gives every SN in    *)
(* use the number of the PDU that carries it, counted down from VT(S), the *)
(* SN of the next PDU: both windows, both buffers and everything in flight *)
(* agree on it.                                                            *)
(***************************************************************************)

\* The number of the PDU that carries sn, which is at most WindowSize below VT(S).
NumberOf(sn) == Len(sent) + 1 - Rel(vtS, sn)

\* The PDU that was built with sn.
Built(sn) == [id |-> NumberOf(sn), len |-> sent[NumberOf(sn)]]

\* The sender still has the PDU of sn; the receiver has all of it.
IsBuffered(sn) == txedBuffer[sn] # NoPdu \/ retxBuffer[sn] # NoPdu
IsHeld(sn)     == NumberOf(sn) <= Len(delivered) \/ rxonBuffer[sn].complete

\* VT(A) <= VR(R) <= VR(H) <= VT(S), and VR(R) is the SN of the next delivery.
PositionsOK ==
    /\ Rel(vtS, vrR) = Len(sent) - Len(delivered)
    /\ Rel(vtS, vrR) <= Rel(vtS, vtA)
    /\ Rel(vtS, vtA) <= Len(sent)
    /\ Rel(vrH, vrR) <= Rel(vtS, vrR)

\* The sender's buffers hold what was built.
BufferedOK ==
    \A sn \in SN : /\ txedBuffer[sn] # NoPdu => txedBuffer[sn] = Built(sn)
                   /\ retxBuffer[sn] # NoPdu => retxBuffer[sn] = Built(sn)

\* A data PDU is a part of the PDU built with its SN, up to its end if it says so.
PartOK(pdu) ==
    /\ 1 <= Rel(vtS, pdu.sn) /\ Rel(vtS, pdu.sn) <= WindowSize
    /\ Rel(vtS, pdu.sn) <= Len(sent)
    /\ pdu.id = NumberOf(pdu.sn)
    /\ pdu.last => pdu.so + pdu.len = sent[pdu.id]
    /\ ~pdu.segment => pdu.so = 0 /\ pdu.last

FlightOK == \A pdu \in data : PartOK(pdu)

\* The reception buffer holds parts of what was built.
EntryOK(entry, sn) ==
    entry # NoEntry => /\ entry.id = NumberOf(sn)
                       /\ entry.complete => entry.len = sent[NumberOf(sn)]

ReceivedOK == \A sn \in SN : EntryOK(rxonBuffer[sn], sn)

\* What is unanswered is at the sender or at the receiver.
NothingLost == \A sn \in SN : InFlight(sn) => IsBuffered(sn) \/ IsHeld(sn)

\* A STATUS PDU in flight acknowledges what the receiver has, and NACKs, and ends
\* with, what the sender has.
ReportOK(s) ==
    /\ Rel(s.ack, vtA) <= Rel(vtS, vtA)
    /\ s.ack # vtS => IsBuffered(s.ack)
    /\ \A sn \in SN : /\ Acked(s, sn) => IsHeld(sn)
                      /\ Nacked(s, sn) => IsBuffered(sn)

StatusOK == \A s \in status : ReportOK(s)

\* t-StatusProhibit keeps a second STATUS PDU from being sent.
ProhibitOK ==
    /\ \A s, t \in status : s = t
    /\ ~statusProhibitTimer => status = {}

\* The inductive invariant.
DeliveryInv ==
    /\ Inv
    /\ PositionsOK /\ BufferedOK /\ FlightOK /\ ReceivedOK
    /\ NothingLost /\ StatusOK /\ ProhibitOK
    /\ HolBuffered /\ InOrderExactlyOnce

\* Types of what the positions are computed from.
LEMMA PositionTypes ==
    ASSUME Inv
    PROVE  /\ vtA \in SN /\ vtS \in SN /\ vrR \in SN /\ vrH \in SN /\ vrMs \in SN
           /\ Len(sent) \in Nat /\ Len(delivered) \in Nat
           /\ \A u, v \in SN : Rel(u, v) \in Nat /\ Rel(u, v) < Modulus
           /\ Modulus \in Nat /\ WindowSize \in Nat /\ WindowSize > 0
           /\ 2 * WindowSize <= Modulus
           /\ \A sn \in SN : NumberOf(sn) \in Int
<1>1. /\ vtA \in SN /\ vtS \in SN /\ vrR \in SN /\ vrH \in SN /\ vrMs \in SN
      /\ sent \in Seq(Nat) /\ delivered \in Seq([id : Nat, len : Nat])
  BY DEF Inv, TxInv, RxInv, TxTypeOK, RxTypeOK
<1>2. \A u, v \in SN : Rel(u, v) \in Nat /\ Rel(u, v) < Modulus
  BY RelType
<1>3. /\ Modulus \in Nat /\ WindowSize \in Nat /\ WindowSize > 0
      /\ 2 * WindowSize <= Modulus
  BY SequenceNumberAssumption
<1>4. Len(sent) \in Nat /\ Len(delivered) \in Nat
  BY <1>1, LenProperties
<1>5. ASSUME NEW sn \in SN PROVE NumberOf(sn) \in Int
  <2>1. Rel(vtS, sn) \in Nat BY <1>1, RelType
  <2>2. QED BY <1>4, <2>1 DEF NumberOf
<1>6. QED BY <1>1, <1>2, <1>3, <1>4, <1>5

\* An unanswered SN is one of those between VT(A) and VT(S).
LEMMA InFlightBelowTop ==
    ASSUME Inv, NEW sn \in SN
    PROVE  InFlight(sn) <=> 1 <= Rel(vtS, sn) /\ Rel(vtS, sn) <= Rel(vtS, vtA)
BY RelBetween, PositionTypes DEF InFlight

\* The same for the SNs between VR(R) and VR(H).
LEMMA ReceivedBelowTop ==
    ASSUME Inv, PositionsOK, NEW sn \in SN, Rel(sn, vrR) < Rel(vrH, vrR)
    PROVE  /\ 1 <= Rel(vtS, sn) /\ Rel(vtS, sn) <= Rel(vtS, vrR)
           /\ NumberOf(sn) = Len(delivered) + 1 + Rel(sn, vrR)
<1>1. /\ Rel(vtS, sn) <= Rel(vtS, vrR) => Rel(sn, vrR) = Rel(vtS, vrR) - Rel(vtS, sn)
      /\ Rel(vtS, vrR) < Rel(vtS, sn) => Rel(sn, vrR) = Rel(vtS, vrR) - Rel(vtS, sn) + Modulus
  BY PositionTypes, RelFromTop
<1>2. /\ Rel(vrH, vrR) <= Rel(vtS, vrR)
      /\ Rel(vtS, vrR) = Len(sent) - Len(delivered)
  BY DEF PositionsOK
<1>3. /\ Rel(vtS, sn) \in Nat /\ Rel(vtS, vrR) \in Nat /\ Rel(sn, vrR) \in Nat
      /\ Rel(vrH, vrR) \in Nat /\ Rel(vtS, sn) < Modulus /\ Modulus \in Nat
      /\ Len(sent) \in Nat /\ Len(delivered) \in Nat
  BY PositionTypes
<1>4. 1 <= Rel(vtS, sn) /\ Rel(vtS, sn) <= Rel(vtS, vrR)
  BY <1>1, <1>2, <1>3
<1>5. QED BY <1>1, <1>2, <1>3, <1>4 DEF NumberOf

\* The bearer starts in the invariant.
LEMMA DeliveryInit == Init => DeliveryInv
<1> SUFFICES ASSUME Init PROVE DeliveryInv
  OBVIOUS
<1>1. Inv BY InitInv
<1>2. 0 \in SN /\ Rel(0, 0) = 0 /\ Len(<<>>) = 0
  BY SequenceNumberAssumption DEF SN, Rel
<1>3. PositionsOK BY <1>2 DEF Init, TxInit, RxInit, PositionsOK
<1>4. BufferedOK BY DEF Init, TxInit, BufferedOK
<1>5. ReceivedOK BY DEF Init, RxInit, ReceivedOK, EntryOK
<1>6. NothingLost
  <2>1. ASSUME NEW sn \in SN PROVE ~InFlight(sn)
    <3>1. vtA = 0 /\ vtS = 0 /\ Rel(vtS, sn) \in Nat
      BY <1>1, PositionTypes DEF Init, TxInit
    <3>2. QED BY <1>1, <1>2, <3>1, InFlightBelowTop
  <2>2. QED BY <2>1 DEF NothingLost
<1>7. HolBuffered BY DEF Init, TxInit, HolBuffered
<1>8. InOrderExactlyOnce BY <1>2 DEF Init, TxInit, RxInit, InOrderExactlyOnce
<1>9. FlightOK /\ StatusOK /\ ProhibitOK
  BY DEF Init, FlightOK, StatusOK, ProhibitOK
<1>10. QED BY <1>1, <1>3, <1>4, <1>5, <1>6, <1>7, <1>8, <1>9 DEF DeliveryInv

\* A step that builds and answers nothing, receives nothing new, and leaves with
\* the sender whatever it had, in whichever buffer.
LEMMA QuietStep ==
    ASSUME DeliveryInv, Inv',
           UNCHANGED <<vtA, vtS, sent, vrR, vrH, rxonBuffer, delivered>>,
           status' \subseteq status,
           ~statusProhibitTimer' => status' = {},
           \A pdu \in data' : PartOK(pdu),
           \A sn \in SN : /\ txedBuffer'[sn] # NoPdu => txedBuffer'[sn] = Built(sn)
                          /\ retxBuffer'[sn] # NoPdu => retxBuffer'[sn] = Built(sn)
                          /\ IsBuffered(sn) => IsBuffered(sn)'
    PROVE  DeliveryInv'
<1>1. /\ \A sn \in SN : NumberOf(sn)' = NumberOf(sn) /\ Built(sn)' = Built(sn)
      /\ \A sn \in SN : InFlight(sn)' = InFlight(sn) /\ IsHeld(sn)' = IsHeld(sn)
  BY DEF NumberOf, Built, InFlight, IsHeld
<1>2. PositionsOK' /\ InOrderExactlyOnce'
  BY DEF DeliveryInv, PositionsOK, InOrderExactlyOnce
<1>3. BufferedOK' BY <1>1 DEF BufferedOK
<1>4. FlightOK' BY <1>1 DEF FlightOK, PartOK, NumberOf
<1>5. ReceivedOK' BY <1>1 DEF DeliveryInv, ReceivedOK, EntryOK
<1>6. NothingLost' BY <1>1 DEF DeliveryInv, NothingLost
<1>7. StatusOK'
  <2>1. SUFFICES ASSUME NEW s \in status' PROVE ReportOK(s)'
    BY DEF StatusOK
  <2>2. ReportOK(s) /\ s.ack \in SN BY DEF DeliveryInv, StatusOK, Inv, StatusPdu
  <2>3. \A sn \in SN : Acked(s, sn)' = Acked(s, sn) /\ Nacked(s, sn)' = Nacked(s, sn)
    BY <1>1 DEF Acked, Nacked, Reported
  <2>4. QED BY <2>2, <2>3, <1>1 DEF ReportOK
<1>8. ProhibitOK' BY DEF DeliveryInv, ProhibitOK
<1>9. HolBuffered'
  <2>1. vtA \in SN BY PositionTypes DEF DeliveryInv
  <2>2. QED BY <2>1 DEF DeliveryInv, HolBuffered, IsBuffered
<1>10. QED BY <1>2, <1>3, <1>4, <1>5, <1>6, <1>7, <1>8, <1>9 DEF DeliveryInv

\* What is retransmitted is part of what was built.
LEMMA RetransmittedParts ==
    ASSUME DeliveryInv, NEW sn \in SN, FirstForRetx(sn), NEW bytes \in Nat
    PROVE  /\ retxBuffer[sn] # NoPdu
           /\ PartOK(RestOnWire(sn))
           /\ PartOK(SegmentOnWire(sn, bytes))
<1>1. InFlight(sn) /\ WaitsForRetx(sn) BY DEF FirstForRetx
<1>2. retxBuffer[sn] # NoPdu
  BY <1>1 DEF WaitsForRetx, IsSegment, DeliveryInv, Inv, TxInv, TxBuffersOK
<1>3. retxBuffer[sn].id = NumberOf(sn) /\ retxBuffer[sn].len = sent[NumberOf(sn)]
  <2>1. retxBuffer[sn] = Built(sn) BY <1>2 DEF DeliveryInv, BufferedOK
  <2>2. QED BY <2>1 DEF Built
<1>4. /\ 1 <= Rel(vtS, sn) /\ Rel(vtS, sn) <= WindowSize
      /\ Rel(vtS, sn) <= Len(sent)
  <2>1. 1 <= Rel(vtS, sn) /\ Rel(vtS, sn) <= Rel(vtS, vtA)
    BY <1>1, InFlightBelowTop DEF DeliveryInv
  <2>2. Rel(vtS, vtA) <= WindowSize /\ Rel(vtS, vtA) <= Len(sent)
    BY DEF DeliveryInv, Inv, TxInv, TxBuffersOK, PositionsOK
  <2>3. /\ Rel(vtS, sn) \in Nat /\ Rel(vtS, vtA) \in Nat /\ WindowSize \in Nat
        /\ Len(sent) \in Nat
    BY PositionTypes DEF DeliveryInv
  <2>4. QED BY <2>1, <2>2, <2>3
<1>5. /\ RetxOffset(sn) \in Nat /\ retxBuffer[sn].len \in Nat
      /\ IsSegment(sn) \in BOOLEAN
      /\ ~IsSegment(sn) => RetxOffset(sn) = 0
  BY DEF DeliveryInv, Inv, TxInv, TxTypeOK, RetxOffset, IsSegment, NoSeg, Pdu
<1>6. PartOK(RestOnWire(sn))
  <2>1. RetxOffset(sn) + RetxLen(sn) = sent[NumberOf(sn)]
    BY <1>3, <1>5 DEF RetxLen
  <2>2. QED BY <1>3, <1>4, <1>5, <2>1 DEF PartOK, RestOnWire, WirePdu
<1>7. PartOK(SegmentOnWire(sn, bytes))
  BY <1>3, <1>4 DEF PartOK, SegmentOnWire, WirePdu
<1>8. QED BY <1>2, <1>6, <1>7

\* A retransmission, in whole or in part.
LEMMA RetransmissionDelivers ==
    ASSUME DeliveryInv, Inv', NEW bytes \in OppSizes, NEW sn \in SN,
           \/ NotifyRetransmitRest(sn, bytes)
           \/ NotifyRetransmitSegment(sn, bytes)
           \/ NotifyRetransmitNothing(sn, bytes)
    PROVE  DeliveryInv'
<1>1. /\ txedBuffer \in [SN -> Pdu] /\ retxBuffer \in [SN -> Pdu] /\ bytes \in Nat
  BY TxAssumption DEF DeliveryInv, Inv, TxInv, TxTypeOK
<1>2. /\ FirstForRetx(sn)
      /\ UNCHANGED <<vtA, vtS, sent, rxVars, status>>
  BY DEF NotifyRetransmitRest, NotifyRetransmitSegment, NotifyRetransmitNothing,
         RetransmitRest, RetransmitSegment, RetransmitNothing, historyVars
<1>3. /\ retxBuffer[sn] # NoPdu
      /\ PartOK(RestOnWire(sn)) /\ PartOK(SegmentOnWire(sn, bytes))
  BY <1>1, <1>2, RetransmittedParts
<1>4. \A pdu \in data' : PartOK(pdu)
  BY <1>3 DEF DeliveryInv, FlightOK,
              NotifyRetransmitRest, NotifyRetransmitSegment, NotifyRetransmitNothing
<1>5. \A s \in SN : /\ txedBuffer'[s] # NoPdu => txedBuffer'[s] = Built(s)
                    /\ retxBuffer'[s] # NoPdu => retxBuffer'[s] = Built(s)
                    /\ IsBuffered(s) => IsBuffered(s)'
  <2>1. CASE NotifyRetransmitRest(sn, bytes)
    <3>1. /\ txedBuffer' = [txedBuffer EXCEPT ![sn] = retxBuffer[sn]]
          /\ retxBuffer' = [retxBuffer EXCEPT ![sn] = NoPdu]
      BY <2>1 DEF NotifyRetransmitRest, RetransmitRest
    <3>2. QED BY <1>1, <1>3, <3>1 DEF DeliveryInv, BufferedOK, IsBuffered
  <2>2. CASE NotifyRetransmitSegment(sn, bytes) \/ NotifyRetransmitNothing(sn, bytes)
    <3>1. txedBuffer' = txedBuffer /\ retxBuffer' = retxBuffer
      BY <2>2 DEF NotifyRetransmitSegment, NotifyRetransmitNothing,
                  RetransmitSegment, RetransmitNothing, bufferVars
    <3>2. QED BY <3>1 DEF DeliveryInv, BufferedOK, IsBuffered
  <2>3. QED BY <2>1, <2>2
<1>6. QED BY <1>2, <1>4, <1>5, QuietStep DEF rxVars, DeliveryInv, ProhibitOK

\* When t-PollRetransmit expires PDUs only change buffers.
LEMMA PollRetransmitTimeoutDelivers ==
    ASSUME DeliveryInv, Inv', PollRetransmitTimeout
    PROVE  DeliveryInv'
<1>1. UNCHANGED <<vtA, vtS, sent, rxVars, data, status>>
  BY DEF PollRetransmitTimeout, ExpirePollRetransmitTimer, historyVars
<1>2. PICK moved \in SUBSET SN :
        /\ moved \subseteq {sn \in SN : txedBuffer[sn] # NoPdu}
        /\ retxBuffer' = [sn \in SN |->
                            IF sn \in moved THEN txedBuffer[sn] ELSE retxBuffer[sn]]
        /\ txedBuffer' = [sn \in SN |->
                            IF sn \in moved THEN NoPdu ELSE txedBuffer[sn]]
  BY DEF PollRetransmitTimeout, ExpirePollRetransmitTimer
<1>3. \A s \in SN : /\ txedBuffer'[s] # NoPdu => txedBuffer'[s] = Built(s)
                    /\ retxBuffer'[s] # NoPdu => retxBuffer'[s] = Built(s)
                    /\ IsBuffered(s) => IsBuffered(s)'
  BY <1>2 DEF DeliveryInv, BufferedOK, IsBuffered
<1>4. QED BY <1>1, <1>3, QuietStep DEF rxVars, DeliveryInv, FlightOK, ProhibitOK

\* Steps that touch neither buffers nor windows.
LEMMA OtherStepsDeliver ==
    ASSUME DeliveryInv, Inv', StatusCap = 1,
           \/ \E size \in SduSizes : DoTransmitPdcpPdu(size)
           \/ LoseData \/ LoseStatus \/ ReorderingTimeout \/ StatusProhibitTimeout
           \/ UNCHANGED vars
    PROVE  DeliveryInv'
<1>1. /\ UNCHANGED <<vtA, vtS, sent, vrR, vrH, rxonBuffer, delivered,
                     txedBuffer, retxBuffer>>
      /\ data' \subseteq data /\ status' \subseteq status
  BY DEF DoTransmitPdcpPdu, TransmitPdcpPdu, LoseData, LoseStatus, ReorderingTimeout,
         ExpireReorderingTimer, StatusProhibitTimeout, ExpireStatusProhibitTimer,
         vars, txVars, rxVars, bufferVars
<1>2. ~statusProhibitTimer' => status' = {}
  <2>1. CASE StatusProhibitTimeout
    <3>1. status' = status /\ Cardinality(status) < 1
      BY <2>1 DEF StatusProhibitTimeout
    <3>2. SUFFICES ASSUME NEW s \in status PROVE FALSE BY <3>1
    <3>3. status = {s} BY DEF DeliveryInv, ProhibitOK
    <3>4. QED BY <3>1, <3>3, FS_Singleton
  <2>2. CASE ~StatusProhibitTimeout
    <3>1. statusProhibitTimer' = statusProhibitTimer
      BY <2>2 DEF DoTransmitPdcpPdu, TransmitPdcpPdu, LoseData, LoseStatus,
                  ReorderingTimeout, ExpireReorderingTimer, vars, rxVars
    <3>2. QED BY <1>1, <3>1 DEF DeliveryInv, ProhibitOK
  <2>3. QED BY <2>1, <2>2
<1>3. \A pdu \in data' : PartOK(pdu) BY <1>1 DEF DeliveryInv, FlightOK
<1>4. \A s \in SN : /\ txedBuffer'[s] # NoPdu => txedBuffer'[s] = Built(s)
                    /\ retxBuffer'[s] # NoPdu => retxBuffer'[s] = Built(s)
                    /\ IsBuffered(s) => IsBuffered(s)'
  BY <1>1 DEF DeliveryInv, BufferedOK, IsBuffered
<1>5. QED BY <1>1, <1>2, <1>3, <1>4, QuietStep

\* Building a PDU moves VT(S), from which the numbers are counted, and leaves the
\* number of every SN in use as it was.
LEMMA TransmitNewDelivers ==
    ASSUME DeliveryInv, Inv', NEW bytes \in OppSizes, NEW len \in NewLens(bytes),
           NotifyTransmitNew(bytes, len)
    PROVE  DeliveryInv'
<1> PICK top \in SN : top = vtS
  BY PositionTypes DEF DeliveryInv
<1>1. /\ \A pdu \in data : Young(pdu)
      /\ ~WindowStalled
      /\ txedBuffer' = [txedBuffer EXCEPT ![vtS] = NewPdu(len)]
      /\ vtS' = Inc(vtS)
      /\ sent' = Append(sent, len)
      /\ data' = data \cup {NewOnWire(len)}
      /\ UNCHANGED <<vtA, retxBuffer, rxVars, status>>
  BY DEF NotifyTransmitNew, TransmitNew
<1>2. /\ vtA \in SN /\ vtS \in SN /\ vrR \in SN /\ vrH \in SN
      /\ Len(sent) \in Nat /\ Len(delivered) \in Nat
      /\ Modulus \in Nat /\ WindowSize \in Nat /\ WindowSize > 0
      /\ 2 * WindowSize <= Modulus
  BY PositionTypes DEF DeliveryInv
<1>3. \A u, v \in SN : Rel(u, v) \in Nat
  BY RelType
<1>4. vtS' \in SN /\ Rel(vtS', vtS) = 1 /\ Rel(vtS, vtS) = 0
  <2>1. vtS' \in SN BY <1>1, <1>2, IncDecType
  <2>2. Rel(vtS, vtS) = 0 BY <1>2, RelZero
  <2>3. QED BY <1>1, <1>2, <2>1, <2>2, RelInc
<1>5. sent \in Seq(Nat) /\ len \in Nat
  <2>1. sent \in Seq(Nat) /\ txonBufferSize \in Nat
    BY DEF DeliveryInv, Inv, TxInv, TxTypeOK
  <2>2. QED BY <2>1, NewLenType DEF DeliveryInv, Inv
<1>6. /\ Len(sent') = Len(sent) + 1
      /\ sent'[Len(sent) + 1] = len
      /\ \A i \in 1 .. Len(sent) : sent'[i] = sent[i]
  BY <1>1, <1>5, AppendProperties
<1>7. Rel(vtS, vtA) < WindowSize
  <2>1. Rel(vtS, vtA) \in Nat BY <1>2, <1>3
  <2>2. QED BY <1>1, <1>2, <2>1 DEF WindowStalled
<1>8. ASSUME NEW sn \in SN, Rel(vtS, sn) < WindowSize
      PROVE  /\ Rel(vtS', sn) = Rel(vtS, sn) + 1
             /\ NumberOf(sn)' = NumberOf(sn)
  <2>1. Rel(vtS', sn) = Rel(vtS, sn) + 1 BY <1>1, <1>2, <1>8, RelInc
  <2>2. Rel(vtS, sn) \in Nat BY <1>2, <1>3
  <2>3. QED BY <1>2, <1>6, <2>1, <2>2 DEF NumberOf
<1>9. Rel(vtS', top) = 1 /\ NumberOf(top)' = Len(sent) + 1
  BY <1>2, <1>4, <1>6 DEF NumberOf
<1>10. ASSUME NEW sn \in SN, InFlight(sn)
       PROVE  /\ 1 <= Rel(vtS, sn) /\ Rel(vtS, sn) < WindowSize
              /\ NumberOf(sn) \in 1 .. Len(sent)
  <2>1. 1 <= Rel(vtS, sn) /\ Rel(vtS, sn) <= Rel(vtS, vtA)
    BY <1>10, InFlightBelowTop DEF DeliveryInv
  <2>2. Rel(vtS, sn) \in Nat /\ Rel(vtS, vtA) \in Nat BY <1>2, <1>3
  <2>3. Rel(vtS, vtA) <= Len(sent) BY DEF DeliveryInv, PositionsOK
  <2>4. QED BY <1>2, <1>7, <2>1, <2>2, <2>3 DEF NumberOf
<1>11. PositionsOK'
  <2>1. /\ Rel(vtS, vrR) = Len(sent) - Len(delivered)
        /\ Rel(vtS, vrR) <= Rel(vtS, vtA)
        /\ Rel(vtS, vtA) <= Len(sent)
        /\ Rel(vrH, vrR) <= Rel(vtS, vrR)
    BY DEF DeliveryInv, PositionsOK
  <2>2. Rel(vtS, vrR) \in Nat /\ Rel(vtS, vtA) \in Nat /\ Rel(vrH, vrR) \in Nat
    BY <1>2, <1>3
  <2>3. Rel(vtS', vrR) = Rel(vtS, vrR) + 1 /\ Rel(vtS', vtA) = Rel(vtS, vtA) + 1
    BY <1>2, <1>7, <1>8, <2>1, <2>2
  <2>4. QED BY <1>1, <1>2, <1>6, <2>1, <2>2, <2>3 DEF PositionsOK, rxVars
<1>12. BufferedOK'
  <2>1. SUFFICES ASSUME NEW sn \in SN
                 PROVE  /\ txedBuffer'[sn] # NoPdu => txedBuffer'[sn] = Built(sn)'
                        /\ retxBuffer'[sn] # NoPdu => retxBuffer'[sn] = Built(sn)'
    BY DEF BufferedOK
  <2>2. txedBuffer \in [SN -> Pdu] BY DEF DeliveryInv, Inv, TxInv, TxTypeOK
  <2>3. CASE sn = top
    <3>1. retxBuffer[vtS] = NoPdu
      <4>1. ~InFlight(vtS) BY <1>2, <1>4, <1>10
      <4>2. QED BY <1>2, <4>1 DEF DeliveryInv, Inv, TxInv, TxBuffersOK
    <3>2. Built(top)' = NewPdu(len)
      BY <1>6, <1>9 DEF Built, NewPdu
    <3>3. QED BY <1>1, <2>2, <2>3, <3>1, <3>2
  <2>4. CASE sn # top
    <3>1. txedBuffer'[sn] = txedBuffer[sn] /\ retxBuffer'[sn] = retxBuffer[sn]
      BY <1>1, <2>2, <2>4
    <3>2. CASE ~IsBuffered(sn) BY <3>1, <3>2 DEF IsBuffered
    <3>3. CASE IsBuffered(sn)
      <4>1. InFlight(sn)
        BY <3>3 DEF IsBuffered, DeliveryInv, Inv, TxInv, TxBuffersOK
      <4>2. NumberOf(sn)' = NumberOf(sn) /\ NumberOf(sn) \in 1 .. Len(sent)
        BY <1>8, <1>10, <4>1
      <4>3. Built(sn)' = Built(sn) BY <1>6, <4>2 DEF Built
      <4>4. QED BY <3>1, <4>3 DEF DeliveryInv, BufferedOK
    <3>4. QED BY <3>2, <3>3
  <2>5. QED BY <2>3, <2>4
<1>13. FlightOK'
  <2>1. SUFFICES ASSUME NEW pdu \in data' PROVE PartOK(pdu)'
    BY DEF FlightOK
  <2>2. CASE pdu \in data
    <3>1. /\ PartOK(pdu) /\ pdu.sn \in SN /\ Rel(vtS, pdu.sn) \in Nat
      BY <1>2, <1>3, <2>2 DEF DeliveryInv, FlightOK, Inv, WireSet
    <3>2. /\ 1 <= Rel(vtS, pdu.sn) /\ Rel(vtS, pdu.sn) <= Len(sent)
          /\ pdu.id = Len(sent) + 1 - Rel(vtS, pdu.sn)
      BY <3>1 DEF PartOK, NumberOf
    <3>3. Rel(vtS, pdu.sn) < WindowSize
      <4>1. (Len(sent) + 1) - pdu.id < WindowSize BY <1>1, <2>2 DEF Young
      <4>2. QED BY <1>2, <3>1, <3>2, <4>1
    <3>4. Rel(vtS', pdu.sn) = Rel(vtS, pdu.sn) + 1 /\ NumberOf(pdu.sn)' = NumberOf(pdu.sn)
      BY <1>8, <3>1, <3>3
    <3>5. pdu.id \in 1 .. Len(sent) BY <1>2, <3>1, <3>2
    <3>6. sent'[pdu.id] = sent[pdu.id] BY <1>6, <3>5
    <3>7. /\ 1 <= Rel(vtS', pdu.sn) /\ Rel(vtS', pdu.sn) <= WindowSize
          /\ Rel(vtS', pdu.sn) <= Len(sent')
      BY <1>2, <1>6, <3>1, <3>2, <3>3, <3>4
    <3>8. QED BY <3>1, <3>4, <3>6, <3>7 DEF PartOK
  <2>3. CASE pdu = NewOnWire(len)
    <3>1. /\ pdu.sn = top /\ pdu.id = Len(sent) + 1 /\ pdu.so = 0 /\ pdu.len = len
          /\ pdu.segment = FALSE /\ pdu.last = TRUE
      BY <2>3 DEF NewOnWire, WirePdu, NewPdu
    <3>2. 1 <= Rel(vtS', top) /\ Rel(vtS', top) <= WindowSize /\ Rel(vtS', top) <= Len(sent')
      BY <1>2, <1>6, <1>9
    <3>3. pdu.so + pdu.len = sent'[pdu.id] BY <1>5, <1>6, <3>1
    <3>4. QED BY <1>9, <3>1, <3>2, <3>3 DEF PartOK
  <2>4. QED BY <1>1, <2>2, <2>3
<1>14. ASSUME NEW sn \in SN, rxonBuffer[sn] # NoEntry
       PROVE  NumberOf(sn)' = NumberOf(sn) /\ NumberOf(sn) \in 1 .. Len(sent)
  <2>1. Rel(sn, vrR) < Rel(vrH, vrR)
    BY <1>14 DEF DeliveryInv, Inv, RxInv, RxWindowOK
  <2>2. 1 <= Rel(vtS, sn) /\ Rel(vtS, sn) <= Rel(vtS, vrR)
    BY <2>1, ReceivedBelowTop DEF DeliveryInv
  <2>3. Rel(vtS, vrR) <= Rel(vtS, vtA) /\ Rel(vtS, vtA) <= Len(sent)
    BY DEF DeliveryInv, PositionsOK
  <2>4. Rel(vtS, sn) \in Nat /\ Rel(vtS, vrR) \in Nat /\ Rel(vtS, vtA) \in Nat
    BY <1>2, <1>3
  <2>5. QED BY <1>2, <1>7, <1>8, <2>2, <2>3, <2>4 DEF NumberOf
<1>15. ReceivedOK'
  BY <1>1, <1>6, <1>14 DEF DeliveryInv, ReceivedOK, EntryOK, rxVars
<1>16. ASSUME NEW sn \in SN, InFlight(sn)
       PROVE  /\ IsHeld(sn) => IsHeld(sn)'
              /\ IsBuffered(sn) => IsBuffered(sn)'
  <2>1. NumberOf(sn)' = NumberOf(sn) BY <1>8, <1>10, <1>16
  <2>2. sn # vtS BY <1>2, <1>4, <1>10, <1>16
  <2>3. txedBuffer \in [SN -> Pdu] BY DEF DeliveryInv, Inv, TxInv, TxTypeOK
  <2>4. QED BY <1>1, <2>1, <2>2, <2>3 DEF IsHeld, IsBuffered, rxVars
<1>17. IsBuffered(top)'
  <2>1. txedBuffer \in [SN -> Pdu] BY DEF DeliveryInv, Inv, TxInv, TxTypeOK
  <2>2. NewPdu(len) # NoPdu BY <1>2 DEF NewPdu, NoPdu
  <2>3. txedBuffer'[top] # NoPdu BY <1>1, <2>1, <2>2
  <2>4. QED BY <2>3 DEF IsBuffered
<1>18. ASSUME NEW sn \in SN, InFlight(sn)'
       PROVE  sn = top \/ InFlight(sn)
  <2>1. 1 <= Rel(vtS', sn) /\ Rel(vtS', sn) <= Rel(vtS', vtA)
    BY <1>1, <1>2, <1>4, <1>18, RelBetween DEF InFlight
  <2>2. Rel(vtS', vtA) = Rel(vtS, vtA) + 1 BY <1>1, <1>2, <1>7, <1>8
  <2>3. Rel(vtS', sn) \in Nat /\ Rel(vtS, vtA) \in Nat /\ Rel(vtS, sn) \in Nat
        /\ Rel(vtS, sn) < Modulus
    BY <1>2, <1>3, <1>4, RelType
  <2>4. SUFFICES ASSUME sn # top PROVE InFlight(sn) OBVIOUS
  <2>5. Rel(vtS, sn) # 0 BY <1>2, <2>4, RelZero
  <2>6. /\ Rel(vtS', sn) <= Rel(vtS', vtS) => Rel(vtS, sn) = Rel(vtS', sn) - 1
        /\ Rel(vtS', sn) >= 1 => Rel(vtS, sn) = Rel(vtS', sn) - 1
    <3>1. /\ Rel(vtS', vtS) <= Rel(vtS', sn) => Rel(vtS, sn) = Rel(vtS', sn) - Rel(vtS', vtS)
      BY <1>2, <1>4, RelFromTop
    <3>2. QED BY <1>4, <2>1, <2>3, <3>1
  <2>7. QED BY <1>2, <2>1, <2>2, <2>3, <2>5, <2>6, InFlightBelowTop DEF DeliveryInv
<1>19. NothingLost'
  BY <1>16, <1>17, <1>18 DEF DeliveryInv, NothingLost
<1>20. StatusOK'
  <2>1. SUFFICES ASSUME NEW s \in status' PROVE ReportOK(s)'
    BY DEF StatusOK
  <2>2. s \in status /\ ReportOK(s) /\ s.ack \in SN
    BY <1>1 DEF DeliveryInv, StatusOK, Inv, StatusPdu
  <2>3. Rel(s.ack, vtA) <= Rel(vtS, vtA) /\ (s.ack # vtS => IsBuffered(s.ack))
    BY <2>2 DEF ReportOK
  <2>4. /\ Rel(s.ack, vtA) \in Nat /\ Rel(vtS, vtA) \in Nat
    BY <1>2, <1>3, <2>2
  <2>5. Rel(s.ack, vtA') <= Rel(vtS', vtA')
    BY <1>1, <1>2, <1>7, <1>8, <2>3, <2>4
  <2>6. IsBuffered(s.ack)'
    <3>1. CASE s.ack = top BY <1>17, <3>1 DEF IsBuffered
    <3>2. CASE s.ack # top
      <4>1. InFlight(s.ack)
        BY <2>2, <2>3, <3>2 DEF IsBuffered, DeliveryInv, Inv, TxInv, TxBuffersOK
      <4>2. QED BY <1>16, <2>2, <2>3, <3>2, <4>1
    <3>3. QED BY <3>1, <3>2
  <2>7. ASSUME NEW sn \in SN, Reported(s, sn)'
        PROVE  Reported(s, sn)
    <3>1. InFlight(sn)' /\ Rel(sn, vtA) < Rel(s.ack, vtA) BY <1>1, <2>7 DEF Reported
    <3>2. Rel(sn, vtA) < Rel(vtS, vtA)
      <4>1. Rel(sn, vtA) \in Nat BY <1>2, <1>3
      <4>2. QED BY <2>3, <2>4, <3>1, <4>1
    <3>3. QED BY <3>1, <3>2 DEF Reported, InFlight
  <2>8. ASSUME NEW sn \in SN
        PROVE  /\ Acked(s, sn)' => IsHeld(sn)'
               /\ Nacked(s, sn)' => IsBuffered(sn)'
    <3>1. /\ Acked(s, sn)' => Acked(s, sn) /\ InFlight(sn)
          /\ Nacked(s, sn)' => Nacked(s, sn) /\ InFlight(sn)
      BY <2>7 DEF Acked, Nacked, Reported
    <3>2. QED BY <1>16, <2>2, <3>1 DEF ReportOK
  <2>9. QED BY <2>5, <2>6, <2>8 DEF ReportOK
<1>21. ProhibitOK' BY <1>1 DEF DeliveryInv, ProhibitOK, rxVars
<1>22. HolBuffered'
  <2>1. CASE vtA = top BY <1>1, <1>17, <2>1 DEF HolBuffered, IsBuffered
  <2>2. CASE vtA # top
    <3>1. InFlight(vtA)
      <4>1. Rel(vtS, vtA) # 0 BY <1>2, <2>2, RelZero
      <4>2. Rel(vtS, vtA) \in Nat BY <1>2, <1>3
      <4>3. QED BY <1>2, <4>1, <4>2, InFlightBelowTop DEF DeliveryInv
    <3>2. IsBuffered(vtA) BY <2>2 DEF DeliveryInv, HolBuffered, IsBuffered
    <3>3. IsBuffered(vtA)' BY <1>1, <1>2, <1>16, <3>1, <3>2 DEF IsBuffered
    <3>4. QED BY <3>3 DEF HolBuffered, IsBuffered
  <2>3. QED BY <2>1, <2>2
<1>23. InOrderExactlyOnce'
  <2>1. Len(delivered) <= Len(sent)
    BY DEF DeliveryInv, InOrderExactlyOnce
  <2>2. DOMAIN delivered = 1 .. Len(delivered)
    BY LenProperties DEF DeliveryInv, Inv, RxInv, RxTypeOK
  <2>3. \A i \in DOMAIN delivered : i \in 1 .. Len(sent)
    BY <1>2, <2>1, <2>2
  <2>4. QED BY <1>1, <1>2, <1>6, <2>1, <2>3 DEF DeliveryInv, InOrderExactlyOnce, rxVars
<1>24. QED BY <1>11, <1>12, <1>13, <1>15, <1>19, <1>20, <1>21, <1>22, <1>23 DEF DeliveryInv

\* A STATUS PDU reports on what is missing between VR(R) and VR(MS), and the
\* sender has all of that.
LEMMA TransmitStatusDelivers ==
    ASSUME DeliveryInv, Inv', NotifyTransmitStatus
    PROVE  DeliveryInv'
<1>1. /\ UNCHANGED <<txVars, data, vrR, vrH, vrMs, rxonBuffer, delivered>>
      /\ ~statusProhibitTimer /\ statusProhibitTimer'
  BY DEF NotifyTransmitStatus, TransmitStatus
<1>2. PICK cap \in NackCaps, ack \in SN :
        /\ IsAckSn(ack, cap)
        /\ status' = status \cup {[ack |-> ack, nacks |-> StatusNacks(cap)]}
  BY DEF NotifyTransmitStatus
<1> PICK nacks \in SUBSET SN : nacks = StatusNacks(cap)
  BY DEF StatusNacks, Missing
<1> DEFINE s == [ack |-> ack, nacks |-> nacks]
<1>3. status' = {s}
  BY <1>1, <1>2 DEF DeliveryInv, ProhibitOK
<1>4. /\ vtA \in SN /\ vtS \in SN /\ vrR \in SN /\ vrH \in SN /\ vrMs \in SN
      /\ Len(sent) \in Nat /\ Len(delivered) \in Nat
  BY PositionTypes DEF DeliveryInv
<1>5. \A u, v \in SN : Rel(u, v) \in Nat /\ Rel(u, v) < Modulus
  BY RelType
<1>6. /\ Rel(vtS, vrR) = Len(sent) - Len(delivered)
      /\ Rel(vtS, vrR) <= Rel(vtS, vtA)
      /\ Rel(vrMs, vrR) <= Rel(vrH, vrR) /\ Rel(vrH, vrR) <= Rel(vtS, vrR)
      /\ ~rxonBuffer[vrMs].complete
  BY DEF DeliveryInv, PositionsOK, Inv, RxInv, RxWindowOK
<1>7. ASSUME NEW sn \in SN
      PROVE  /\ Rel(vtS, sn) <= Rel(vtS, vrR) => Rel(sn, vrR) = Rel(vtS, vrR) - Rel(vtS, sn)
             /\ Rel(vtS, sn) <= Rel(vtS, vtA) => Rel(sn, vtA) = Rel(vtS, vtA) - Rel(vtS, sn)
             /\ Rel(sn, vrR) <= Rel(vrH, vrR) => Rel(vtS, sn) <= Rel(vtS, vrR)
             /\ NumberOf(sn) <= Len(delivered) <=> Rel(vtS, vrR) < Rel(vtS, sn)
  <2>1. /\ Rel(vtS, sn) \in Nat /\ Rel(vtS, vrR) \in Nat /\ Rel(vtS, vtA) \in Nat
        /\ Rel(sn, vrR) \in Nat /\ Rel(vrH, vrR) \in Nat /\ Rel(vtS, sn) < Modulus
        /\ Modulus \in Nat
    BY <1>4, <1>5, SequenceNumberAssumption
  <2>2. /\ Rel(vtS, sn) <= Rel(vtS, vrR) => Rel(sn, vrR) = Rel(vtS, vrR) - Rel(vtS, sn)
        /\ Rel(vtS, sn) <= Rel(vtS, vtA) => Rel(sn, vtA) = Rel(vtS, vtA) - Rel(vtS, sn)
        /\ Rel(vtS, vrR) < Rel(vtS, sn)
             => Rel(sn, vrR) = Rel(vtS, vrR) - Rel(vtS, sn) + Modulus
    BY <1>4, RelFromTop
  <2>3. QED BY <1>4, <1>6, <2>1, <2>2 DEF NumberOf
\* What is missing at the receiver is not held, so the sender has it.
<1>8. ASSUME NEW sn \in SN, Rel(sn, vrR) <= Rel(vrH, vrR), ~rxonBuffer[sn].complete,
             sn # vtS
      PROVE  IsBuffered(sn)
  <2>1. Rel(vtS, sn) # 0 BY <1>4, <1>8, RelZero
  <2>2. Rel(vtS, sn) <= Rel(vtS, vrR) BY <1>7, <1>8
  <2>3. Rel(vtS, sn) \in Nat /\ Rel(vtS, vrR) \in Nat /\ Rel(vtS, vtA) \in Nat
    BY <1>4, <1>5
  <2>4. InFlight(sn) BY <1>6, <2>1, <2>2, <2>3, InFlightBelowTop DEF DeliveryInv
  <2>5. ~IsHeld(sn)
    <3>1. ~(NumberOf(sn) <= Len(delivered)) BY <1>7, <2>2, <2>3
    <3>2. QED BY <1>8, <3>1 DEF IsHeld
  <2>6. QED BY <2>4, <2>5 DEF DeliveryInv, NothingLost
<1>9. /\ Rel(ack, vrR) <= Rel(vrMs, vrR)
      /\ ~rxonBuffer[ack].complete
  <2>1. ack \in Missing \cup {vrMs} BY <1>2 DEF IsAckSn
  <2>2. Rel(ack, vrR) \in Nat /\ Rel(vrMs, vrR) \in Nat BY <1>2, <1>4, <1>5
  <2>3. QED BY <1>6, <2>1, <2>2 DEF Missing
<1>10. Rel(ack, vrR) <= Rel(vrH, vrR)
  <2>1. Rel(ack, vrR) \in Nat /\ Rel(vrMs, vrR) \in Nat /\ Rel(vrH, vrR) \in Nat
    BY <1>2, <1>4, <1>5
  <2>2. QED BY <1>6, <1>9, <2>1
<1>11. Rel(ack, vtA) <= Rel(vtS, vtA)
  <2>1. Rel(vtS, ack) \in Nat /\ Rel(vtS, vrR) \in Nat /\ Rel(vtS, vtA) \in Nat
    BY <1>2, <1>4, <1>5
  <2>2. Rel(vtS, ack) <= Rel(vtS, vrR) BY <1>2, <1>7, <1>10
  <2>3. Rel(ack, vtA) = Rel(vtS, vtA) - Rel(vtS, ack) BY <1>2, <1>6, <1>7, <2>1, <2>2
  <2>4. QED BY <2>1, <2>3
<1>12. ASSUME NEW sn \in SN, Acked(s, sn) PROVE IsHeld(sn)
  <2>1. InFlight(sn) /\ Rel(sn, vtA) < Rel(ack, vtA) /\ sn \notin MissingBelow(ack)
    BY <1>2, <1>12 DEF Acked, Reported, IsAckSn
  <2>2. Rel(vtS, sn) <= Rel(vtS, vtA) BY <2>1, InFlightBelowTop DEF DeliveryInv
  <2>3. SUFFICES ASSUME ~(NumberOf(sn) <= Len(delivered)) PROVE rxonBuffer[sn].complete
    BY DEF IsHeld
  <2>4. /\ Rel(vtS, sn) \in Nat /\ Rel(vtS, ack) \in Nat /\ Rel(vtS, vrR) \in Nat
        /\ Rel(vtS, vtA) \in Nat /\ Rel(vrMs, vrR) \in Nat /\ Rel(vrH, vrR) \in Nat
        /\ Rel(sn, vrR) \in Nat /\ Rel(ack, vrR) \in Nat
    BY <1>2, <1>4, <1>5
  <2>5. Rel(vtS, sn) <= Rel(vtS, vrR) /\ Rel(vtS, ack) <= Rel(vtS, vrR)
    BY <1>2, <1>7, <1>10, <2>3, <2>4
  <2>6. /\ Rel(sn, vrR) = Rel(vtS, vrR) - Rel(vtS, sn)
        /\ Rel(ack, vrR) = Rel(vtS, vrR) - Rel(vtS, ack)
        /\ Rel(sn, vtA) = Rel(vtS, vtA) - Rel(vtS, sn)
        /\ Rel(ack, vtA) = Rel(vtS, vtA) - Rel(vtS, ack)
    BY <1>2, <1>6, <1>7, <2>2, <2>4, <2>5
  <2>7. Rel(sn, vrR) < Rel(ack, vrR) BY <2>1, <2>4, <2>6
  <2>8. Rel(sn, vrR) < Rel(vrMs, vrR) BY <1>9, <2>4, <2>7
  <2>9. QED BY <2>1, <2>7, <2>8 DEF MissingBelow, Missing
<1>13. ASSUME NEW sn \in SN, Nacked(s, sn) PROVE IsBuffered(sn)
  <2>1. InFlight(sn) /\ sn \in Missing
    BY <1>13 DEF Nacked, Reported, StatusNacks
  <2>2. Rel(vtS, sn) # 0
    <3>1. 1 <= Rel(vtS, sn) BY <2>1, InFlightBelowTop DEF DeliveryInv
    <3>2. QED BY <3>1
  <2>3. sn # vtS BY <1>4, <2>2, RelZero
  <2>4. Rel(sn, vrR) <= Rel(vrH, vrR) /\ ~rxonBuffer[sn].complete
    <3>1. Rel(sn, vrR) \in Nat /\ Rel(vrMs, vrR) \in Nat /\ Rel(vrH, vrR) \in Nat
      BY <1>4, <1>5
    <3>2. QED BY <1>6, <2>1, <3>1 DEF Missing
  <2>5. QED BY <1>8, <2>3, <2>4
<1>14. ReportOK(s)
  <2>1. s.ack = ack OBVIOUS
  <2>2. s.ack # vtS => IsBuffered(s.ack) BY <1>2, <1>8, <1>9, <1>10, <2>1
  <2>3. QED BY <1>11, <1>12, <1>13, <2>1, <2>2 DEF ReportOK
<1> HIDE DEF s
<1>15. StatusOK'
  <2>1. ReportOK(s)'
    BY <1>1, <1>14 DEF ReportOK, Acked, Nacked, Reported, InFlight, IsHeld, IsBuffered,
                       NumberOf, txVars
  <2>2. QED BY <1>3, <2>1 DEF StatusOK
<1>16. ProhibitOK' BY <1>1, <1>3 DEF ProhibitOK
<1>17. PositionsOK' /\ BufferedOK' /\ FlightOK' /\ ReceivedOK' /\ HolBuffered'
       /\ InOrderExactlyOnce'
  BY <1>1 DEF DeliveryInv, PositionsOK, BufferedOK, Built, FlightOK, PartOK, ReceivedOK,
              EntryOK, NumberOf, HolBuffered, InOrderExactlyOnce, txVars
<1>18. NothingLost'
  BY <1>1 DEF DeliveryInv, NothingLost, InFlight, IsBuffered, IsHeld, NumberOf, txVars
<1>19. QED BY <1>15, <1>16, <1>17, <1>18 DEF DeliveryInv

\* A STATUS PDU moves VT(A) over what the receiver holds, so never beyond VR(R),
\* and no further than to an SN the sender still has.
LEMMA ReceiveStatusDelivers ==
    ASSUME DeliveryInv, Inv', DoReceiveStatus
    PROVE  DeliveryInv'
<1>1. PICK s \in status : ReceiveStatus(s) /\ status' = status \ {s}
  BY DEF DoReceiveStatus
<1>2. UNCHANGED <<vtS, sent, rxVars, data>>
  BY <1>1 DEF DoReceiveStatus, ReceiveStatus, historyVars
<1>3. status' = {} BY <1>1 DEF DeliveryInv, ProhibitOK
<1>4. s.ack \in SN /\ ReportOK(s)
  BY DEF DeliveryInv, StatusOK, Inv, StatusPdu
<1>5. /\ vtA \in SN /\ vtS \in SN /\ vrR \in SN /\ vrH \in SN
      /\ Len(sent) \in Nat /\ Len(delivered) \in Nat
      /\ Modulus \in Nat /\ WindowSize \in Nat /\ WindowSize > 0
      /\ 2 * WindowSize <= Modulus
  BY PositionTypes DEF DeliveryInv
<1>6. \A u, v \in SN : Rel(u, v) \in Nat /\ Rel(u, v) < Modulus
  BY RelType
<1>7. PICK k \in 0 .. WindowSize :
        /\ \A i \in 0 .. k - 1 : Acked(s, Plus(vtA, i))
        /\ ~Acked(s, Plus(vtA, k))
        /\ vtA' = Plus(vtA, k)
  BY <1>1 DEF ReceiveStatus, FirstNotAcked
<1>8. vtA' \in SN BY <1>1 DEF ReceiveStatus
<1>9. ASSUME NEW i \in Nat, i <= WindowSize
      PROVE  Plus(vtA, i) \in SN /\ Rel(Plus(vtA, i), vtA) = i
  BY <1>5, <1>9, RelPlus
<1>10. /\ k \in Nat /\ Rel(vtA', vtA) = k /\ k <= Rel(vtS, vtA)
       /\ Rel(vtS, vtA') = Rel(vtS, vtA) - k
  <2>1. k \in Nat /\ k <= WindowSize BY <1>5
  <2>2. Rel(vtA', vtA) = k BY <1>7, <1>9, <2>1
  <2>3. Rel(vtS, vtA) \in Nat BY <1>5, <1>6
  <2>4. k <= Rel(vtS, vtA)
    <3>1. SUFFICES ASSUME Rel(vtS, vtA) < k PROVE FALSE BY <2>1, <2>3
    <3>2. Acked(s, Plus(vtA, Rel(vtS, vtA))) BY <1>7, <2>1, <2>3, <3>1
    <3>3. Rel(Plus(vtA, Rel(vtS, vtA)), vtA) = Rel(vtS, vtA)
      BY <1>9, <1>5, <2>1, <2>3, <3>1
    <3>4. QED BY <2>3, <3>2, <3>3 DEF Acked, Reported, InFlight
  <2>5. Rel(vtS, vtA') = Rel(vtS, vtA) - k BY <1>5, <1>7, <2>1, <2>4, RelMoveBase
  <2>6. QED BY <2>1, <2>2, <2>4, <2>5
<1>11. /\ Rel(vtS, vrR) = Len(sent) - Len(delivered)
       /\ Rel(vtS, vrR) <= Rel(vtS, vtA)
       /\ Rel(vtS, vtA) <= Len(sent)
       /\ Rel(vrH, vrR) <= Rel(vtS, vrR)
  BY DEF DeliveryInv, PositionsOK
<1>12. Rel(vtS, vrR) \in Nat /\ Rel(vtS, vtA) \in Nat /\ Rel(vrR, vtA) \in Nat
       /\ Rel(vrH, vrR) \in Nat
  BY <1>5, <1>6
<1>13. ~IsHeld(vrR)
  <2>1. ~rxonBuffer[vrR].complete BY DEF DeliveryInv, Inv, RxInv, RxWindowOK
  <2>2. NumberOf(vrR) = Len(delivered) + 1 BY <1>5, <1>11 DEF NumberOf
  <2>3. QED BY <1>5, <2>1, <2>2 DEF IsHeld
<1>14. Rel(vtS, vrR) <= Rel(vtS, vtA')
  <2>1. SUFFICES ASSUME Rel(vtS, vtA) - k < Rel(vtS, vrR) PROVE FALSE
    BY <1>10, <1>12
  <2>2. Rel(vrR, vtA) = Rel(vtS, vtA) - Rel(vtS, vrR)
    BY <1>5, <1>11, RelFromTop
  <2>3. Rel(vrR, vtA) \in 0 .. k - 1 BY <1>10, <1>12, <2>1, <2>2
  <2>4. Plus(vtA, Rel(vrR, vtA)) = vrR BY <1>5, RelType
  <2>5. Acked(s, vrR) BY <1>7, <2>3, <2>4
  <2>6. QED BY <1>4, <1>5, <1>13, <2>5 DEF ReportOK
<1>15. PositionsOK'
  <2>1. Rel(vtS, vtA') <= Len(sent) BY <1>5, <1>10, <1>11, <1>12
  <2>2. QED BY <1>2, <1>11, <1>14, <2>1 DEF PositionsOK, rxVars
<1>16. \A sn \in SN : /\ NumberOf(sn)' = NumberOf(sn) /\ Built(sn)' = Built(sn)
                      /\ IsHeld(sn)' = IsHeld(sn)
  BY <1>2 DEF NumberOf, Built, IsHeld, rxVars
<1>17. PICK moved \in SUBSET SN, acked \in SUBSET SN :
        /\ moved = {sn \in SN : Nacked(s, sn) /\ txedBuffer[sn] # NoPdu}
        /\ acked = {sn \in SN : Acked(s, sn)}
        /\ txedBuffer' = [sn \in SN |->
                            IF sn \in moved \cup acked THEN NoPdu ELSE txedBuffer[sn]]
        /\ retxBuffer' = [sn \in SN |->
                            IF sn \in moved THEN txedBuffer[sn]
                            ELSE IF sn \in acked THEN NoPdu ELSE retxBuffer[sn]]
  BY <1>1 DEF ReceiveStatus
<1>18. BufferedOK'
  BY <1>16, <1>17 DEF BufferedOK, DeliveryInv
<1>19. ASSUME NEW sn \in SN, IsBuffered(sn), ~Acked(s, sn)
       PROVE  IsBuffered(sn)'
  BY <1>17, <1>19 DEF IsBuffered
<1>20. ASSUME NEW sn \in SN, InFlight(sn)'
       PROVE  InFlight(sn)
  <2>1. 1 <= Rel(vtS, sn) /\ Rel(vtS, sn) <= Rel(vtS, vtA')
    BY <1>2, <1>5, <1>8, <1>20, RelBetween DEF InFlight
  <2>2. Rel(vtS, sn) \in Nat BY <1>5, <1>6
  <2>3. QED BY <1>10, <1>12, <2>1, <2>2, InFlightBelowTop DEF DeliveryInv
<1>21. NothingLost'
  <2>1. SUFFICES ASSUME NEW sn \in SN, InFlight(sn)'
                 PROVE  IsBuffered(sn)' \/ IsHeld(sn)'
    BY DEF NothingLost
  <2>2. IsBuffered(sn) \/ IsHeld(sn) BY <1>20, <2>1 DEF DeliveryInv, NothingLost
  <2>3. Acked(s, sn) => IsHeld(sn) BY <1>4 DEF ReportOK
  <2>4. QED BY <1>16, <1>19, <2>2, <2>3
<1>22. HolBuffered'
  <2>1. SUFFICES ASSUME vtA' # vtS PROVE IsBuffered(vtA)'
    BY <1>2 DEF HolBuffered, IsBuffered
  <2>2. PICK a \in SN : a = vtA' BY <1>8
  <2>3. ~Acked(s, a) BY <1>7, <2>2
  <2>4. InFlight(a)
    <3>1. Rel(vtS, a) # 0 BY <1>5, <2>1, <2>2, RelZero
    <3>2. Rel(vtS, a) \in Nat /\ Rel(vtS, a) <= Rel(vtS, vtA)
      BY <1>5, <1>6, <1>10, <1>12, <2>2
    <3>3. QED BY <3>1, <3>2, InFlightBelowTop DEF DeliveryInv
  <2>5. IsBuffered(a)
    <3>1. CASE Nacked(s, a) BY <1>4, <3>1 DEF ReportOK
    <3>2. CASE ~Reported(s, a)
      <4>1. ~(k < Rel(s.ack, vtA)) BY <1>10, <2>2, <2>4, <3>2 DEF Reported
      <4>2. Rel(s.ack, vtA) \in Nat BY <1>4, <1>5, <1>6
      <4>3. Rel(s.ack, vtA) = k
        <5>1. SUFFICES ASSUME Rel(s.ack, vtA) < k PROVE FALSE
          BY <1>10, <4>1, <4>2
        <5>2. Acked(s, Plus(vtA, Rel(s.ack, vtA))) BY <1>7, <1>10, <4>2, <5>1
        <5>3. Plus(vtA, Rel(s.ack, vtA)) = s.ack BY <1>4, <1>5, RelType
        <5>4. QED BY <4>2, <5>2, <5>3 DEF Acked, Reported
      <4>4. s.ack = a BY <1>4, <1>5, <1>10, <2>2, <4>3, RelInjective
      <4>5. QED BY <1>4, <2>1, <2>2, <4>4 DEF ReportOK
    <3>3. QED BY <2>3, <3>1, <3>2 DEF Acked, Nacked
  <2>6. IsBuffered(a)' BY <1>19, <2>3, <2>5
  <2>7. QED BY <2>2, <2>6 DEF IsBuffered
<1>23. FlightOK' /\ ReceivedOK' /\ InOrderExactlyOnce'
  BY <1>2 DEF DeliveryInv, FlightOK, PartOK, ReceivedOK, EntryOK, NumberOf,
              InOrderExactlyOnce, rxVars
<1>24. StatusOK' /\ ProhibitOK' BY <1>3 DEF StatusOK, ProhibitOK
<1>25. QED BY <1>15, <1>18, <1>21, <1>22, <1>23, <1>24 DEF DeliveryInv

\* What the reception buffer holds once a PDU in flight is placed is a part of what
\* was built with its SN.
LEMMA PlacedPart ==
    ASSUME DeliveryInv, NEW pdu \in data
    PROVE  EntryOK(Placed(rxonBuffer[pdu.sn], pdu), pdu.sn)
<1> DEFINE entry == rxonBuffer[pdu.sn]
<1>1. PartOK(pdu) /\ pdu \in WireSet BY DEF DeliveryInv, FlightOK, Inv
<1>2. /\ pdu.sn \in SN /\ pdu.so \in Nat /\ pdu.len \in Nat
      /\ pdu.segment \in BOOLEAN /\ pdu.last \in BOOLEAN
  BY <1>1 DEF WireSet
<1>3. entry \in RxEntry /\ EntryOK(entry, pdu.sn)
  BY <1>2 DEF DeliveryInv, ReceivedOK, Inv, RxInv, RxTypeOK
<1>4. entry.id \in Nat /\ entry.len \in Nat /\ entry.complete \in BOOLEAN
  BY <1>3 DEF RxEntry
<1>5. /\ pdu.id = NumberOf(pdu.sn)
      /\ pdu.last => pdu.so + pdu.len = sent[NumberOf(pdu.sn)]
      /\ ~pdu.segment => pdu.so = 0 /\ pdu.last
  BY <1>1 DEF PartOK
<1>6. ~pdu.segment => pdu.len = sent[NumberOf(pdu.sn)]
  BY <1>2, <1>5
<1> HIDE DEF entry
<1>7. CASE entry = NoEntry /\ pdu.so = 0
  <2>1. Placed(entry, pdu) = [id |-> pdu.id, len |-> pdu.len, complete |-> ~pdu.segment]
    BY <1>7 DEF Placed
  <2>2. Placed(entry, pdu).id = pdu.id /\ Placed(entry, pdu).len = pdu.len
    BY <2>1
  <2>3. Placed(entry, pdu).complete => ~pdu.segment
    <3>1. SUFFICES ASSUME pdu.segment = TRUE PROVE Placed(entry, pdu).complete = FALSE
      BY <1>2
    <3>2. Placed(entry, pdu) = [id |-> pdu.id, len |-> pdu.len, complete |-> FALSE]
      BY <2>1, <3>1
    <3>3. QED BY <3>2
  <2>4. QED BY <1>5, <1>6, <2>2, <2>3 DEF EntryOK, entry
<1>8. CASE entry # NoEntry /\ (~pdu.segment \/ entry.complete)
  BY <1>3, <1>8 DEF Placed, entry
<1>9. CASE entry # NoEntry /\ pdu.segment /\ ~entry.complete /\ pdu.so = entry.len
  <2>1. Placed(entry, pdu)
          = [id |-> entry.id, len |-> entry.len + pdu.len, complete |-> pdu.last]
    BY <1>9 DEF Placed
  <2>2. entry.id = NumberOf(pdu.sn) BY <1>3, <1>9 DEF EntryOK
  <2>3. /\ Placed(entry, pdu).id = NumberOf(pdu.sn)
        /\ Placed(entry, pdu).complete => pdu.last
        /\ Placed(entry, pdu).len = pdu.so + pdu.len
    BY <1>9, <2>1, <2>2
  <2>4. QED BY <1>5, <2>3 DEF EntryOK, entry
<1>10. CASE Placed(entry, pdu) = NoEntry
  BY <1>10 DEF EntryOK, entry
<1>11. QED BY <1>2, <1>4, <1>7, <1>8, <1>9, <1>10 DEF Placed, entry

\* Inside the receiver's window a PDU in flight is one the receiver still waits for,
\* and not another with the same SN.
LEMMA PlaceIsAhead ==
    ASSUME DeliveryInv, NEW pdu \in data, IsInsideReceivingWindow(vrR, pdu.sn)
    PROVE  /\ pdu.sn \in SN
           /\ 1 <= Rel(vtS, pdu.sn) /\ Rel(vtS, pdu.sn) <= Rel(vtS, vrR)
           /\ Rel(pdu.sn, vrR) = Rel(vtS, vrR) - Rel(vtS, pdu.sn)
<1>1. PartOK(pdu) /\ pdu.sn \in SN BY DEF DeliveryInv, FlightOK, Inv, WireSet
<1>2. /\ vtS \in SN /\ vrR \in SN
      /\ Modulus \in Nat /\ WindowSize \in Nat /\ 2 * WindowSize <= Modulus
      /\ Rel(vtS, pdu.sn) \in Nat /\ Rel(vtS, vrR) \in Nat
  BY <1>1, PositionTypes DEF DeliveryInv
<1>3. 1 <= Rel(vtS, pdu.sn) /\ Rel(vtS, pdu.sn) <= WindowSize BY <1>1 DEF PartOK
<1>4. Rel(pdu.sn, vrR) < WindowSize BY DEF IsInsideReceivingWindow
<1>5. /\ Rel(vtS, pdu.sn) <= Rel(vtS, vrR)
           => Rel(pdu.sn, vrR) = Rel(vtS, vrR) - Rel(vtS, pdu.sn)
      /\ Rel(vtS, vrR) < Rel(vtS, pdu.sn)
           => Rel(pdu.sn, vrR) = Rel(vtS, vrR) - Rel(vtS, pdu.sn) + Modulus
  BY <1>1, <1>2, RelFromTop
<1>6. QED BY <1>1, <1>2, <1>3, <1>4, <1>5

\* A data PDU that arrives completes, continues or spoils one entry, and what is
\* complete from VR(R) on is handed over.
LEMMA ReceiveDataDelivers ==
    ASSUME DeliveryInv, Inv', NEW arriving \in SN, DoReceiveData(arriving)
    PROVE  DeliveryInv'
<1>1. PICK pdu \in data :
        /\ ReceiveData(pdu)
        /\ data' = data \ {pdu}
        /\ UNCHANGED <<txVars, status>>
  BY DEF DoReceiveData
<1>2. pdu \in WireSet BY DEF DeliveryInv, Inv
<1>3. /\ UNCHANGED <<vtA, vtS, sent, txedBuffer, retxBuffer>>
      /\ \A p \in data' : PartOK(p)
  BY <1>1 DEF txVars, DeliveryInv, FlightOK
<1>4. CASE DiscardPdu(pdu)
  <2>1. UNCHANGED <<vrR, vrH, rxonBuffer, delivered, statusProhibitTimer>>
    BY <1>4 DEF DiscardPdu
  <2>2. \A s \in SN : /\ txedBuffer'[s] # NoPdu => txedBuffer'[s] = Built(s)
                      /\ retxBuffer'[s] # NoPdu => retxBuffer'[s] = Built(s)
                      /\ IsBuffered(s) => IsBuffered(s)'
    BY <1>3 DEF DeliveryInv, BufferedOK, IsBuffered
  <2>3. QED BY <1>1, <1>3, <2>1, <2>2, QuietStep DEF DeliveryInv, ProhibitOK
<1>5. CASE PlacePdu(pdu)
  <2> DEFINE buffer == BufferWith(pdu)
             h      == HighestWith(pdu)
  <2>1. /\ IsInsideReceivingWindow(vrR, pdu.sn)
        /\ vrH' = h
        /\ vrR' \in SN
        /\ delivered' = delivered \o Payloads(buffer, vrR, vrR')
        /\ rxonBuffer' = [sn \in SN |->
                            IF Rel(sn, vrR) < Rel(vrR', vrR) THEN NoEntry ELSE buffer[sn]]
        /\ UNCHANGED statusProhibitTimer
    BY <1>5 DEF PlacePdu, BufferWith, HighestWith
  <2>2. /\ buffer \in [SN -> RxEntry]
        /\ \A sn \in SN : sn # pdu.sn => buffer[sn] = rxonBuffer[sn]
        /\ \A sn \in SN : rxonBuffer[sn].complete => buffer[sn] = rxonBuffer[sn]
        /\ h \in SN
        /\ \A sn \in SN : buffer[sn] # NoEntry => Rel(sn, vrR) < Rel(h, vrR)
        /\ Rel(vrR', vrR) <= Rel(h, vrR)
        /\ \A sn \in SN : Rel(sn, vrR) < Rel(vrR', vrR) => buffer[sn].complete
    BY <1>2, <1>5, PlacePduWalks DEF DeliveryInv, Inv
  <2>3. /\ vtA \in SN /\ vtS \in SN /\ vrR \in SN /\ vrH \in SN /\ pdu.sn \in SN
        /\ Len(sent) \in Nat /\ Len(delivered) \in Nat
        /\ Modulus \in Nat /\ WindowSize \in Nat
        /\ 2 * WindowSize <= Modulus
    BY <1>2, PositionTypes DEF DeliveryInv, WireSet
  <2>4. \A u, v \in SN : Rel(u, v) \in Nat /\ Rel(u, v) < Modulus
    BY RelType
  <2>5. /\ Rel(vtS, vrR) = Len(sent) - Len(delivered)
        /\ Rel(vtS, vrR) <= Rel(vtS, vtA)
        /\ Rel(vtS, vtA) <= Len(sent)
        /\ Rel(vrH, vrR) <= Rel(vtS, vrR)
    BY DEF DeliveryInv, PositionsOK
  <2>6. /\ Rel(vtS, vrR) \in Nat /\ Rel(vtS, vtA) \in Nat /\ Rel(h, vrR) \in Nat
        /\ Rel(vrR', vrR) \in Nat /\ Rel(vrR', vrR) < Modulus /\ Rel(vtS, pdu.sn) \in Nat
    BY <2>1, <2>2, <2>3, <2>4
  \* The new VR(H) is not beyond VT(S), because the PDU was built.
  <2>7. Rel(h, vrR) <= Rel(vtS, vrR)
    <3>1. CASE h = vrH BY <2>5, <3>1
    <3>2. CASE h = Inc(pdu.sn)
      <4>1. /\ 1 <= Rel(vtS, pdu.sn) /\ Rel(vtS, pdu.sn) <= Rel(vtS, vrR)
            /\ Rel(pdu.sn, vrR) = Rel(vtS, vrR) - Rel(vtS, pdu.sn)
        BY <2>1, PlaceIsAhead
      <4>2. Rel(h, vrR) = Rel(pdu.sn, vrR) + 1
        BY <2>1, <2>3, <3>2, RelInc DEF IsInsideReceivingWindow
      <4>3. QED BY <2>6, <4>1, <4>2
    <3>3. QED BY <3>1, <3>2 DEF HighestWith
  <2> DEFINE n == Rel(vrR', vrR)
  <2>8. n \in Nat /\ n <= Rel(vtS, vrR) /\ n < Modulus
    BY <2>2, <2>6, <2>7
  <2>9. /\ Rel(vtS, vrR') = Rel(vtS, vrR) - n
        /\ Rel(vrH', vrR') = Rel(h, vrR) - n
    <3>1. vrR' = Plus(vrR, n) BY <2>1, <2>3, RelType
    <3>2. Rel(vtS, vrR') = Rel(vtS, vrR) - n BY <2>3, <2>8, <3>1, RelMoveBase
    <3>3. Rel(h, vrR') = Rel(h, vrR) - n BY <2>2, <2>3, <2>8, <3>1, RelMoveBase
    <3>4. QED BY <2>1, <3>2, <3>3
  <2> HIDE DEF buffer, h
  <2>10. /\ Len(delivered') = Len(delivered) + n
         /\ DOMAIN delivered' = 1 .. Len(delivered) + n
         /\ \A i \in 1 .. Len(delivered) : delivered'[i] = delivered[i]
         /\ \A i \in Len(delivered) + 1 .. Len(delivered) + n :
               delivered'[i] = Payloads(buffer, vrR, vrR')[i - Len(delivered)]
    <3>1. /\ delivered \in Seq([id : Nat, len : Nat])
          /\ delivered' \in Seq([id : Nat, len : Nat])
      BY DEF DeliveryInv, Inv, RxInv, RxTypeOK
    <3>2. Payloads(buffer, vrR, vrR') \in Seq([id : Nat, len : Nat])
      BY <2>1, <2>2, <2>3, PayloadsType
    <3>3. Len(Payloads(buffer, vrR, vrR')) = n
      BY <2>8 DEF Payloads
    <3> DEFINE payloads == Payloads(buffer, vrR, vrR')
    <3> HIDE DEF payloads
    <3>4. /\ delivered' = delivered \o payloads
          /\ payloads \in Seq([id : Nat, len : Nat]) /\ Len(payloads) = n
      BY <2>1, <3>2, <3>3 DEF payloads
    <3>5. /\ Len(delivered') = Len(delivered) + n
          /\ \A i \in 1 .. Len(delivered) + n :
                delivered'[i] = IF i <= Len(delivered) THEN delivered[i]
                                ELSE payloads[i - Len(delivered)]
      BY <3>1, <3>4, ConcatProperties
    <3>6. DOMAIN delivered' = 1 .. Len(delivered')
      BY <3>1, LenProperties
    <3> HIDE DEF n
    <3>7. QED BY <2>3, <2>8, <3>5, <3>6 DEF payloads
  \* What is in the buffer has the number its SN stands for.
  <2>11. ASSUME NEW sn \in SN PROVE EntryOK(buffer[sn], sn)
    <3>1. CASE sn = pdu.sn
      <4>1. rxonBuffer \in [SN -> RxEntry] BY DEF DeliveryInv, Inv, RxInv, RxTypeOK
      <4>2. buffer[sn] = Placed(rxonBuffer[pdu.sn], pdu)
        BY <2>3, <3>1, <4>1 DEF buffer, BufferWith
      <4>3. QED BY <3>1, <4>2, PlacedPart
    <3>2. CASE sn # pdu.sn BY <2>2, <3>2 DEF DeliveryInv, ReceivedOK
    <3>3. QED BY <3>1, <3>2
  <2>12. ASSUME NEW sn \in SN, Rel(sn, vrR) < Rel(h, vrR)
         PROVE  NumberOf(sn) = Len(delivered) + 1 + Rel(sn, vrR)
    <3>1. /\ Rel(vtS, sn) <= Rel(vtS, vrR) => Rel(sn, vrR) = Rel(vtS, vrR) - Rel(vtS, sn)
          /\ Rel(vtS, vrR) < Rel(vtS, sn)
               => Rel(sn, vrR) = Rel(vtS, vrR) - Rel(vtS, sn) + Modulus
      BY <2>3, RelFromTop
    <3>2. /\ Rel(vtS, sn) \in Nat /\ Rel(sn, vrR) \in Nat /\ Rel(vtS, sn) < Modulus
      BY <2>3, <2>4
    <3>3. Rel(vtS, sn) <= Rel(vtS, vrR)
      BY <2>3, <2>6, <2>7, <2>12, <3>1, <3>2
    <3>4. Rel(sn, vrR) = Rel(vtS, vrR) - Rel(vtS, sn)
      BY <3>1, <3>3
    <3>5. QED BY <2>3, <2>5, <3>2, <3>4 DEF NumberOf
  <2>13. \A sn \in SN : /\ NumberOf(sn)' = NumberOf(sn) /\ Built(sn)' = Built(sn)
                        /\ InFlight(sn)' = InFlight(sn)
                        /\ IsBuffered(sn)' = IsBuffered(sn)
    BY <1>3 DEF NumberOf, Built, InFlight, IsBuffered
  <2>14. ASSUME NEW sn \in SN, IsHeld(sn) PROVE IsHeld(sn)'
    <3>1. NumberOf(sn) \in Int BY PositionTypes DEF DeliveryInv
    <3>2. CASE NumberOf(sn) <= Len(delivered)
      <4>1. NumberOf(sn) <= Len(delivered') BY <2>3, <2>8, <2>10, <3>1, <3>2
      <4>2. QED BY <2>13, <4>1 DEF IsHeld
    <3>3. CASE rxonBuffer[sn].complete
      <4>1. buffer[sn].complete BY <2>2, <3>3
      <4>2. CASE Rel(sn, vrR) < n
        <5>1. buffer[sn] # NoEntry BY <4>1 DEF NoEntry
        <5>2. NumberOf(sn) = Len(delivered) + 1 + Rel(sn, vrR) BY <2>2, <2>12, <5>1
        <5>3. Rel(sn, vrR) \in Nat BY <2>3, <2>4
        <5>4. NumberOf(sn) <= Len(delivered') BY <2>3, <2>8, <2>10, <4>2, <5>2, <5>3
        <5>5. QED BY <2>13, <5>4 DEF IsHeld
      <4>3. CASE ~(Rel(sn, vrR) < n)
        BY <2>1, <4>1, <4>3 DEF IsHeld
      <4>4. QED BY <4>2, <4>3
    <3>4. QED BY <3>2, <3>3, <2>14 DEF IsHeld
  <2>15. PositionsOK'
    <3>1. Rel(vtS', vrR') = Len(sent') - Len(delivered')
      BY <1>3, <2>3, <2>5, <2>8, <2>9, <2>10
    <3>2. Rel(vtS', vrR') <= Rel(vtS', vtA') /\ Rel(vtS', vtA') <= Len(sent')
      BY <1>3, <2>3, <2>5, <2>6, <2>8, <2>9
    <3>3. Rel(vrH', vrR') <= Rel(vtS', vrR')
      BY <1>3, <2>6, <2>7, <2>8, <2>9
    <3>4. QED BY <3>1, <3>2, <3>3 DEF PositionsOK
  <2>16. BufferedOK' BY <1>3, <2>13 DEF DeliveryInv, BufferedOK
  <2>17. FlightOK' BY <1>3, <2>13 DEF FlightOK, PartOK, NumberOf
  <2>18. ReceivedOK'
    <3>1. SUFFICES ASSUME NEW sn \in SN PROVE EntryOK(rxonBuffer[sn], sn)'
      BY DEF ReceivedOK
    <3>2. rxonBuffer'[sn] = NoEntry \/ rxonBuffer'[sn] = buffer[sn] BY <2>1
    <3>3. QED BY <1>3, <2>11, <2>13, <3>2 DEF EntryOK
  <2>19. NothingLost' BY <2>13, <2>14 DEF DeliveryInv, NothingLost
  <2>20. StatusOK'
    <3>1. SUFFICES ASSUME NEW s \in status' PROVE ReportOK(s)'
      BY DEF StatusOK
    <3>2. ReportOK(s) /\ s.ack \in SN BY <1>1 DEF DeliveryInv, StatusOK, Inv, StatusPdu
    <3>3. \A sn \in SN : Acked(s, sn)' = Acked(s, sn) /\ Nacked(s, sn)' = Nacked(s, sn)
      BY <1>3, <2>13 DEF Acked, Nacked, Reported
    <3>4. QED BY <1>3, <2>13, <2>14, <3>2, <3>3 DEF ReportOK
  <2>21. ProhibitOK' BY <1>1, <2>1 DEF DeliveryInv, ProhibitOK
  <2>22. HolBuffered' BY <1>3 DEF DeliveryInv, HolBuffered
  <2>23. InOrderExactlyOnce'
    <3>1. /\ Len(delivered) <= Len(sent)
          /\ DOMAIN delivered = 1 .. Len(delivered)
          /\ \A i \in DOMAIN delivered : delivered[i] = [id |-> i, len |-> sent[i]]
      BY LenProperties DEF DeliveryInv, InOrderExactlyOnce, Inv, RxInv, RxTypeOK
    <3>2. Len(delivered') <= Len(sent') BY <1>3, <2>3, <2>5, <2>8, <2>10
    <3>3. ASSUME NEW i \in 1 .. Len(delivered)
          PROVE  delivered'[i] = [id |-> i, len |-> sent[i]]
      BY <2>10, <3>1
    <3>4. ASSUME NEW i \in Len(delivered) + 1 .. Len(delivered) + n
          PROVE  delivered'[i] = [id |-> i, len |-> sent[i]]
      <4> DEFINE k  == i - Len(delivered) - 1
                 sn == Plus(vrR, k)
      <4>1. k \in Nat /\ k < n /\ k < Modulus BY <2>3, <2>8
      <4>2. sn \in SN /\ Rel(sn, vrR) = k BY <2>3, <4>1, RelPlus
      <4>3. buffer[sn].complete BY <2>2, <4>1, <4>2
      <4>4. NumberOf(sn) = i
        <5>1. buffer[sn] # NoEntry BY <4>3 DEF NoEntry
        <5>2. NumberOf(sn) = Len(delivered) + 1 + k BY <2>2, <2>12, <4>2, <5>1
        <5>3. QED BY <2>3, <5>2
      <4>5. buffer[sn].id = i /\ buffer[sn].len = sent[i]
        <5>1. buffer[sn] # NoEntry BY <4>3 DEF NoEntry
        <5>2. EntryOK(buffer[sn], sn) BY <2>11, <4>2
        <5>3. QED BY <4>3, <4>4, <5>1, <5>2 DEF EntryOK
      <4>6. i - Len(delivered) \in 1 .. n /\ i - Len(delivered) - 1 = k
        BY <2>3, <2>8
      <4>7. Payloads(buffer, vrR, vrR')[i - Len(delivered)]
              = [id |-> buffer[sn].id, len |-> buffer[sn].len]
        BY <4>6 DEF Payloads
      <4>8. QED BY <2>10, <4>5, <4>7
    <3>5. \A i \in DOMAIN delivered' : \/ i \in 1 .. Len(delivered)
                                       \/ i \in Len(delivered) + 1 .. Len(delivered) + n
      BY <2>3, <2>8, <2>10
    <3>6. QED BY <1>3, <3>2, <3>3, <3>4, <3>5 DEF InOrderExactlyOnce
  <2>24. QED BY <2>15, <2>16, <2>17, <2>18, <2>19, <2>20, <2>21, <2>22, <2>23
             DEF DeliveryInv
<1>6. QED BY <1>1, <1>4, <1>5 DEF ReceiveData

\* Every step of the bearer preserves the invariant.
LEMMA DeliveryNext ==
    ASSUME StatusCap = 1
    PROVE  DeliveryInv /\ [Next]_vars => DeliveryInv'
<1> SUFFICES ASSUME DeliveryInv, [Next]_vars PROVE DeliveryInv'
  OBVIOUS
<1>1. Inv' BY NextInv DEF DeliveryInv
<1>2. CASE \E bytes \in OppSizes : DoNotifyTxOpportunity(bytes)
  <2>1. PICK bytes \in OppSizes : DoNotifyTxOpportunity(bytes) BY <1>2
  <2>2. CASE \E len \in NewLens(bytes) : NotifyTransmitNew(bytes, len)
    BY <1>1, <2>2, TransmitNewDelivers
  <2>3. CASE \E sn \in SN : \/ NotifyRetransmitRest(sn, bytes)
                            \/ NotifyRetransmitSegment(sn, bytes)
                            \/ NotifyRetransmitNothing(sn, bytes)
    BY <1>1, <2>3, RetransmissionDelivers
  <2>4. QED BY <2>1, <2>2, <2>3 DEF DoNotifyTxOpportunity
<1>3. CASE NotifyTransmitStatus BY <1>1, <1>3, TransmitStatusDelivers
<1>4. CASE \E sn \in SN : DoReceiveData(sn) BY <1>1, <1>4, ReceiveDataDelivers
<1>5. CASE DoReceiveStatus BY <1>1, <1>5, ReceiveStatusDelivers
<1>6. CASE PollRetransmitTimeout BY <1>1, <1>6, PollRetransmitTimeoutDelivers
<1>7. CASE \/ \E size \in SduSizes : DoTransmitPdcpPdu(size)
           \/ LoseData \/ LoseStatus \/ ReorderingTimeout \/ StatusProhibitTimeout
           \/ UNCHANGED vars
  BY <1>1, <1>7, OtherStepsDeliver
<1>8. QED BY <1>2, <1>3, <1>4, <1>5, <1>6, <1>7 DEF Next

\* The invariant holds throughout.
LEMMA DeliveryInvariance ==
    ASSUME StatusCap = 1
    PROVE  Spec => []DeliveryInv
<1>1. Init => DeliveryInv BY DeliveryInit
<1>2. DeliveryInv /\ [Next]_vars => DeliveryInv' BY DeliveryNext
<1>3. QED BY <1>1, <1>2, PTL DEF Spec

\* What PDU number id is built with: an SN between VR(R) and VT(S) as long as the
\* PDU is not delivered.
LEMMA SnOfNumber ==
    ASSUME DeliveryInv, NEW id \in 1 .. Len(sent), Len(delivered) < id
    PROVE  \E sn \in SN : NumberOf(sn) = id /\ InFlight(sn)
<1> DEFINE k  == Len(sent) + 1 - id
           sn == Plus(vrR, Rel(vtS, vrR) - k)
<1>1. /\ vtA \in SN /\ vtS \in SN /\ vrR \in SN
      /\ Rel(vtS, vrR) \in Nat /\ Rel(vtS, vrR) < Modulus /\ Rel(vtS, vtA) \in Nat
      /\ Len(sent) \in Nat /\ Len(delivered) \in Nat /\ Modulus \in Nat
  BY PositionTypes DEF DeliveryInv
<1>2. /\ Rel(vtS, vrR) = Len(sent) - Len(delivered)
      /\ Rel(vtS, vrR) <= Rel(vtS, vtA)
  BY DEF DeliveryInv, PositionsOK
<1>3. 1 <= k /\ k <= Rel(vtS, vrR) /\ Rel(vtS, vrR) - k \in Nat
  BY <1>1, <1>2
<1>4. sn \in SN /\ Rel(sn, vrR) = Rel(vtS, vrR) - k
  BY <1>1, <1>3, RelPlus
<1> HIDE DEF sn
<1>5. Rel(vtS, sn) \in Nat /\ Rel(vtS, sn) < Modulus
  BY <1>1, <1>4, RelType
<1>6. Rel(vtS, sn) = k
  <2>1. /\ Rel(vtS, sn) <= Rel(vtS, vrR) => Rel(sn, vrR) = Rel(vtS, vrR) - Rel(vtS, sn)
        /\ Rel(vtS, vrR) < Rel(vtS, sn)
             => Rel(sn, vrR) = Rel(vtS, vrR) - Rel(vtS, sn) + Modulus
    BY <1>1, <1>4, RelFromTop
  <2>2. k \in Nat BY <1>1, <1>3
  <2> HIDE DEF k
  <2>3. QED BY <1>1, <1>3, <1>4, <1>5, <2>1, <2>2
<1>7. InFlight(sn)
  BY <1>1, <1>2, <1>3, <1>4, <1>6, InFlightBelowTop DEF DeliveryInv
<1>8. QED BY <1>1, <1>4, <1>6, <1>7 DEF NumberOf

\* The invariant names a keeper for every PDU.
LEMMA NothingForgottenInvariant == DeliveryInv => NothingForgotten
<1> SUFFICES ASSUME DeliveryInv, NEW id \in 1 .. Len(sent)
             PROVE  Buffered(id) \/ HeldByRx(id)
  BY DEF NothingForgotten
<1>1. CASE id <= Len(delivered) BY <1>1 DEF HeldByRx
<1>2. CASE Len(delivered) < id
  <2>1. PICK sn \in SN : NumberOf(sn) = id /\ InFlight(sn)
    BY <1>2, SnOfNumber
  <2>2. IsBuffered(sn) \/ IsHeld(sn) BY <2>1 DEF DeliveryInv, NothingLost
  <2>3. CASE IsBuffered(sn)
    <3>1. txedBuffer[sn] = Built(sn) \/ retxBuffer[sn] = Built(sn)
      BY <2>3 DEF IsBuffered, DeliveryInv, BufferedOK
    <3>2. QED BY <2>1, <3>1 DEF Buffered, Built
  <2>4. CASE IsHeld(sn)
    <3>1. Len(delivered) \in Nat BY PositionTypes DEF DeliveryInv
    <3>2. rxonBuffer[sn].complete BY <1>2, <2>1, <2>4, <3>1 DEF IsHeld
    <3>3. rxonBuffer[sn] # NoEntry BY <3>2 DEF NoEntry
    <3>4. rxonBuffer[sn].id = id
      BY <2>1, <3>3 DEF DeliveryInv, ReceivedOK, EntryOK
    <3>5. QED BY <3>2, <3>4 DEF HeldByRx
  <2>5. QED BY <2>2, <2>3, <2>4
<1>3. Len(delivered) \in Nat BY PositionTypes DEF DeliveryInv
<1>4. QED BY <1>1, <1>2, <1>3

\* The windows of both sides are nested in the invariant.
LEMMA WindowsNestedInvariant == DeliveryInv => WindowsNested
<1> SUFFICES ASSUME DeliveryInv PROVE WindowsNested
  OBVIOUS
<1>1. /\ Rel(vtS, vrR) \in Nat /\ Rel(vtS, vtA) \in Nat /\ Rel(vrH, vrR) \in Nat
      /\ Len(sent) \in Nat /\ Len(delivered) \in Nat
  BY PositionTypes DEF DeliveryInv
<1>2. QED BY <1>1 DEF DeliveryInv, PositionsOK, WindowsNested

(***************************************************************************)
(* The theorems, for every modulus, window, size and loss, as long as one  *)
(* STATUS PDU at a time is in flight.                                      *)
(***************************************************************************)

\* The payloads are handed to ReassembleAndDeliver in the order they were built,
\* each once, each whole.
THEOREM DeliveryInOrderExactlyOnce ==
    ASSUME StatusCap = 1
    PROVE  Spec => []InOrderExactlyOnce
<1>1. DeliveryInv => InOrderExactlyOnce BY DEF DeliveryInv
<1>2. Spec => []DeliveryInv BY DeliveryInvariance
<1>3. QED BY <1>1, <1>2, PTL

\* DoReceivePdu lets go of a PDU at the sender only when the receiver has all of it.
THEOREM SenderForgetsNothing ==
    ASSUME StatusCap = 1
    PROVE  Spec => []NothingForgotten
<1>1. DeliveryInv => NothingForgotten BY NothingForgottenInvariant
<1>2. Spec => []DeliveryInv BY DeliveryInvariance
<1>3. QED BY <1>1, <1>2, PTL

\* VT(A) <= VR(R) <= VR(H) <= VT(S), across the wrap of the SNs.
THEOREM BothWindowsNested ==
    ASSUME StatusCap = 1
    PROVE  Spec => []WindowsNested
<1>1. DeliveryInv => WindowsNested BY WindowsNestedInvariant
<1>2. Spec => []DeliveryInv BY DeliveryInvariance
<1>3. QED BY <1>1, <1>2, PTL

\* DoReportBufferStatus finds the PDU of VT(A) in one of the two buffers.
THEOREM HeadOfLineBuffered ==
    ASSUME StatusCap = 1
    PROVE  Spec => []HolBuffered
<1>1. DeliveryInv => HolBuffered BY DEF DeliveryInv
<1>2. Spec => []DeliveryInv BY DeliveryInvariance
<1>3. QED BY <1>1, <1>2, PTL

\* Where the sender has no reason to expect an answer, all it can be short of is
\* a PDU for the poll that t-PollRetransmit asked for.
LEMMA SilentOnlyIfPollDueInvariant ==
    DeliveryInv /\ SizesExact /\ PollInv => SilentOnlyIfPollDue
<1> SUFFICES ASSUME DeliveryInv, SizesExact, PollInv, vtA # vtS, ~pollRetransmitTimer,
                    ~(txonBufferSize > 0 /\ ~WindowStalled), ~(retxBufferSize > 0)
             PROVE  PollWithoutPdu
  BY DEF SilentOnlyIfPollDue, NoSilentStall
<1>1. /\ vtA \in SN /\ txonBufferSize \in Nat
      /\ retxBuffer \in [SN -> Pdu]
  BY DEF DeliveryInv, Inv, TxInv, TxTypeOK
<1>2. retxBufferSize = 0 /\ BytesIn(retxBuffer, SN) = 0
  <2>1. BytesIn(retxBuffer, SN) \in Nat BY <1>1, BytesType
  <2>2. QED BY <2>1 DEF SizesExact
<1>3. \A sn \in SN : retxBuffer[sn] = NoPdu
  BY <1>1, <1>2, BytesNone
<1>4. txedBuffer[vtA] # NoPdu
  BY <1>1, <1>3 DEF DeliveryInv, HolBuffered
<1>5. ~TailWaits BY <1>1, <1>3, <1>4 DEF TailWaits
<1>6. ~WindowStalled /\ pollRetransmitTimerJustExpired
  BY <1>5 DEF PollInv
<1>7. txonBufferSize = 0 BY <1>1, <1>6
<1>8. QED BY <1>2, <1>6, <1>7 DEF PollWithoutPdu

\* With whole PDUs the sender never waits for an answer nobody is going to send,
\* but for the one case in which t-PollRetransmit expired while PDUs waited for a
\* retransmission that became needless.
THEOREM NobodyWaitsForNothing ==
    ASSUME StatusCap = 1, RetxAlwaysBigEnough
    PROVE  Spec => []SilentOnlyIfPollDue
<1>1. Init => SizesExact /\ PollInv
  BY TxInitSizes, TxInitPolls DEF Init
<1>2. DeliveryInv /\ SizesExact /\ PollInv /\ [Next]_vars => SizesExact' /\ PollInv'
  <2>1. SUFFICES ASSUME DeliveryInv, SizesExact, PollInv, [Next]_vars
                 PROVE  SizesExact' /\ PollInv'
    OBVIOUS
  <2>2. TxInv /\ [TxNext]_txVars
    BY <2>1, NextIsTxStep DEF DeliveryInv, Inv
  <2>3. SizesExact' BY <2>1, <2>2, TxNextSizes
  <2>4. PollInv' BY <2>1, <2>2, TxNextPolls
  <2>5. QED BY <2>3, <2>4
<1>3. Spec => []DeliveryInv BY DeliveryInvariance
<1>4. DeliveryInv /\ SizesExact /\ PollInv => SilentOnlyIfPollDue
  BY SilentOnlyIfPollDueInvariant
<1>5. QED BY <1>1, <1>2, <1>3, <1>4, PTL DEF Spec

(***************************************************************************)
(* The bearer implements LteRlcAmService, as far as safety goes.           *)
(***************************************************************************)

\* A longer record of deliveries is one the service could have written.
LEMMA LongerIsDeliver ==
    ASSUME DeliveryInv, DeliveryInv', Len(delivered) < Len(delivered'),
           UNCHANGED <<txonBufferSize, accepted, sent>>
    PROVE  Service!Deliver
<1> DEFINE upTo == Len(delivered')
<1>1. /\ delivered \in Seq([id : Nat, len : Nat])
      /\ delivered' \in Seq([id : Nat, len : Nat])
  BY DEF DeliveryInv, Inv, RxInv, RxTypeOK
<1>2. /\ Len(delivered) \in Nat /\ upTo \in Nat
      /\ DOMAIN delivered = 1 .. Len(delivered) /\ DOMAIN delivered' = 1 .. upTo
      /\ delivered' = [i \in 1 .. upTo |-> delivered'[i]]
  BY <1>1, LenProperties
<1>3. /\ \A i \in 1 .. Len(delivered) : delivered[i] = [id |-> i, len |-> sent[i]]
      /\ \A i \in 1 .. upTo : delivered'[i] = [id |-> i, len |-> sent'[i]]
      /\ upTo <= Len(sent')
  BY <1>2 DEF DeliveryInv, InOrderExactlyOnce
<1>4. Len(sent) \in Nat BY PositionTypes DEF DeliveryInv
<1>5. upTo \in Len(delivered) + 1 .. Len(sent)
  BY <1>2, <1>3, <1>4
<1>6. ASSUME NEW i \in 1 .. upTo
      PROVE  delivered'[i] = IF i <= Len(delivered) THEN delivered[i]
                                                    ELSE [id |-> i, len |-> sent[i]]
  BY <1>2, <1>3
<1>7. delivered' = [i \in 1 .. upTo |->
                       IF i <= Len(delivered) THEN delivered[i]
                                              ELSE [id |-> i, len |-> sent[i]]]
  BY <1>2, <1>6
<1> HIDE DEF upTo
<1>8. QED BY <1>5, <1>7 DEF Service!Deliver

\* A PDU placed in the reception buffer takes nothing from the deliveries.
LEMMA PlacePduAppends ==
    ASSUME DeliveryInv, DeliveryInv', NEW pdu \in WireSet, PlacePdu(pdu)
    PROVE  \/ delivered' = delivered
           \/ Len(delivered) < Len(delivered')
<1> DEFINE buffer   == BufferWith(pdu)
           payloads == Payloads(buffer, vrR, vrR')
<1>1. delivered' = delivered \o payloads /\ vrR' \in SN /\ vrR \in SN
  BY PositionTypes DEF PlacePdu, BufferWith, DeliveryInv
<1>2. buffer \in [SN -> RxEntry]
  BY PlacePduWalks DEF DeliveryInv, Inv
<1>3. payloads \in Seq([id : Nat, len : Nat])
  BY <1>1, <1>2, PayloadsType
<1>4. delivered \in Seq([id : Nat, len : Nat])
  BY DEF DeliveryInv, Inv, RxInv, RxTypeOK
<1> HIDE DEF payloads
<1>5. /\ Len(delivered') = Len(delivered) + Len(payloads)
      /\ Len(delivered) \in Nat /\ Len(payloads) \in Nat
  BY <1>1, <1>3, <1>4, ConcatProperties, LenProperties
<1>6. CASE Len(payloads) = 0
  <2>1. payloads = <<>> BY <1>3, <1>6, EmptySeq
  <2>2. QED BY <1>1, <1>4, <2>1, ConcatEmptySeq
<1>7. QED BY <1>5, <1>6

\* A step of the bearer is one of the service, or the service does not see it.
LEMMA NextServes ==
    ASSUME DeliveryInv, DeliveryInv', [Next]_vars
    PROVE  [Service!Next]_(Service!vars)
<1> USE DEF Service!Next, Service!vars
<1>1. CASE \E size \in SduSizes : DoTransmitPdcpPdu(size)
  <2>1. PICK size \in SduSizes : DoTransmitPdcpPdu(size) BY <1>1
  <2>2. /\ txonBufferSize + size <= MaxTxBufferSize
        /\ txonBufferSize' = txonBufferSize + size
        /\ accepted' = accepted + size
        /\ UNCHANGED <<sent, delivered>>
    BY <2>1 DEF DoTransmitPdcpPdu, TransmitPdcpPdu, rxVars
  <2>3. Service!Accept BY <2>2 DEF Service!Accept
  <2>4. QED BY <2>3
<1>2. CASE \E bytes \in OppSizes : DoNotifyTxOpportunity(bytes)
  <2>1. PICK bytes \in OppSizes : DoNotifyTxOpportunity(bytes) BY <1>2
  <2>2. CASE \E len \in NewLens(bytes) : NotifyTransmitNew(bytes, len)
    <3>1. PICK len \in NewLens(bytes) : NotifyTransmitNew(bytes, len) BY <2>2
    <3>2. /\ len \in 1 .. txonBufferSize
          /\ sent' = Append(sent, len)
          /\ txonBufferSize' = txonBufferSize - len
          /\ UNCHANGED <<accepted, delivered>>
      BY <3>1 DEF NotifyTransmitNew, TransmitNew, NewLens, rxVars
    <3>3. Service!Pack BY <3>2 DEF Service!Pack
    <3>4. QED BY <3>3
  <2>3. CASE \E sn \in SN : \/ NotifyRetransmitRest(sn, bytes)
                            \/ NotifyRetransmitSegment(sn, bytes)
                            \/ NotifyRetransmitNothing(sn, bytes)
    <3>1. UNCHANGED <<txonBufferSize, accepted, sent, delivered>>
      BY <2>3 DEF NotifyRetransmitRest, NotifyRetransmitSegment, NotifyRetransmitNothing,
                  RetransmitRest, RetransmitSegment, RetransmitNothing, historyVars, rxVars
    <3>2. QED BY <3>1
  <2>4. QED BY <2>1, <2>2, <2>3 DEF DoNotifyTxOpportunity
<1>3. CASE \E sn \in SN : DoReceiveData(sn)
  <2>1. PICK pdu \in data : ReceiveData(pdu) /\ UNCHANGED txVars
    BY <1>3 DEF DoReceiveData
  <2>2. UNCHANGED <<txonBufferSize, accepted, sent>> BY <2>1 DEF txVars
  <2>3. CASE DiscardPdu(pdu)
    BY <2>2, <2>3 DEF DiscardPdu
  <2>4. CASE PlacePdu(pdu)
    <3>1. pdu \in WireSet BY DEF DeliveryInv, Inv
    <3>2. delivered' = delivered \/ Len(delivered) < Len(delivered')
      BY <2>4, <3>1, PlacePduAppends
    <3>3. QED BY <2>2, <3>2, LongerIsDeliver
  <2>5. QED BY <2>1, <2>3, <2>4 DEF ReceiveData
<1>4. CASE \/ NotifyTransmitStatus \/ DoReceiveStatus \/ LoseData \/ LoseStatus
           \/ PollRetransmitTimeout \/ ReorderingTimeout \/ StatusProhibitTimeout
           \/ UNCHANGED vars
  <2>1. UNCHANGED <<txonBufferSize, accepted, sent, delivered>>
    BY <1>4 DEF NotifyTransmitStatus, TransmitStatus, DoReceiveStatus, ReceiveStatus,
                LoseData, LoseStatus, PollRetransmitTimeout, ExpirePollRetransmitTimer,
                ReorderingTimeout, ExpireReorderingTimer, StatusProhibitTimeout,
                ExpireStatusProhibitTimer, historyVars, txVars, rxVars, vars
  <2>2. QED BY <2>1
<1>5. QED BY <1>1, <1>2, <1>3, <1>4 DEF Next

\* Whatever PDCP sees of the bearer, the reliable and ordered channel could have
\* shown it: the safety half of ImplementsService.
THEOREM ImplementsServiceSafely ==
    ASSUME StatusCap = 1
    PROVE  Spec => Service!Init /\ [][Service!Next]_(Service!vars)
<1>1. Init => Service!Init BY DEF Init, TxInit, RxInit, Service!Init
<1>2. DeliveryInv /\ DeliveryInv' /\ [Next]_vars => [Service!Next]_(Service!vars)
  BY NextServes
<1>3. Spec => []DeliveryInv BY DeliveryInvariance
<1>4. QED BY <1>1, <1>2, <1>3, PTL DEF Spec

=============================================================================
