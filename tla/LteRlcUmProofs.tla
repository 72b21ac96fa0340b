--------------------------- MODULE LteRlcUmProofs ---------------------------
(***************************************************************************)
(* Proofs about RLC UM, for every modulus, window above one SN, size of    *)
(* the SDUs and the opportunities, loss and order of arrival, as long as   *)
(* the receiver gives up gaps before the sender is a window ahead          *)
(* (ReorderingIsPrompt): the reordering window stays sound, no PDU waits   *)
(* in it without a timer, what is handed over are whole SDUs in their      *)
(* order, and what is not handed over was lost or came too late.           *)
(*                                                                         *)
(* DoReceivePdu compares SNs above VR(UH) - UM_Window_Size, a base that    *)
(* moves in the middle of the handler.  The proof measures every SN from   *)
(* the other side, below the SN of the next PDU to be built, which no step *)
(* of the receiver moves.                                                  *)
(***************************************************************************)
EXTENDS LteRlcUm, LteRlcFramingProofs

\* How far sn lies below the next SN the sender will use.
Below(sn) == Rel(sequenceNumber, sn)

\* Types of what the window depends on.
UmTypes ==
    /\ sequenceNumber \in SN /\ built \in Nat
    /\ vrUr \in SN /\ vrUx \in SN /\ vrUh \in SN
    /\ reorderingTimer \in BOOLEAN
    /\ \A pdu \in data : pdu.sn \in SN /\ pdu.n \in 1 .. built
    /\ \A pdu \in rxBuffer : pdu.sn \in SN

\* A PDU in flight carries the SN of its number, and is at most a window old.
FlightOK ==
    \A pdu \in data : /\ Below(pdu.sn) = (built + 1) - pdu.n
                      /\ Below(pdu.sn) <= WindowSize

\* VR(UR) <= VR(UH) <= the next SN, at most a window below it.
PositionsOK == Below(vrUh) <= Below(vrUr) /\ Below(vrUr) <= WindowSize

\* What waits lies in VR(UR) .. VR(UH), and a PDU waits only for one that is below
\* VR(UX), for which t-Reordering runs.
WaitingOK ==
    /\ \A pdu \in rxBuffer : /\ Below(vrUh) < Below(pdu.sn)
                             /\ Below(pdu.sn) <= Below(vrUr)
    /\ reorderingTimer => /\ Below(vrUh) <= Below(vrUx)
                          /\ Below(vrUx) < Below(vrUr)
    /\ NothingWaitsUntimed

\* VR(UH) and VR(UX) follow an SN that was received, and waits as long as VR(UR) is
\* below.
HighestOK ==
    /\ Below(vrUh) < Below(vrUr) => \E pdu \in rxBuffer : Below(pdu.sn) = Below(vrUh) + 1
    /\ reorderingTimer => \E pdu \in rxBuffer : Below(pdu.sn) = Below(vrUx) + 1

\* The inductive invariant of the window.
UmInv == UmTypes /\ FlightOK /\ PositionsOK /\ WaitingOK /\ HighestOK

\* Types of the positions.
LEMMA BelowType ==
    ASSUME UmTypes
    PROVE  /\ \A sn \in SN : Below(sn) \in Nat /\ Below(sn) < Modulus
           /\ Modulus \in Nat /\ WindowSize \in Nat \ {0} /\ 2 * WindowSize <= Modulus
           /\ WindowSize \in SN
<1>1. /\ Modulus \in Nat /\ WindowSize \in Nat \ {0} /\ 2 * WindowSize <= Modulus
  BY SequenceNumberAssumption
<1>2. WindowSize \in SN BY <1>1 DEF SN
<1>3. sequenceNumber \in SN BY DEF UmTypes
<1>4. QED BY <1>1, <1>2, <1>3, RelType DEF Below

\* The place of v above the base of the window whose upper edge is uh, from the
\* distances of both below t.
LEMMA AboveBase ==
    ASSUME NEW t \in SN, NEW uh \in SN, NEW v \in SN,
           Rel(t, uh) <= WindowSize, Rel(t, v) <= Rel(t, uh) + WindowSize,
           WindowSize + Rel(t, uh) - Rel(t, v) < Modulus
    PROVE  /\ Base(uh) \in SN
           /\ Rel(v, Base(uh)) = WindowSize + Rel(t, uh) - Rel(t, v)
BY SequenceNumberAssumption DEF SN, Rel, Base

\* The same for the SNs that occur in DoReceivePdu.
LEMMA AboveBaseBelow ==
    ASSUME UmTypes, NEW uh \in SN, NEW v \in SN,
           Below(uh) <= WindowSize, Below(v) <= WindowSize,
           Below(uh) < WindowSize \/ 1 <= Below(v)
    PROVE  Rel(v, Base(uh)) = WindowSize + Below(uh) - Below(v)
<1>1. /\ Below(uh) \in Nat /\ Below(v) \in Nat /\ Modulus \in Nat
      /\ WindowSize \in Nat \ {0} /\ 2 * WindowSize <= Modulus
  BY BelowType
<1>2. Below(v) <= Below(uh) + WindowSize /\ WindowSize + Below(uh) - Below(v) < Modulus
  BY <1>1
<1>3. sequenceNumber \in SN BY DEF UmTypes
<1>4. QED BY <1>2, <1>3, AboveBase DEF Below

\* The SN after v is one nearer.
LEMMA BelowInc ==
    ASSUME UmTypes, NEW v \in SN, 1 <= Below(v)
    PROVE  Inc(v) \in SN /\ Below(Inc(v)) = Below(v) - 1
<1>1. \A t, u \in SN : 1 <= Rel(t, u) => Rel(t, Inc(u)) = Rel(t, u) - 1
  BY SequenceNumberAssumption DEF SN, Rel, Inc
<1>2. QED BY <1>1, IncDecType DEF UmTypes, Below

\* At first nothing was sent and nothing waits.
LEMMA UmInitInv == Init => UmInv
<1> SUFFICES ASSUME Init PROVE UmInv
  OBVIOUS
<1>1. 0 \in SN /\ WindowSize \in Nat BY SequenceNumberAssumption DEF SN
<1>2. Rel(0, 0) = 0 BY DEF Rel
<1>3. UmTypes BY <1>1 DEF Init, UmTypes
<1>4. HighestOK BY <1>2 DEF Init, HighestOK, Below
<1>5. QED
  BY <1>1, <1>2, <1>3, <1>4 DEF Init, UmInv, FlightOK, PositionsOK, WaitingOK, Below,
     NothingWaitsUntimed

\* A new PDU is the only one that is not one SN further below the next SN.
LEMMA TransmitBelow ==
    ASSUME ReorderingIsPrompt, UmInv, NEW bytes \in OppSizes, DoNotifyTxOpportunity(bytes)
    PROVE  /\ Below(vrUr) < WindowSize /\ \A p \in data : Below(p.sn) < WindowSize
           /\ \A v \in SN : Below(v) < WindowSize => Rel(sequenceNumber', v) = Below(v) + 1
           /\ Rel(sequenceNumber', sequenceNumber) = 1
<1>1. Below(vrUr) < WindowSize
  BY DEF DoNotifyTxOpportunity, Timely, Below
<1>2. ASSUME NEW p \in data PROVE Below(p.sn) < WindowSize
  <2>1. Young(p) BY DEF DoNotifyTxOpportunity
  <2>2. (built + 1) - p.n < WindowSize BY <2>1 DEF Young
  <2>3. QED BY <2>2 DEF UmInv, FlightOK
<1>3. sequenceNumber' = Inc(sequenceNumber) /\ sequenceNumber \in SN
  BY DEF DoNotifyTxOpportunity, UmInv, UmTypes
<1>4. \A v \in SN : Below(v) < WindowSize => Rel(sequenceNumber', v) = Below(v) + 1
  <2>1. \A t, v \in SN : Rel(t, v) < WindowSize => Rel(Inc(t), v) = Rel(t, v) + 1
    BY SequenceNumberAssumption DEF SN, Rel, Inc
  <2>2. QED BY <1>3, <2>1 DEF Below
<1>5. Rel(sequenceNumber', sequenceNumber) = 1
  <2>1. \A v \in SN : Rel(Inc(v), v) = 1
    BY SequenceNumberAssumption DEF SN, Rel, Inc
  <2>2. QED BY <1>3, <2>1
<1>6. QED
  BY <1>1, <1>2, <1>4, <1>5

\* A new PDU takes the next SN; everything else is one SN further below.
LEMMA TransmitUm ==
    ASSUME ReorderingIsPrompt, UmInv, NEW bytes \in OppSizes, DoNotifyTxOpportunity(bytes)
    PROVE  UmInv'
<1>1. UmTypes BY DEF UmInv
<1>2. PICK pdu : /\ pdu.n = built + 1 /\ pdu.sn = sequenceNumber
                 /\ data' = data \cup {pdu}
  <2> DEFINE pdu == [n |-> built + 1, sn |-> sequenceNumber,
                     field |-> DataField(txBuffer, bytes - FixedHeader)]
  <2>1. pdu.n = built + 1 /\ pdu.sn = sequenceNumber OBVIOUS
  <2>2. QED BY <2>1 DEF DoNotifyTxOpportunity
<1>3. /\ sequenceNumber' = Inc(sequenceNumber) /\ built' = built + 1
      /\ vrUr' = vrUr /\ vrUx' = vrUx /\ vrUh' = vrUh
      /\ rxBuffer' = rxBuffer /\ reorderingTimer' = reorderingTimer
  BY DEF DoNotifyTxOpportunity, rxVars
<1>4. Below(vrUr) < WindowSize
  BY TransmitBelow
<1>5. \A p \in data : Below(p.sn) < WindowSize
  BY TransmitBelow
<1>6. /\ sequenceNumber \in SN /\ built \in Nat
      /\ vrUr \in SN /\ vrUx \in SN /\ vrUh \in SN
      /\ \A p \in data : p.sn \in SN /\ p.n \in 1 .. built
      /\ \A p \in rxBuffer : p.sn \in SN
  BY <1>1 DEF UmTypes
<1>7. \A v \in SN : Below(v) < WindowSize => Rel(sequenceNumber', v) = Below(v) + 1
  BY TransmitBelow
<1>8. Rel(sequenceNumber', sequenceNumber) = 1
  BY TransmitBelow
<1>9. \A v \in SN : Below(v) \in Nat
  BY <1>1, BelowType
<1>10. WindowSize \in Nat \ {0}
  BY <1>1, BelowType
<1>11. UmTypes'
  <2>1. Inc(sequenceNumber) \in SN BY <1>6, IncDecType
  <2>2. \A p \in data' : p.sn \in SN /\ p.n \in 1 .. built'
    BY <1>2, <1>3, <1>6
  <2>3. QED BY <1>1, <1>3, <2>1, <2>2 DEF UmTypes
<1>12. FlightOK'
  <2>1. SUFFICES ASSUME NEW p \in data'
                 PROVE  /\ Rel(sequenceNumber', p.sn) = (built' + 1) - p.n
                        /\ Rel(sequenceNumber', p.sn) <= WindowSize
    BY DEF FlightOK, Below
  <2>2. CASE p = pdu
    BY <1>2, <1>3, <1>6, <1>8, <1>10, <2>2
  <2>3. CASE p \in data
    <3>1. /\ Below(p.sn) = (built + 1) - p.n /\ Below(p.sn) < WindowSize
          /\ p.sn \in SN /\ p.n \in 1 .. built
      BY <1>5, <1>6, <2>3 DEF UmInv, FlightOK
    <3>2. Rel(sequenceNumber', p.sn) = Below(p.sn) + 1
      BY <1>7, <3>1
    <3>3. QED BY <1>3, <1>6, <1>9, <1>10, <3>1, <3>2
  <2>4. QED BY <1>2, <2>2, <2>3
<1>13. PositionsOK'
  <2>1. Below(vrUh) <= Below(vrUr) BY DEF UmInv, PositionsOK
  <2>2. Below(vrUh) < WindowSize BY <1>4, <1>6, <1>9, <1>10, <2>1
  <2>3. /\ Rel(sequenceNumber', vrUr) = Below(vrUr) + 1
        /\ Rel(sequenceNumber', vrUh) = Below(vrUh) + 1
    BY <1>4, <1>6, <1>7, <2>2
  <2>4. QED BY <1>3, <1>4, <1>6, <1>9, <1>10, <2>1, <2>3 DEF PositionsOK, Below
<1>14. WaitingOK'
  <2>1. /\ Below(vrUh) <= Below(vrUr) /\ NothingWaitsUntimed
        /\ \A p \in rxBuffer : Below(vrUh) < Below(p.sn) /\ Below(p.sn) <= Below(vrUr)
        /\ reorderingTimer => Below(vrUh) <= Below(vrUx) /\ Below(vrUx) < Below(vrUr)
    BY DEF UmInv, PositionsOK, WaitingOK
  <2>2. \A v \in SN : Below(v) <= Below(vrUr) => Rel(sequenceNumber', v) = Below(v) + 1
    BY <1>4, <1>6, <1>7, <1>9, <1>10
  <2>3. ASSUME NEW p \in rxBuffer'
        PROVE  /\ Rel(sequenceNumber', vrUh') < Rel(sequenceNumber', p.sn)
               /\ Rel(sequenceNumber', p.sn) <= Rel(sequenceNumber', vrUr')
    <3>1. p \in rxBuffer BY <1>3
    <3>2. p.sn \in SN BY <1>6, <3>1
    <3>3. QED BY <1>3, <1>6, <1>9, <2>1, <2>2, <3>1, <3>2
  <2>4. ASSUME reorderingTimer'
        PROVE  /\ Rel(sequenceNumber', vrUh') <= Rel(sequenceNumber', vrUx')
               /\ Rel(sequenceNumber', vrUx') < Rel(sequenceNumber', vrUr')
    BY <1>3, <1>6, <1>9, <2>1, <2>2, <2>4
  <2>5. NothingWaitsUntimed' BY <1>3, <2>1 DEF NothingWaitsUntimed
  <2>6. QED BY <2>3, <2>4, <2>5 DEF WaitingOK, Below
<1>15. HighestOK'
  <2>1. Below(vrUh) < WindowSize /\ (reorderingTimer => Below(vrUx) < WindowSize)
    BY <1>4, <1>6, <1>9, <1>10 DEF UmInv, PositionsOK, WaitingOK
  <2>2. /\ Rel(sequenceNumber', vrUr) = Below(vrUr) + 1
        /\ Rel(sequenceNumber', vrUh) = Below(vrUh) + 1
        /\ reorderingTimer => Rel(sequenceNumber', vrUx) = Below(vrUx) + 1
    BY <1>4, <1>6, <1>7, <2>1
  <2>3. ASSUME NEW p \in rxBuffer
        PROVE  Rel(sequenceNumber', p.sn) = Below(p.sn) + 1 /\ Below(p.sn) \in Nat
    <3>1. p.sn \in SN /\ Below(p.sn) <= Below(vrUr)
      BY <1>6 DEF UmInv, WaitingOK
    <3>2. Below(p.sn) < WindowSize /\ Below(p.sn) \in Nat
      BY <1>4, <1>6, <1>9, <1>10, <3>1
    <3>3. QED BY <1>7, <3>1, <3>2
  <2>4. Rel(sequenceNumber', vrUh) < Rel(sequenceNumber', vrUr)
          => \E p \in rxBuffer : Rel(sequenceNumber', p.sn) = Rel(sequenceNumber', vrUh) + 1
    BY <1>6, <1>9, <2>2, <2>3 DEF UmInv, HighestOK
  <2>5. reorderingTimer
          => \E p \in rxBuffer : Rel(sequenceNumber', p.sn) = Rel(sequenceNumber', vrUx) + 1
    BY <1>6, <1>9, <2>2, <2>3 DEF UmInv, HighestOK
  <2>6. QED BY <1>3, <2>4, <2>5 DEF HighestOK, Below
<1>16. QED BY <1>11, <1>12, <1>13, <1>14, <1>15 DEF UmInv

\* k SNs above v, not beyond the next SN to be used.
LEMMA BelowPlus ==
    ASSUME UmTypes, NEW v \in SN, NEW k \in Nat, k <= Below(v)
    PROVE  Plus(v, k) \in SN /\ Below(Plus(v, k)) = Below(v) - k
<1>1. sequenceNumber \in SN BY DEF UmTypes
<1>2. k < Modulus BY BelowType
<1>3. QED BY <1>1, <1>2, RelPlus, RelMoveBase DEF Below

\* What waits and is passed by when VR(UR) becomes ur.
Passed(buffer, ur) == {p \in buffer : Below(ur) < Below(p.sn)}

\* The window has moved to VR(UR) = ur and VR(UH) = uh; of the PDUs of the buffer
\* those passed by are gone.  Where VR(UR), VR(UH) and VR(UX) are now, they follow a
\* PDU that was received.
Moved(buffer, uh, ur) ==
    /\ uh \in SN /\ ur \in SN /\ vrUh' = uh /\ vrUr' = ur
    /\ Below(uh) <= Below(ur) /\ Below(ur) <= Below(vrUr) /\ Below(uh) <= Below(vrUh)
    /\ \A p \in buffer : /\ p.sn \in SN
                         /\ Below(uh) < Below(p.sn) /\ Below(p.sn) <= Below(vrUr)
    /\ rxBuffer' = buffer \ Passed(buffer, ur)
    /\ ur = vrUr \/ \E p \in buffer : Below(p.sn) = Below(ur) + 1
    /\ vrUx' \in SN /\ reorderingTimer' \in BOOLEAN
    /\ Below(uh) < Below(ur) => \E p \in buffer : Below(p.sn) = Below(uh) + 1
    /\ reorderingTimer' => /\ Below(uh) <= Below(vrUx') /\ Below(vrUx') < Below(ur)
                           /\ \E p \in buffer : Below(p.sn) = Below(vrUx') + 1
    /\ ~reorderingTimer' => ~(Below(uh) < Below(ur))

\* ReassembleSnInterval takes the PDUs from VR(UR) to below ur out of the buffer.
LEMMA IntervalPassed ==
    ASSUME UmTypes, NEW uh \in SN, NEW low \in SN, NEW ur \in SN, NEW buffer,
           Below(uh) <= WindowSize, Below(low) <= WindowSize, Below(ur) <= WindowSize,
           Below(uh) < WindowSize \/ 1 <= Below(ur),
           Below(uh) < WindowSize \/ 1 <= Below(low),
           \A p \in buffer : p.sn \in SN /\ 1 <= Below(p.sn) /\ Below(p.sn) <= Below(low)
    PROVE  SnInterval(buffer, low, ur, Base(uh)) = Passed(buffer, ur)
<1>1. /\ Below(uh) \in Nat /\ Below(low) \in Nat /\ Below(ur) \in Nat /\ WindowSize \in Nat
  BY BelowType
<1>2. /\ Rel(low, Base(uh)) = WindowSize + Below(uh) - Below(low)
      /\ Rel(ur, Base(uh)) = WindowSize + Below(uh) - Below(ur)
  BY AboveBaseBelow
<1>3. ASSUME NEW p \in buffer
      PROVE  /\ Rel(low, Base(uh)) <= Rel(p.sn, Base(uh))
             /\ Rel(p.sn, Base(uh)) < Rel(ur, Base(uh)) <=> Below(ur) < Below(p.sn)
  <2>1. p.sn \in SN /\ 1 <= Below(p.sn) /\ Below(p.sn) <= Below(low)
    OBVIOUS
  <2>2. Below(p.sn) \in Nat
    BY <2>1, BelowType
  <2>3. Below(p.sn) <= WindowSize
    BY <1>1, <2>1, <2>2
  <2>4. Rel(p.sn, Base(uh)) = WindowSize + Below(uh) - Below(p.sn)
    BY <2>1, <2>3, AboveBaseBelow
  <2>5. QED
    BY <1>1, <1>2, <2>1, <2>2, <2>4
<1>4. QED
  BY <1>3 DEF SnInterval, Passed

\* The invariant holds after the window has moved.
LEMMA MovedUm ==
    ASSUME UmInv, NEW buffer, NEW uh, NEW ur, Moved(buffer, uh, ur),
           data' \subseteq data, UNCHANGED txVars
    PROVE  UmInv'
<1>1. /\ UmTypes /\ PositionsOK /\ FlightOK
  BY DEF UmInv
<1>2. /\ uh \in SN /\ ur \in SN /\ vrUh' = uh /\ vrUr' = ur
      /\ Below(uh) <= Below(ur) /\ Below(ur) <= Below(vrUr)
      /\ \A p \in buffer : /\ p.sn \in SN
                           /\ Below(uh) < Below(p.sn) /\ Below(p.sn) <= Below(vrUr)
      /\ rxBuffer' = buffer \ Passed(buffer, ur)
      /\ vrUx' \in SN /\ reorderingTimer' \in BOOLEAN
      /\ reorderingTimer' => Below(uh) <= Below(vrUx') /\ Below(vrUx') < Below(ur)
      /\ ~reorderingTimer' => ~(Below(uh) < Below(ur))
  BY DEF Moved
<1>3. /\ sequenceNumber' = sequenceNumber /\ built' = built
  BY DEF txVars
<1>4. /\ Below(vrUr) \in Nat /\ Below(ur) \in Nat /\ Below(uh) \in Nat
      /\ WindowSize \in Nat /\ Below(vrUr) <= WindowSize
  BY <1>1, <1>2, BelowType DEF PositionsOK, UmTypes
<1>5. \A p \in rxBuffer' : /\ p.sn \in SN /\ Below(uh) < Below(p.sn)
                           /\ Below(p.sn) <= Below(ur)
  <2>1. SUFFICES ASSUME NEW p \in rxBuffer'
                 PROVE  /\ p.sn \in SN /\ Below(uh) < Below(p.sn)
                        /\ Below(p.sn) <= Below(ur)
    OBVIOUS
  <2>2. p.sn \in SN /\ Below(uh) < Below(p.sn) /\ ~(Below(ur) < Below(p.sn))
    BY <1>2 DEF Passed
  <2>3. Below(p.sn) \in Nat
    BY <1>1, <2>2, BelowType
  <2>4. QED
    BY <1>4, <2>2, <2>3
<1>6. UmTypes'
  BY <1>1, <1>2, <1>3, <1>5 DEF UmTypes
<1>7. FlightOK'
  BY <1>1, <1>3 DEF FlightOK, Below
<1>8. PositionsOK'
  <2>1. Below(uh) <= Below(ur) /\ Below(ur) <= WindowSize
    BY <1>2, <1>4
  <2>2. QED
    BY <1>2, <1>3, <2>1 DEF PositionsOK, Below
<1>9. WaitingOK'
  <2>1. ASSUME ~reorderingTimer' PROVE rxBuffer' = {}
    <3>1. SUFFICES ASSUME NEW p \in rxBuffer' PROVE FALSE
      OBVIOUS
    <3>2. p.sn \in SN /\ Below(uh) < Below(p.sn) /\ Below(p.sn) <= Below(ur)
      BY <1>5
    <3>3. Below(p.sn) \in Nat /\ ~(Below(uh) < Below(ur))
      BY <1>1, <1>2, <2>1, <3>2, BelowType
    <3>4. QED
      BY <1>4, <3>2, <3>3
  <2>2. NothingWaitsUntimed'
    BY <2>1 DEF NothingWaitsUntimed
  <2>3. /\ \A p \in rxBuffer' : /\ Rel(sequenceNumber', vrUh') < Rel(sequenceNumber', p.sn)
                                /\ Rel(sequenceNumber', p.sn) <= Rel(sequenceNumber', vrUr')
        /\ reorderingTimer' => /\ Rel(sequenceNumber', vrUh') <= Rel(sequenceNumber', vrUx')
                               /\ Rel(sequenceNumber', vrUx') < Rel(sequenceNumber', vrUr')
    BY <1>2, <1>3, <1>5 DEF Below
  <2>4. QED
    BY <2>2, <2>3 DEF WaitingOK, Below
<1>10. HighestOK'
  <2>1. ASSUME NEW v \in SN, Below(v) < Below(ur),
               \E p \in buffer : Below(p.sn) = Below(v) + 1
        PROVE  \E p \in rxBuffer' : Below(p.sn) = Below(v) + 1
    <3>1. PICK p \in buffer : Below(p.sn) = Below(v) + 1
      BY <2>1
    <3>2. Below(v) \in Nat
      BY <1>1, BelowType
    <3>3. ~(Below(ur) < Below(p.sn))
      BY <1>4, <2>1, <3>1, <3>2
    <3>4. p \in rxBuffer'
      BY <1>2, <3>3 DEF Passed
    <3>5. QED
      BY <3>1, <3>4
  <2>2. Below(uh) < Below(ur) => \E p \in rxBuffer' : Below(p.sn) = Below(uh) + 1
    BY <1>2, <2>1 DEF Moved
  <2>3. reorderingTimer' => \E p \in rxBuffer' : Below(p.sn) = Below(vrUx') + 1
    BY <1>2, <2>1 DEF Moved
  <2>4. QED
    BY <1>2, <1>3, <2>2, <2>3 DEF HighestOK, Below
<1>11. QED
  BY <1>6, <1>7, <1>8, <1>9, <1>10 DEF UmInv

\* t-Reordering gives up a gap: VR(UR) goes to the first SN from VR(UX) on that
\* was not received, which is VR(UH) at the latest.
LEMMA ExpireMoves ==
    ASSUME UmInv, ExpireReorderingTimer
    PROVE  \E ur : /\ Moved(rxBuffer, vrUh, ur)
                   /\ reassembly' = FoldLeft(ReassembleAndDeliver, reassembly,
                                             InOrder(Passed(rxBuffer, ur), Base(vrUh)))
<1>1. /\ UmTypes /\ PositionsOK /\ FlightOK
      /\ \A pdu \in rxBuffer : /\ Below(vrUh) < Below(pdu.sn)
                               /\ Below(pdu.sn) <= Below(vrUr)
      /\ Below(vrUh) <= Below(vrUx) /\ Below(vrUx) < Below(vrUr)
      /\ \E pdu \in rxBuffer : Below(pdu.sn) = Below(vrUx) + 1
      /\ Below(vrUh) < Below(vrUr)
            => \E pdu \in rxBuffer : Below(pdu.sn) = Below(vrUh) + 1
  BY DEF UmInv, WaitingOK, HighestOK, ExpireReorderingTimer
<1>2. /\ vrUr \in SN /\ vrUx \in SN /\ vrUh \in SN /\ sequenceNumber \in SN
      /\ \A pdu \in rxBuffer : pdu.sn \in SN
  BY <1>1 DEF UmTypes
<1>3. /\ Below(vrUr) \in Nat /\ Below(vrUx) \in Nat /\ Below(vrUh) \in Nat
      /\ Below(vrUr) <= WindowSize /\ WindowSize \in Nat /\ Modulus \in Nat
      /\ Below(vrUx) < Modulus
  BY <1>1, <1>2, BelowType DEF PositionsOK
<1> DEFINE gap == Below(vrUx) - Below(vrUh)
<1>4. /\ gap \in Nat /\ gap <= Below(vrUx) /\ gap \in 0 .. Modulus
      /\ Below(vrUx) - gap = Below(vrUh)
  BY <1>1, <1>3
<1> HIDE DEF gap
<1>5. ~Received(rxBuffer, Plus(vrUx, gap))
  <2>1. Below(Plus(vrUx, gap)) = Below(vrUh) BY <1>1, <1>2, <1>4, BelowPlus
  <2>2. QED BY <1>1, <1>3, <2>1 DEF Received
<1>6. \E k \in 0 .. Modulus :
         /\ ~Received(rxBuffer, Plus(vrUx, k))
         /\ \A i \in 0 .. k - 1 : Received(rxBuffer, Plus(vrUx, i))
  <2> DEFINE free == {k \in 0 .. Modulus : ~Received(rxBuffer, Plus(vrUx, k))}
  <2>1. free \in SUBSET Nat /\ gap \in free BY <1>3, <1>4, <1>5
  <2>2. PICK k \in free : \A j \in free : k <= j BY <2>1, LeastNat
  <2>3. ASSUME NEW i \in 0 .. k - 1 PROVE Received(rxBuffer, Plus(vrUx, i))
    <3>1. i \in 0 .. Modulus /\ ~(k <= i) BY <1>3
    <3>2. i \notin free BY <2>2, <3>1
    <3>3. QED BY <3>1, <3>2
  <2>4. QED BY <2>2, <2>3
<1>7. PICK k \in 0 .. Modulus :
         /\ ~Received(rxBuffer, Plus(vrUx, k))
         /\ \A i \in 0 .. k - 1 : Received(rxBuffer, Plus(vrUx, i))
         /\ vrUr' = Plus(vrUx, k)
         /\ rxBuffer' = rxBuffer \ SnInterval(rxBuffer, vrUr, Plus(vrUx, k), Base(vrUh))
         /\ reorderingTimer' = (WindowSize > Rel(Plus(vrUx, k), Base(vrUh)))
         /\ vrUx' = IF WindowSize > Rel(Plus(vrUx, k), Base(vrUh)) THEN vrUh ELSE vrUx
         /\ reassembly' = FoldLeft(ReassembleAndDeliver, reassembly,
              InOrder(SnInterval(rxBuffer, vrUr, Plus(vrUx, k), Base(vrUh)), Base(vrUh)))
  <2> DEFINE k == CHOOSE k \in 0 .. Modulus :
                     /\ ~Received(rxBuffer, Plus(vrUx, k))
                     /\ \A i \in 0 .. k - 1 : Received(rxBuffer, Plus(vrUx, i))
  <2>1. /\ k \in 0 .. Modulus
        /\ ~Received(rxBuffer, Plus(vrUx, k))
        /\ \A i \in 0 .. k - 1 : Received(rxBuffer, Plus(vrUx, i))
    BY <1>6
  <2>2. /\ vrUr' = Plus(vrUx, k)
        /\ rxBuffer' = rxBuffer \ SnInterval(rxBuffer, vrUr, Plus(vrUx, k), Base(vrUh))
        /\ reorderingTimer' = (WindowSize > Rel(Plus(vrUx, k), Base(vrUh)))
        /\ vrUx' = IF WindowSize > Rel(Plus(vrUx, k), Base(vrUh)) THEN vrUh ELSE vrUx
        /\ reassembly' = FoldLeft(ReassembleAndDeliver, reassembly,
             InOrder(SnInterval(rxBuffer, vrUr, Plus(vrUx, k), Base(vrUh)), Base(vrUh)))
    BY DEF ExpireReorderingTimer
  <2> HIDE DEF k
  <2>3. QED BY <2>1, <2>2
<1>8. vrUh' = vrUh
  BY DEF ExpireReorderingTimer
<1>9. k <= gap
  BY <1>3, <1>4, <1>5, <1>7
<1>10. PICK ur \in SN : ur = Plus(vrUx, k) /\ Below(ur) = Below(vrUx) - k
  BY <1>1, <1>2, <1>3, <1>4, <1>7, <1>9, BelowPlus
<1>11. Below(ur) \in Nat /\ Below(vrUh) <= Below(ur) /\ Below(ur) < Below(vrUr)
  BY <1>1, <1>3, <1>4, <1>7, <1>9, <1>10 DEF gap
<1>12. WindowSize > Rel(ur, Base(vrUh)) <=> Below(vrUh) < Below(ur)
  <2>1. Rel(ur, Base(vrUh)) = WindowSize + Below(vrUh) - Below(ur)
    BY <1>1, <1>2, <1>3, <1>11, AboveBaseBelow
  <2>2. QED BY <1>3, <1>11, <2>1
<1>13. SnInterval(rxBuffer, vrUr, ur, Base(vrUh)) = Passed(rxBuffer, ur)
  <2>1. ASSUME NEW p \in rxBuffer
        PROVE  p.sn \in SN /\ 1 <= Below(p.sn) /\ Below(p.sn) <= Below(vrUr)
    <3>1. p.sn \in SN /\ Below(vrUh) < Below(p.sn) /\ Below(p.sn) <= Below(vrUr)
      BY <1>1, <1>2
    <3>2. Below(p.sn) \in Nat BY <1>1, <3>1, BelowType
    <3>3. QED BY <1>3, <3>1, <3>2
  <2>2. Below(vrUh) < WindowSize /\ Below(ur) <= WindowSize
    BY <1>1, <1>3, <1>11
  <2>3. Below(vrUh) <= WindowSize /\ Below(vrUr) <= WindowSize
    BY <1>3, <2>2
  <2>4. QED BY <1>1, <1>2, <2>1, <2>2, <2>3, IntervalPassed
<1>14. \E p \in rxBuffer : Below(p.sn) = Below(ur) + 1
  <2>1. CASE k = 0
    BY <1>1, <1>3, <1>10, <2>1
  <2>2. CASE k # 0
    <3>1. PICK i \in Nat : i = k - 1 /\ i \in 0 .. k - 1 /\ i <= Below(vrUx)
      <4>1. k - 1 \in Nat /\ k - 1 \in 0 .. k - 1 /\ k - 1 <= Below(vrUx)
        BY <1>3, <1>4, <1>7, <1>9, <2>2
      <4>2. QED BY <4>1
    <3>2. PICK p \in rxBuffer : p.sn = Plus(vrUx, i)
      BY <1>7, <3>1 DEF Received
    <3>3. Below(p.sn) = Below(vrUx) - i
      BY <1>1, <1>2, <3>1, <3>2, BelowPlus
    <3>4. Below(p.sn) = Below(ur) + 1
      BY <1>3, <1>7, <1>10, <3>1, <3>3
    <3>5. QED BY <3>4
  <2>3. QED BY <2>1, <2>2
<1>15. /\ vrUr' = ur /\ rxBuffer' = rxBuffer \ Passed(rxBuffer, ur)
       /\ reorderingTimer' = (Below(vrUh) < Below(ur))
       /\ vrUx' = IF Below(vrUh) < Below(ur) THEN vrUh ELSE vrUx
       /\ reassembly' = FoldLeft(ReassembleAndDeliver, reassembly,
                                 InOrder(Passed(rxBuffer, ur), Base(vrUh)))
  BY <1>7, <1>10, <1>12, <1>13
<1>16. Moved(rxBuffer, vrUh, ur)
  <2>1. reorderingTimer' \in BOOLEAN /\ vrUx' \in SN
    BY <1>2, <1>15
  <2>2. Below(ur) <= Below(vrUr) /\ Below(vrUh) <= Below(vrUh) /\ Below(vrUh) < Below(vrUr)
    BY <1>3, <1>11
  <2>3. reorderingTimer' => vrUx' = vrUh /\ Below(vrUh) < Below(ur)
    BY <1>15
  <2>4. QED
    BY <1>1, <1>2, <1>8, <1>11, <1>14, <1>15, <2>1, <2>2, <2>3 DEF Moved
<1>17. QED BY <1>15, <1>16

\* The new VR(UR) follows an SN that was received.
LEMMA NextMissingFollows ==
    ASSUME NEW buffer, \A p \in buffer : p.sn \in SN,
           NEW ur \in SN, Received(buffer, ur)
    PROVE  \E v \in SN : Received(buffer, v) /\ NextMissing(buffer, ur) = Inc(v)
<1>1. Modulus \in Nat \ {0} BY SequenceNumberAssumption
<1>2. ur \in Nat /\ ur + 1 \in 1 .. Modulus BY <1>1 DEF SN
<1> DEFINE IsNext(n) == /\ ~Received(buffer, n)
                        /\ \A m \in ur + 1 .. n - 1 : Received(buffer, m)
<1>3. \E n \in ur + 1 .. Modulus : IsNext(n)
  <2> DEFINE free == {n \in ur + 1 .. Modulus : ~Received(buffer, n)}
  <2>1. Modulus \in free
    <3>1. \A p \in buffer : p.sn # Modulus BY <1>1 DEF SN
    <3>2. ~Received(buffer, Modulus) BY <3>1 DEF Received
    <3>3. QED BY <1>1, <1>2, <3>2
  <2>2. free \in SUBSET Nat BY <1>2
  <2>3. PICK n \in free : \A m \in free : n <= m BY <2>1, <2>2, LeastNat
  <2>4. ASSUME NEW m \in ur + 1 .. n - 1 PROVE Received(buffer, m)
    <3>1. n \in ur + 1 .. Modulus BY <2>3
    <3>2. m \in ur + 1 .. Modulus /\ ~(n <= m) BY <1>1, <1>2, <3>1
    <3>3. m \notin free BY <2>3, <3>2
    <3>4. QED BY <3>2, <3>3
  <2>5. QED BY <2>3, <2>4
<1>4. PICK n \in ur + 1 .. Modulus : IsNext(n) /\ NextMissing(buffer, ur) = n % Modulus
  <2> DEFINE n == CHOOSE n \in ur + 1 .. Modulus : IsNext(n)
  <2>1. n \in ur + 1 .. Modulus /\ IsNext(n) BY <1>3
  <2>2. NextMissing(buffer, ur) = n % Modulus BY DEF NextMissing
  <2> HIDE DEF n
  <2>3. QED BY <2>1, <2>2
<1>5. n - 1 \in SN /\ n - 1 \in Nat /\ n \in Nat BY <1>1, <1>2 DEF SN
<1>6. Received(buffer, n - 1)
  <2>1. CASE n = ur + 1 BY <1>2, <2>1
  <2>2. CASE n # ur + 1
    <3>1. n - 1 \in ur + 1 .. n - 1 BY <1>2, <2>2
    <3>2. QED BY <1>4, <3>1
  <2>3. QED BY <2>1, <2>2
<1>7. n % Modulus = Inc(n - 1)
  <2>1. CASE n = Modulus BY <1>1, <2>1 DEF Inc
  <2>2. CASE n < Modulus
    <3>1. n % Modulus = n BY <1>1, <1>5, <2>2
    <3>2. QED BY <1>1, <1>5, <2>2, <3>1 DEF Inc
  <2>3. QED BY <1>1, <1>5, <2>1, <2>2
<1>8. QED BY <1>4, <1>5, <1>6, <1>7

\* A PDU placed in the buffer is inside the window, which it may move up: nothing
\* falls out of the window, and VR(UR) is never pulled up by it.
LEMMA PlaceMoves ==
    ASSUME WindowSize > 1, UmInv, NEW pdu \in data, PlacePdu(pdu)
    PROVE  LET placed == {p \in rxBuffer : p.sn # pdu.sn} \cup {pdu}
           IN  \E uh, ur :
                  /\ Moved(placed, uh, ur)
                  /\ reassembly' =
                       FoldLeft(ReassembleAndDeliver, reassembly,
                                ByValue({}) \o InOrder(Passed(placed, ur), Base(vrUh)))
<1>1. /\ UmTypes /\ PositionsOK /\ FlightOK
      /\ \A p \in rxBuffer : Below(vrUh) < Below(p.sn) /\ Below(p.sn) <= Below(vrUr)
      /\ reorderingTimer => Below(vrUh) <= Below(vrUx) /\ Below(vrUx) < Below(vrUr)
      /\ reorderingTimer => \E p \in rxBuffer : Below(p.sn) = Below(vrUx) + 1
      /\ Below(vrUh) < Below(vrUr) => \E p \in rxBuffer : Below(p.sn) = Below(vrUh) + 1
  BY DEF UmInv, WaitingOK, HighestOK
<1>2. /\ vrUr \in SN /\ vrUx \in SN /\ vrUh \in SN /\ sequenceNumber \in SN
      /\ \A p \in rxBuffer : p.sn \in SN
      /\ pdu.sn \in SN /\ pdu.n \in 1 .. built /\ built \in Nat
  BY <1>1 DEF UmTypes
<1>3. /\ Below(vrUr) \in Nat /\ Below(vrUx) \in Nat /\ Below(vrUh) \in Nat
      /\ Below(pdu.sn) \in Nat
      /\ Below(vrUh) <= Below(vrUr) /\ Below(vrUr) <= WindowSize
      /\ WindowSize \in Nat /\ WindowSize > 1
  BY <1>1, <1>2, BelowType DEF PositionsOK
<1>4. 1 <= Below(pdu.sn) /\ Below(pdu.sn) <= WindowSize
  <2>1. /\ Below(pdu.sn) = (built + 1) - pdu.n /\ Below(pdu.sn) <= WindowSize
    BY <1>1 DEF FlightOK
  <2>2. QED BY <1>2, <2>1
<1>5. Below(pdu.sn) <= Below(vrUr)
  <2>1. Rel(pdu.sn, Base(vrUh)) = WindowSize + Below(vrUh) - Below(pdu.sn)
    BY <1>1, <1>2, <1>3, <1>4, AboveBaseBelow
  <2>2. Rel(vrUr, Base(vrUh)) = WindowSize + Below(vrUh) - Below(vrUr)
    BY <1>1, <1>2, <1>3, AboveBaseBelow
  <2>3. ~(Rel(pdu.sn, Base(vrUh)) < Rel(vrUr, Base(vrUh)))
    BY DEF PlacePdu, IsDiscarded
  <2>4. QED BY <1>3, <2>1, <2>2, <2>3
<1> DEFINE placed == {p \in rxBuffer : p.sn # pdu.sn} \cup {pdu}
           moves  == ~IsInsideReorderingWindow(vrUh, pdu.sn)
<1>6. PICK uh \in SN : /\ uh = IF moves THEN Inc(pdu.sn) ELSE vrUh
                       /\ Below(uh) <= Below(vrUh) /\ Below(uh) < Below(pdu.sn)
                       /\ uh = vrUh \/ Below(pdu.sn) = Below(uh) + 1
  <2>1. Rel(pdu.sn, Base(vrUh)) = WindowSize + Below(vrUh) - Below(pdu.sn)
    BY <1>1, <1>2, <1>3, <1>4, AboveBaseBelow
  <2>2. moves <=> Below(pdu.sn) <= Below(vrUh)
    BY <1>3, <2>1 DEF IsInsideReorderingWindow
  <2>3. Inc(pdu.sn) \in SN /\ Below(Inc(pdu.sn)) = Below(pdu.sn) - 1
    BY <1>1, <1>2, <1>4, BelowInc
  <2> HIDE DEF moves
  <2>4. CASE moves
    <3>1. /\ Below(Inc(pdu.sn)) <= Below(vrUh) /\ Below(Inc(pdu.sn)) < Below(pdu.sn)
      BY <1>3, <2>2, <2>3, <2>4
    <3>2. Below(pdu.sn) = Below(Inc(pdu.sn)) + 1
      BY <1>3, <2>3
    <3>3. QED BY <2>3, <2>4, <3>1, <3>2
  <2>5. CASE ~moves BY <1>2, <1>3, <2>2, <2>5
  <2>6. QED BY <2>4, <2>5
<1>7. Below(uh) \in Nat /\ Below(uh) < WindowSize
  BY <1>1, <1>3, <1>4, <1>6, BelowType
<1>8. \A p \in placed : /\ p.sn \in SN
                        /\ Below(uh) < Below(p.sn) /\ Below(p.sn) <= Below(vrUr)
  <2>1. SUFFICES ASSUME NEW p \in rxBuffer
                 PROVE  /\ p.sn \in SN
                        /\ Below(uh) < Below(p.sn) /\ Below(p.sn) <= Below(vrUr)
    BY <1>2, <1>5, <1>6
  <2>2. Below(p.sn) \in Nat BY <1>1, <1>2, BelowType
  <2>3. QED BY <1>1, <1>2, <1>3, <1>6, <1>7, <2>2
<1>9. \A v \in SN : Below(v) <= WindowSize
                      => Rel(v, Base(uh)) = WindowSize + Below(uh) - Below(v)
  BY <1>1, <1>3, <1>7, AboveBaseBelow
<1>10. OutsideWindow(placed, uh) = {}
  <2>1. SUFFICES ASSUME NEW p \in OutsideWindow(placed, uh) PROVE FALSE
    OBVIOUS
  <2> HIDE DEF placed
  <2>2. p \in placed /\ (p.sn <= p.sn => ~IsInsideReorderingWindow(uh, p.sn))
    BY DEF OutsideWindow
  <2>3. p.sn \in SN /\ Below(uh) < Below(p.sn) /\ Below(p.sn) <= Below(vrUr)
    BY <1>8, <2>2
  <2>4. Below(p.sn) \in Nat /\ p.sn \in Nat /\ Modulus \in Nat
    BY <1>1, <2>3, BelowType DEF SN
  <2>5. Rel(p.sn, Base(uh)) = WindowSize + Below(uh) - Below(p.sn)
    BY <1>3, <1>9, <2>3, <2>4
  <2>6. IsInsideReorderingWindow(uh, p.sn)
    BY <1>3, <1>7, <2>3, <2>4, <2>5 DEF IsInsideReorderingWindow
  <2>7. QED BY <2>2, <2>4, <2>6
<1>11. IsInsideReorderingWindow(uh, vrUr)
  <2>1. Rel(vrUr, Base(uh)) = WindowSize + Below(uh) - Below(vrUr)
    BY <1>2, <1>3, <1>9
  <2>2. QED BY <1>3, <1>5, <1>6, <1>7, <2>1 DEF IsInsideReorderingWindow
<1>12. /\ vrUh' = uh
       /\ vrUr' = IF Received(placed, vrUr) THEN NextMissing(placed, vrUr) ELSE vrUr
       /\ rxBuffer' = placed \ SnInterval(placed, vrUr, vrUr', Base(vrUh))
       /\ UpdateReorderingTimer(vrUr', uh)
       /\ reassembly' = FoldLeft(ReassembleAndDeliver, reassembly,
            ByValue({}) \o InOrder(SnInterval(placed, vrUr, vrUr', Base(vrUh)), Base(vrUh)))
  BY <1>6, <1>10, <1>11 DEF PlacePdu
<1> HIDE DEF moves
<1>13. PICK ur \in SN : /\ vrUr' = ur
                        /\ Below(uh) <= Below(ur) /\ Below(ur) <= Below(vrUr)
                        /\ Below(vrUh) < WindowSize \/ 1 <= Below(ur)
                        /\ ur = vrUr \/ \E p \in placed : Below(p.sn) = Below(ur) + 1
  <2>1. CASE ~Received(placed, vrUr)
    BY <1>2, <1>3, <1>4, <1>5, <1>6, <1>7, <1>12, <2>1
  <2>2. CASE Received(placed, vrUr)
    <3>1. PICK v \in SN : Received(placed, v) /\ NextMissing(placed, vrUr) = Inc(v)
      <4> HIDE DEF placed
      <4>1. QED BY <1>2, <1>8, <2>2, NextMissingFollows
    <3>2. PICK p \in placed : p.sn = v BY <3>1 DEF Received
    <3>3. Below(uh) < Below(v) /\ Below(v) <= Below(vrUr) /\ Below(v) \in Nat
      BY <1>1, <1>8, <3>2, BelowType
    <3>4. Inc(v) \in SN /\ Below(Inc(v)) = Below(v) - 1
      BY <1>1, <1>7, <3>3, BelowInc
    <3>5. Below(uh) <= Below(Inc(v)) /\ Below(Inc(v)) <= Below(vrUr)
      BY <1>3, <1>7, <3>3, <3>4
    <3>6. ASSUME ~(Below(vrUh) < WindowSize) PROVE 1 <= Below(Inc(v))
      <4>1. Below(vrUh) = WindowSize /\ Below(vrUr) = WindowSize
        BY <1>3, <3>6
      <4>2. \A q \in rxBuffer : FALSE
        <5>1. SUFFICES ASSUME NEW q \in rxBuffer PROVE FALSE
          OBVIOUS
        <5>2. Below(q.sn) \in Nat BY <1>1, <1>2, BelowType
        <5>3. QED BY <1>1, <1>3, <4>1, <5>2
      <4>3. v = pdu.sn /\ vrUr = pdu.sn BY <2>2, <3>2, <4>2 DEF Received
      <4>4. QED BY <1>3, <3>4, <4>1, <4>3
    <3>7. Below(p.sn) = Below(Inc(v)) + 1
      BY <3>2, <3>3, <3>4
    <3>8. QED BY <1>12, <2>2, <3>1, <3>2, <3>4, <3>5, <3>6, <3>7
  <2>3. QED BY <2>1, <2>2
<1>14. Below(ur) \in Nat BY <1>1, BelowType
<1>15. SnInterval(placed, vrUr, ur, Base(vrUh)) = Passed(placed, ur)
  <2> HIDE DEF placed
  <2>1. ASSUME NEW p \in placed
        PROVE  p.sn \in SN /\ 1 <= Below(p.sn) /\ Below(p.sn) <= Below(vrUr)
    <3>1. p.sn \in SN /\ Below(uh) < Below(p.sn) /\ Below(p.sn) <= Below(vrUr)
      BY <1>8
    <3>2. Below(p.sn) \in Nat BY <1>1, <3>1, BelowType
    <3>3. QED BY <1>7, <3>1, <3>2
  <2>2. /\ Below(vrUh) <= WindowSize /\ Below(vrUr) <= WindowSize /\ Below(ur) <= WindowSize
        /\ Below(vrUh) < WindowSize \/ 1 <= Below(ur)
        /\ 1 <= Below(vrUr)
    BY <1>3, <1>4, <1>5, <1>13, <1>14
  <2>3. QED BY <1>1, <1>2, <2>1, <2>2, IntervalPassed
<1>16. Rel(ur, Base(uh)) = WindowSize + Below(uh) - Below(ur)
  BY <1>3, <1>9, <1>13, <1>14
<1>17. WindowSize > Rel(ur, Base(uh)) <=> Below(uh) < Below(ur)
  BY <1>3, <1>7, <1>14, <1>16
<1>18. /\ vrUx' \in SN /\ reorderingTimer' \in BOOLEAN
       /\ reorderingTimer' => Below(uh) <= Below(vrUx') /\ Below(vrUx') < Below(ur)
       /\ ~reorderingTimer' => ~(Below(uh) < Below(ur))
       /\ reorderingTimer' => vrUx' = uh \/ (reorderingTimer /\ vrUx' = vrUx)
  <2> DEFINE running == /\ reorderingTimer
                        /\ Rel(vrUx, Base(uh)) > Rel(ur, Base(uh))
                        /\ IsInsideReorderingWindow(uh, vrUx) \/ vrUx = uh
             starts  == ~running /\ WindowSize > Rel(ur, Base(uh))
  <2>1. /\ reorderingTimer' = (running \/ starts)
        /\ vrUx' = IF starts THEN uh ELSE vrUx
    BY <1>12, <1>13 DEF UpdateReorderingTimer
  <2>2. running => Below(uh) <= Below(vrUx) /\ Below(vrUx) < Below(ur)
    <3>1. SUFFICES ASSUME reorderingTimer, Rel(vrUx, Base(uh)) > Rel(ur, Base(uh))
                   PROVE  Below(uh) <= Below(vrUx) /\ Below(vrUx) < Below(ur)
      OBVIOUS
    <3>2. /\ Below(vrUh) <= Below(vrUx) /\ Below(vrUx) <= WindowSize
      BY <1>1, <1>3, <3>1
    <3>3. Rel(vrUx, Base(uh)) = WindowSize + Below(uh) - Below(vrUx)
      BY <1>2, <1>9, <3>2
    <3>4. QED BY <1>3, <1>6, <1>7, <1>14, <1>16, <3>1, <3>2, <3>3
  <2>3. starts <=> ~running /\ Below(uh) < Below(ur) BY <1>17
  <2> HIDE DEF running, starts
  <2>4. CASE starts
    <3>1. reorderingTimer' = TRUE /\ vrUx' = uh BY <2>1, <2>4
    <3>2. Below(uh) < Below(ur) BY <2>3, <2>4
    <3>3. QED BY <1>7, <3>1, <3>2
  <2>5. CASE ~starts
    <3>1. reorderingTimer' = running /\ vrUx' = vrUx /\ running \in BOOLEAN
      BY <2>1, <2>5 DEF running
    <3>2. ~running => ~(Below(uh) < Below(ur)) BY <2>3, <2>5
    <3>3. running => reorderingTimer BY DEF running
    <3>4. QED BY <1>2, <2>2, <3>1, <3>2, <3>3
  <2>6. QED BY <2>4, <2>5
<1>19. \A p \in rxBuffer : \E q \in placed : q.sn = p.sn
  OBVIOUS
<1>20. Below(uh) < Below(ur) => \E p \in placed : Below(p.sn) = Below(uh) + 1
  <2>1. CASE uh = vrUh
    <3>1. SUFFICES ASSUME Below(uh) < Below(ur)
                   PROVE  \E p \in placed : Below(p.sn) = Below(uh) + 1
      OBVIOUS
    <3>2. Below(vrUh) < Below(vrUr) BY <1>3, <1>7, <1>13, <1>14, <2>1, <3>1
    <3>3. PICK p \in rxBuffer : Below(p.sn) = Below(vrUh) + 1 BY <1>1, <3>2
    <3>4. PICK q \in placed : q.sn = p.sn BY <1>19
    <3>5. QED BY <2>1, <3>3, <3>4
  <2>2. CASE Below(pdu.sn) = Below(uh) + 1
    BY <2>2
  <2>3. QED BY <1>6, <2>1, <2>2
<1>21. reorderingTimer' => \E p \in placed : Below(p.sn) = Below(vrUx') + 1
  <2>1. SUFFICES ASSUME reorderingTimer'
                 PROVE  \E p \in placed : Below(p.sn) = Below(vrUx') + 1
    OBVIOUS
  <2>2. CASE vrUx' = uh
    <3>1. Below(uh) < Below(ur) BY <1>18, <2>1, <2>2
    <3>2. QED BY <1>20, <2>2, <3>1
  <2>3. CASE reorderingTimer /\ vrUx' = vrUx
    <3>1. PICK p \in rxBuffer : Below(p.sn) = Below(vrUx) + 1 BY <1>1, <2>3
    <3>2. PICK q \in placed : q.sn = p.sn BY <1>19
    <3>3. QED BY <2>3, <3>1, <3>2
  <2>4. QED BY <1>18, <2>1, <2>2, <2>3
<1> HIDE DEF placed
<1>22. Moved(placed, uh, ur)
  <2>1. rxBuffer' = placed \ Passed(placed, ur) /\ vrUr' = ur /\ vrUh' = uh
    BY <1>12, <1>13, <1>15
  <2>2. QED
    BY <1>6, <1>8, <1>13, <1>18, <1>20, <1>21, <2>1 DEF Moved
<1>23. reassembly' = FoldLeft(ReassembleAndDeliver, reassembly,
                              ByValue({}) \o InOrder(Passed(placed, ur), Base(vrUh)))
  BY <1>12, <1>13, <1>15
<1>24. QED BY <1>22, <1>23 DEF placed

\* A PDU lost or discarded leaves the window as it is.
LEMMA PduGoneUm ==
    ASSUME UmInv, data' \subseteq data, UNCHANGED rxVars, UNCHANGED txVars
    PROVE  UmInv'
<1>1. /\ sequenceNumber' = sequenceNumber /\ built' = built
      /\ vrUr' = vrUr /\ vrUx' = vrUx /\ vrUh' = vrUh
      /\ rxBuffer' = rxBuffer /\ reorderingTimer' = reorderingTimer
  BY DEF rxVars, txVars
<1>2. UmTypes' BY <1>1 DEF UmInv, UmTypes
<1>3. FlightOK' BY <1>1 DEF UmInv, FlightOK, Below
<1>4. PositionsOK' BY <1>1 DEF UmInv, PositionsOK, Below
<1>5. WaitingOK' BY <1>1 DEF UmInv, WaitingOK, NothingWaitsUntimed, Below
<1>6. HighestOK' BY <1>1 DEF UmInv, HighestOK, Below
<1>7. QED BY <1>2, <1>3, <1>4, <1>5, <1>6 DEF UmInv

\* The invariant is inductive.
LEMMA UmNext ==
    ASSUME ReorderingIsPrompt, WindowSize > 1, UmInv, [Next]_vars
    PROVE  UmInv'
<1>1. ASSUME NEW size \in SduSizes, DoTransmitPdcpPdu(size) PROVE UmInv'
  <2>1. /\ sequenceNumber' = sequenceNumber /\ built' = built /\ data' = data
        /\ vrUr' = vrUr /\ vrUx' = vrUx /\ vrUh' = vrUh
        /\ rxBuffer' = rxBuffer /\ reorderingTimer' = reorderingTimer
    BY <1>1 DEF DoTransmitPdcpPdu, rxVars
  <2>2. QED
    BY <2>1 DEF UmInv, UmTypes, FlightOK, PositionsOK, WaitingOK, HighestOK, NothingWaitsUntimed,
       Below
<1>2. ASSUME NEW bytes \in OppSizes, DoNotifyTxOpportunity(bytes) PROVE UmInv'
  BY <1>2, TransmitUm
<1>3. CASE LosePdu
  BY <1>3, PduGoneUm DEF LosePdu
<1>4. CASE DoReceivePdu
  <2>1. PICK pdu \in data : /\ data' = data \ {pdu}
                            /\ DiscardPdu(pdu) \/ PlacePdu(pdu)
                            /\ UNCHANGED txVars
    BY <1>4 DEF DoReceivePdu
  <2>2. CASE DiscardPdu(pdu)
    <3>1. UNCHANGED rxVars BY <2>2 DEF DiscardPdu
    <3>2. QED BY <2>1, <3>1, PduGoneUm
  <2>3. CASE PlacePdu(pdu)
    <3>1. data' \subseteq data BY <2>1
    <3>2. QED BY <2>1, <2>3, <3>1, PlaceMoves, MovedUm
  <2>4. QED BY <2>1, <2>2, <2>3
<1>5. CASE ExpireReorderingTimer
  <2>1. data' \subseteq data /\ UNCHANGED txVars BY <1>5 DEF ExpireReorderingTimer
  <2>2. QED BY <1>5, <2>1, ExpireMoves, MovedUm
<1>6. CASE UNCHANGED vars
  <2>1. data' = data /\ UNCHANGED rxVars /\ UNCHANGED txVars BY <1>6 DEF vars
  <2>2. QED BY <2>1, PduGoneUm
<1>7. QED BY <1>1, <1>2, <1>3, <1>4, <1>5, <1>6 DEF Next

\* What the window property says, from the distances below the next SN.
LEMMA UmInvWindowOK == UmInv => WindowOK
<1> SUFFICES ASSUME UmInv PROVE WindowOK
  OBVIOUS
<1>1. /\ UmTypes /\ Below(vrUh) <= Below(vrUr) /\ Below(vrUr) <= WindowSize
      /\ \A p \in rxBuffer : Below(vrUh) < Below(p.sn) /\ Below(p.sn) <= Below(vrUr)
  BY DEF UmInv, PositionsOK, WaitingOK
<1>2. /\ vrUr \in SN /\ vrUh \in SN /\ \A p \in rxBuffer : p.sn \in SN
  BY <1>1 DEF UmTypes
<1>3. /\ Below(vrUr) \in Nat /\ Below(vrUh) \in Nat /\ WindowSize \in Nat \ {0}
      /\ Below(vrUh) <= WindowSize
      /\ Below(vrUh) < WindowSize \/ 1 <= Below(vrUr)
  BY <1>1, <1>2, BelowType
<1>4. Rel(vrUr, Base(vrUh)) = WindowSize + Below(vrUh) - Below(vrUr)
  BY <1>1, <1>2, <1>3, AboveBaseBelow
<1>5. ASSUME NEW p \in rxBuffer
      PROVE  /\ Rel(vrUr, Base(vrUh)) <= Rel(p.sn, Base(vrUh))
             /\ IsInsideReorderingWindow(vrUh, p.sn)
  <2>1. Below(p.sn) \in Nat BY <1>1, <1>2, BelowType
  <2>2. 1 <= Below(p.sn) /\ Below(p.sn) <= WindowSize BY <1>1, <1>3, <2>1
  <2>3. Rel(p.sn, Base(vrUh)) = WindowSize + Below(vrUh) - Below(p.sn)
    BY <1>1, <1>2, <1>3, <2>2, AboveBaseBelow
  <2>4. QED BY <1>1, <1>3, <1>4, <2>1, <2>3 DEF IsInsideReorderingWindow
<1>6. QED BY <1>1, <1>3, <1>4, <1>5 DEF WindowOK

\* The inductive invariant holds in every behaviour.
LEMMA UmInvHolds ==
    ASSUME ReorderingIsPrompt, WindowSize > 1
    PROVE  Spec => []UmInv
<1>1. UmInv /\ [Next]_vars => UmInv' BY UmNext
<1>2. QED BY <1>1, UmInitInv, PTL DEF Spec

\* However PDUs are lost and overtaken, VR(UR) stays in the reordering window, and
\* what waits in m_rxBuffer lies in VR(UR) .. VR(UH), as DoReceivePdu, the
\* reassembly of intervals and ExpireReorderingTimer assume.
THEOREM UmWindowSound ==
    ASSUME ReorderingIsPrompt, WindowSize > 1
    PROVE  Spec => []WindowOK
BY UmInvHolds, UmInvWindowOK, PTL

\* A PDU in m_rxBuffer never waits without t-Reordering, which alone delivers it
\* when the PDU missing before it does not come (end of DoReceivePdu,
\* ExpireReorderingTimer).
THEOREM UmNeverWaitsUntimed ==
    ASSUME ReorderingIsPrompt, WindowSize > 1
    PROVE  Spec => []NothingWaitsUntimed
<1>1. UmInv => NothingWaitsUntimed BY DEF UmInv, WaitingOK
<1>2. QED BY <1>1, UmInvHolds, PTL

---------------------------------------------------------------------------
(*************************************************************************)
(* The SDUs of one data field: ReassembleAndDeliver hands over those that *)
(* are whole, and keeps the beginning of the last.                       *)
(*************************************************************************)

\* Whole SDUs in the order of acceptance, all of them before the SDU bound.
DeliveredOK(d, bound, all) ==
    /\ \A i \in DOMAIN d :
           LET sdu == d[i][1].sdu
           IN  /\ Joined(d[i], sdu) /\ sdu \in DOMAIN all /\ sdu < bound
               /\ SizeOf(d[i], Len(d[i])) = all[sdu]
    /\ \A i, j \in DOMAIN d : i < j => d[i][1].sdu < d[j][1].sdu

\* The SDUs that were handed over.
DeliveredSdus(d) == {d[i][1].sdu : i \in DOMAIN d}

\* A kept piece is the beginning of the SDU of the position, up to the position.
KeptOK(r, pos) ==
    r.waitsRest => Joined(r.keep, pos[1]) /\ pos[2] = SizeOf(r.keep, Len(r.keep))

\* The SDUs before the position were delivered or are lost, and so is the one in
\* the middle of which it is unless its beginning is kept.
AccountedFor(d, pos, kept, lost) ==
    /\ 1 .. pos[1] - 1 \subseteq lost \cup DeliveredSdus(d)
    /\ pos[2] > 0 => kept \/ pos[1] \in lost

\* The packets p are the SDUs after b.
PacketsOK(p, b, all) ==
    \A i \in 1 .. Len(p) : /\ Joined(p[i], b + i) /\ b + i \in DOMAIN all
                           /\ SizeOf(p[i], Len(p[i])) = all[b + i]

\* They are handed over after those of d, which are the SDUs up to b at most.
Follow(p, d, b, all) ==
    /\ d \in Seq(Seq(Piece)) /\ p \in Seq(Seq(Piece)) /\ b \in Nat
    /\ DeliveredOK(d, b + 1, all) /\ PacketsOK(p, b, all)

HandedOver(p, d, b, all) ==
    /\ DeliveredOK(d \o p, b + Len(p) + 1, all)
    /\ DeliveredSdus(d \o p) = DeliveredSdus(d) \cup (b + 1 .. b + Len(p))

\* Whole SDUs after those delivered before leave what was delivered in order.
LEMMA HandOver ==
    ASSUME NEW all, NEW d, NEW p, NEW b, Follow(p, d, b, all)
    PROVE  HandedOver(p, d, b, all)
<1>0. /\ d \in Seq(Seq(Piece)) /\ p \in Seq(Seq(Piece)) /\ b \in Nat
      /\ DeliveredOK(d, b + 1, all) /\ PacketsOK(p, b, all)
  BY DEF Follow
<1> DEFINE D == Len(d)
           P == Len(p)
           both == d \o p
<1>1. /\ both \in Seq(Seq(Piece)) /\ DOMAIN both = 1 .. D + P
      /\ DOMAIN d = 1 .. D /\ D \in Nat /\ P \in Nat
      /\ \A i \in 1 .. D : both[i] = d[i]
      /\ \A i \in 1 .. P : both[D + i] = p[i] /\ p[i] \in Seq(Piece)
  BY <1>0, Concatenation
<1>2. \A i \in 1 .. P : /\ Joined(p[i], b + i) /\ b + i \in DOMAIN all
                        /\ SizeOf(p[i], Len(p[i])) = all[b + i]
  BY <1>0 DEF PacketsOK
<1> HIDE DEF both, P, D
<1>3. ASSUME NEW i \in 1 .. P PROVE p[i][1].sdu = b + i
  <2>1. PICK packet : packet = p[i]
    OBVIOUS
  <2>2. packet \in Seq(Piece) /\ Joined(packet, b + i)
    BY <1>1, <1>2, <2>1
  <2>3. 1 \in DOMAIN packet
    BY <2>2 DEF Joined
  <2>4. QED
    BY <2>1, <2>2, <2>3 DEF Joined
<1>4. \A i \in 1 .. D : /\ Joined(d[i], d[i][1].sdu) /\ d[i][1].sdu \in DOMAIN all
                        /\ d[i][1].sdu < b + 1
                        /\ SizeOf(d[i], Len(d[i])) = all[d[i][1].sdu]
  BY <1>0, <1>1 DEF DeliveredOK
<1>5. \A i \in 1 .. D : d[i][1].sdu \in Nat
  <2>0. d \in Seq(Seq(Piece))
    BY <1>0
  <2>1. TAKE i \in 1 .. D
  <2>2. PICK packet : packet = d[i]
    OBVIOUS
  <2>3. packet \in Seq(Piece) /\ packet # <<>>
    BY <2>0, <1>1, <1>4, <2>2 DEF Joined
  <2>4. packet[1] \in Piece
    BY <2>3
  <2>5. QED
    BY <2>2, <2>4 DEF Piece
<1>6. \A i \in 1 .. D + P : i \in 1 .. D \/ \E j \in 1 .. P : i = D + j
  BY <1>1, SplitIndex
<1>7. ASSUME NEW i \in 1 .. D + P
      PROVE  LET sdu == both[i][1].sdu
             IN  /\ Joined(both[i], sdu) /\ sdu \in DOMAIN all /\ sdu < b + P + 1
                 /\ SizeOf(both[i], Len(both[i])) = all[sdu]
  <2>1. CASE i \in 1 .. D
    <3>1. d[i][1].sdu < b + P + 1
      <4>1. PICK x \in Nat : x = d[i][1].sdu /\ x < b + 1
        BY <1>4, <1>5, <2>1
      <4>2. P \in Nat /\ x < b + 1 /\ b \in Nat
        BY <1>0, <1>1, <4>1
      <4>3. x < b + P + 1
        BY <4>2
      <4>4. QED
        BY <4>1, <4>3
    <3>2. QED
      BY <1>1, <1>4, <2>1, <3>1
  <2>2. ASSUME NEW j \in 1 .. P, i = D + j
        PROVE  LET sdu == both[i][1].sdu
               IN  /\ Joined(both[i], sdu) /\ sdu \in DOMAIN all /\ sdu < b + P + 1
                   /\ SizeOf(both[i], Len(both[i])) = all[sdu]
    <3>1. both[i] = p[j] /\ b + j < b + P + 1
      BY <1>0, <1>1, <2>2
    <3>2. QED
      BY <1>2, <1>3, <3>1
  <2>3. QED
    BY <1>6, <2>1, <2>2
<1>8. ASSUME NEW i \in 1 .. D + P, NEW j \in 1 .. D + P, i < j
      PROVE  both[i][1].sdu < both[j][1].sdu
  <2>1. CASE i \in 1 .. D /\ j \in 1 .. D
    BY <1>0, <1>1, <1>8, <2>1 DEF DeliveredOK
  <2>2. ASSUME NEW k \in 1 .. P, j = D + k, i \in 1 .. D
        PROVE  both[i][1].sdu < both[j][1].sdu
    <3>1. both[i] = d[i] /\ both[j] = p[k] /\ p[k][1].sdu = b + k
      BY <1>1, <1>3, <2>2
    <3>2. PICK x \in Nat : x = d[i][1].sdu /\ x < b + 1
      BY <1>4, <1>5, <2>2
    <3>3. P \in Nat /\ x < b + 1 /\ b \in Nat
      BY <1>0, <1>1, <3>2
    <3>4. x < b + k
      BY <3>3
    <3>5. QED
      BY <3>1, <3>2, <3>4
  <2>3. ASSUME NEW k \in 1 .. P, j = D + k, NEW m \in 1 .. P, i = D + m
        PROVE  both[i][1].sdu < both[j][1].sdu
    <3>1. both[i] = p[m] /\ both[j] = p[k]
      BY <1>1, <2>3
    <3>2. m < k
      BY <1>1, <1>8, <2>3
    <3>3. b + m < b + k
      BY <1>0, <1>1, <3>2
    <3>4. QED
      BY <1>3, <3>1, <3>3
  <2>4. ASSUME NEW m \in 1 .. P, i = D + m, j \in 1 .. D PROVE FALSE
    BY <1>1, <1>8, <2>4
  <2>5. QED
    BY <1>6, <2>1, <2>2, <2>3, <2>4
<1>9. DeliveredOK(both, b + P + 1, all)
  BY <1>1, <1>7, <1>8 DEF DeliveredOK
<1>10. DeliveredSdus(both) = DeliveredSdus(d) \cup (b + 1 .. b + P)
  <2>1. ASSUME NEW s \in DeliveredSdus(both)
        PROVE  s \in DeliveredSdus(d) \cup (b + 1 .. b + P)
    <3>1. PICK i \in 1 .. D + P : s = both[i][1].sdu
      BY <1>1 DEF DeliveredSdus
    <3>2. CASE i \in 1 .. D
      BY <1>1, <3>1, <3>2 DEF DeliveredSdus
    <3>3. ASSUME NEW j \in 1 .. P, i = D + j PROVE s \in b + 1 .. b + P
      <4>1. s = b + j
        BY <1>1, <1>3, <3>1, <3>3
      <4>2. QED
        BY <1>0, <1>1, <4>1
    <3>4. QED
      BY <1>6, <3>2, <3>3
  <2>2. ASSUME NEW s \in DeliveredSdus(d) PROVE s \in DeliveredSdus(both)
    <3>1. PICK i \in 1 .. D : s = d[i][1].sdu
      BY <1>1 DEF DeliveredSdus
    <3>2. i \in 1 .. D + P /\ both[i] = d[i]
      BY <1>1
    <3>3. QED
      BY <1>1, <3>1, <3>2 DEF DeliveredSdus
  <2>3. ASSUME NEW s \in b + 1 .. b + P PROVE s \in DeliveredSdus(both)
    <3>1. PICK j \in 1 .. P : s = b + j
      <4>1. s - b \in 1 .. P /\ s = b + (s - b)
        BY <1>0, <1>1
      <4>2. QED
        BY <4>1
    <3>2. D + j \in 1 .. D + P /\ both[D + j] = p[j]
      BY <1>1
    <3>3. both[D + j][1].sdu = s
      BY <1>3, <3>1, <3>2
    <3>4. QED
      BY <1>1, <3>2, <3>3 DEF DeliveredSdus
  <2>4. QED
    BY <2>1, <2>2, <2>3
<1>11. QED
  BY <1>9, <1>10 DEF HandedOver, both, P

\* The pieces of a data field one by one.
LEMMA FieldPieces ==
    ASSUME NEW all, NEW field \in Seq(Piece), FieldOK(field, all)
    PROVE  /\ Len(field) \in Nat \ {0} /\ DOMAIN field = 1 .. Len(field)
           /\ 1 \in 1 .. Len(field) /\ Len(field) \in 1 .. Len(field)
           /\ \A i \in 1 .. Len(field) : /\ field[i] \in Piece /\ PieceOK(field[i], all)
                                         /\ field[i].sdu = field[1].sdu + i - 1
                                         /\ i > 1 => field[i].from = 0
                                         /\ i < Len(field) => Ends(field[i], all)
           /\ FirstByte(field) <=> field[1].from = 0
           /\ LastByte(field) <=> Ends(field[Len(field)], all)
<1>1. /\ Len(field) \in Nat \ {0} /\ DOMAIN field = 1 .. Len(field)
      /\ 1 \in 1 .. Len(field) /\ Len(field) \in 1 .. Len(field)
  BY DEF FieldOK
<1>2. \A i \in 1 .. Len(field) : /\ field[i] \in Piece /\ PieceOK(field[i], all)
                                 /\ field[i].sdu = field[1].sdu + i - 1
                                 /\ i > 1 => field[i].from = 0
                                 /\ i < Len(field) => Ends(field[i], all)
  BY <1>1 DEF FieldOK
<1>3. FirstByte(field) <=> field[1].from = 0
  BY <1>1, <1>2 DEF FirstByte, PieceOK
<1>4. LastByte(field) <=> Ends(field[Len(field)], all)
  BY <1>1, <1>2 DEF LastByte, PieceOK
<1>5. QED
  BY <1>1, <1>2, <1>3, <1>4

\* Every piece of a data field is a packet by itself at first.
LEMMA PiecesApart ==
    ASSUME NEW field \in Seq(Piece), NEW r \in Reassembly
    PROVE  LET sdus == r.sdus \o [i \in DOMAIN field |-> <<field[i]>>]
           IN  /\ sdus \in Seq(Seq(Piece)) /\ Len(sdus) = Len(field)
               /\ \A i \in 1 .. Len(field) : sdus[i] = <<field[i]>>
<1> DEFINE apart == [i \in DOMAIN field |-> <<field[i]>>]
           sdus == r.sdus \o apart
<1>1. /\ Len(field) \in Nat /\ DOMAIN field = 1 .. Len(field)
      /\ \A i \in 1 .. Len(field) : <<field[i]>> \in Seq(Piece)
  OBVIOUS
<1>2. /\ apart \in Seq(Seq(Piece)) /\ Len(apart) = Len(field)
      /\ \A i \in 1 .. Len(field) : apart[i] = <<field[i]>>
  BY <1>1
<1> HIDE DEF apart
<1>3. r.sdus = <<>>
  BY DEF Reassembly
<1>4. sdus = apart
  BY <1>2, <1>3, ConcatEmptySeq
<1> HIDE DEF sdus
<1>5. /\ sdus \in Seq(Seq(Piece)) /\ Len(sdus) = Len(field)
      /\ \A i \in 1 .. Len(field) : sdus[i] = <<field[i]>>
  BY <1>2, <1>4
<1>6. QED
  BY <1>5 DEF sdus, apart

\* A packet in the place of the first one.
LEMMA HeadReplaced ==
    ASSUME NEW s \in Seq(Seq(Piece)), s # <<>>, NEW x \in Seq(Piece)
    PROVE  LET t == <<x>> \o Tail(s)
           IN  /\ t \in Seq(Seq(Piece)) /\ Len(t) = Len(s) /\ t[1] = x
               /\ \A i \in 2 .. Len(s) : t[i] = s[i]
<1> DEFINE one == <<x>>
           others == Tail(s)
           t == one \o others
<1>1. /\ one \in Seq(Seq(Piece)) /\ Len(one) = 1 /\ one[1] = x
  OBVIOUS
<1>2. /\ others \in Seq(Seq(Piece)) /\ Len(others) = Len(s) - 1 /\ Len(s) \in Nat \ {0}
      /\ \A i \in 1 .. Len(s) - 1 : others[i] = s[i + 1]
  OBVIOUS
<1> HIDE DEF one, others
<1>3. /\ t \in Seq(Seq(Piece)) /\ Len(t) = Len(one) + Len(others)
      /\ \A i \in 1 .. Len(one) : t[i] = one[i]
      /\ \A i \in 1 .. Len(others) : t[Len(one) + i] = others[i]
  BY <1>1, <1>2, Concatenation
<1> HIDE DEF t
<1>4. t \in Seq(Seq(Piece)) /\ Len(t) = Len(s) /\ t[1] = x
  BY <1>1, <1>2, <1>3
<1>5. ASSUME NEW i \in 2 .. Len(s) PROVE t[i] = s[i]
  <2>1. PICK j \in 1 .. Len(s) - 1 : i = 1 + j /\ j + 1 = i
    <3>1. i - 1 \in 1 .. Len(s) - 1 /\ i = 1 + (i - 1) /\ (i - 1) + 1 = i
      BY <1>2
    <3>2. QED
      BY <3>1
  <2>2. t[1 + j] = others[j]
    BY <1>1, <1>2, <1>3
  <2>3. QED
    BY <1>2, <2>1, <2>2
<1>6. QED
  BY <1>4, <1>5 DEF t, one, others

\* The PDUs of RLC UM, with the numbers of their construction.
UmPdus == [n : Nat \ {0}, sn : SN, field : Seq(Piece)]

\* The PDU pdu comes when the position of the reassembly is pos: if it is the one
\* expected it continues there.
Continues(r, pdu, pos) == pdu.sn = r.expected => Start(pdu.field[1]) = pos

\* The packets of a PDU are the SDUs in its data field, without the first one if its
\* beginning is missing.
LEMMA PacketsOfField ==
    ASSUME NEW all \in Seq(Nat \ {0}), NEW r \in Reassembly, NEW pdu \in UmPdus, NEW pos,
           FieldOK(pdu.field, all), KeptOK(r, pos), Continues(r, pdu, pos)
    PROVE  LET field   == pdu.field
               sdus    == r.sdus \o [i \in DOMAIN field |-> <<field[i]>>]
               packets == Packets(r, sdus, pdu)
           IN  /\ pdu.sn = r.expected /\ r.waitsRest => ~FirstByte(field)
               /\ packets \in Seq(Seq(Piece))
               /\ \E off \in {0, 1} :
                     /\ Len(packets) = Len(field) - off
                     /\ \A i \in 1 .. Len(field) - off :
                           /\ Joined(packets[i], field[i + off].sdu)
                           /\ SizeOf(packets[i], Len(packets[i]))
                                = field[i + off].from + field[i + off].len
                     /\ off = 1 => /\ field[1].from > 0
                                   /\ ~(r.waitsRest /\ pdu.sn = r.expected)
<1> DEFINE field == pdu.field
           n == Len(field)
           sdus == r.sdus \o [i \in DOMAIN field |-> <<field[i]>>]
           packets == Packets(r, sdus, pdu)
<1>1. field \in Seq(Piece) /\ r.keep \in Seq(Piece) /\ r.waitsRest \in BOOLEAN
  BY DEF UmPdus, Reassembly
<1>2. FieldOK(field, all)
  OBVIOUS
<1>3. pdu.sn = r.expected => Start(field[1]) = pos
  BY DEF Continues
<1> HIDE DEF field
<1>4. /\ n \in Nat \ {0} /\ DOMAIN field = 1 .. n /\ 1 \in 1 .. n
      /\ \A i \in 1 .. n : field[i] \in Piece /\ (i > 1 => field[i].from = 0)
      /\ FirstByte(field) <=> field[1].from = 0
  BY <1>1, <1>2, FieldPieces
<1>5. /\ sdus \in Seq(Seq(Piece)) /\ Len(sdus) = n
      /\ \A i \in 1 .. n : sdus[i] = <<field[i]>>
  BY <1>1, PiecesApart
<1> HIDE DEF sdus
<1>6. pdu.sn = r.expected /\ r.waitsRest
        => /\ ~FirstByte(field)
           /\ field[1].from = SizeOf(r.keep, Len(r.keep))
           /\ Joined(r.keep, field[1].sdu)
  <2>1. SUFFICES ASSUME pdu.sn = r.expected, r.waitsRest
                 PROVE  /\ ~FirstByte(field)
                        /\ field[1].from = SizeOf(r.keep, Len(r.keep))
                        /\ Joined(r.keep, field[1].sdu)
    OBVIOUS
  <2>2. pos[1] = field[1].sdu /\ pos[2] = field[1].from
    BY <1>3, <2>1 DEF Start
  <2>3. Joined(r.keep, field[1].sdu) /\ field[1].from = SizeOf(r.keep, Len(r.keep))
    BY <2>1, <2>2 DEF KeptOK
  <2>4. Len(r.keep) \in 1 .. Len(r.keep)
    BY <1>1, <2>3 DEF Joined
  <2>5. SizeOf(r.keep, Len(r.keep)) > 0
    BY <1>1, <2>4, SizeType
  <2>6. QED
    BY <1>4, <2>3, <2>5
<1>7. ASSUME NEW i \in 1 .. n, field[i].from = 0
      PROVE  /\ Joined(sdus[i], field[i].sdu)
             /\ SizeOf(sdus[i], Len(sdus[i])) = field[i].from + field[i].len
  <2>1. field[i] \in Piece /\ sdus[i] = <<field[i]>>
    BY <1>4, <1>5
  <2>2. QED
    BY <1>7, <2>1, JoinedAlone
<1>8. sdus # <<>> /\ Head(sdus) = <<field[1]>>
  BY <1>4, <1>5
<1> DEFINE Parts(off) ==
             /\ Len(packets) = n - off
             /\ \A i \in 1 .. n - off :
                   /\ Joined(packets[i], field[i + off].sdu)
                   /\ SizeOf(packets[i], Len(packets[i]))
                        = field[i + off].from + field[i + off].len
             /\ off = 1 => field[1].from > 0 /\ ~(r.waitsRest /\ pdu.sn = r.expected)
<1>9. CASE FirstByte(field)
  <2>1. packets = sdus
    BY <1>9 DEF Packets, field
  <2>2. \A i \in 1 .. n : field[i].from = 0
    BY <1>4, <1>9
  <2> HIDE DEF packets
  <2>3. \A i \in 1 .. n : /\ Joined(packets[i], field[i].sdu)
                          /\ SizeOf(packets[i], Len(packets[i])) = field[i].from + field[i].len
    BY <1>7, <2>1, <2>2
  <2>4. n - 0 = n /\ \A i \in 1 .. n : i + 0 = i
    BY <1>4
  <2>5. Parts(0)
    BY <1>5, <2>1, <2>3, <2>4
  <2> HIDE DEF Parts
  <2>6. packets \in Seq(Seq(Piece)) /\ \E off \in {0, 1} : Parts(off)
    BY <1>5, <2>1, <2>5
  <2>7. QED
    BY <1>6, <2>6 DEF Parts, packets, sdus, field
<1>10. CASE ~FirstByte(field) /\ r.waitsRest /\ pdu.sn = r.expected
  <2> DEFINE joined == r.keep \o <<field[1]>>
  <2>1. packets = <<joined>> \o Tail(sdus)
    BY <1>8, <1>10 DEF Packets, field
  <2>2. /\ joined \in Seq(Piece) /\ Joined(joined, field[1].sdu)
        /\ SizeOf(joined, Len(joined)) = field[1].from + field[1].len
    BY <1>1, <1>4, <1>6, <1>10, JoinedAppend
  <2> HIDE DEF joined, packets
  <2>3. /\ packets \in Seq(Seq(Piece)) /\ Len(packets) = n /\ packets[1] = joined
        /\ \A i \in 2 .. n : packets[i] = sdus[i]
    BY <1>5, <1>8, <2>1, <2>2, HeadReplaced
  <2>4. ASSUME NEW i \in 1 .. n
        PROVE  /\ Joined(packets[i], field[i].sdu)
               /\ SizeOf(packets[i], Len(packets[i])) = field[i].from + field[i].len
    <3>1. CASE i = 1
      BY <2>2, <2>3, <3>1
    <3>2. CASE i > 1
      <4>1. n \in Nat /\ i \in 2 .. n
        BY <1>4, <3>2
      <4>2. packets[i] = sdus[i] /\ field[i].from = 0
        BY <1>4, <2>3, <3>2, <4>1
      <4>3. QED
        BY <1>7, <4>2
    <3>3. QED
      BY <1>4, <3>1, <3>2
  <2>5. n - 0 = n /\ \A i \in 1 .. n : i + 0 = i
    BY <1>4
  <2>6. Parts(0)
    BY <2>3, <2>4, <2>5
  <2> HIDE DEF Parts
  <2>7. \E off \in {0, 1} : Parts(off)
    BY <2>6
  <2>8. QED
    BY <1>6, <2>3, <2>7 DEF Parts, packets, sdus, field
<1>11. CASE ~FirstByte(field) /\ ~(r.waitsRest /\ pdu.sn = r.expected)
  <2>1. packets = Tail(sdus)
    BY <1>11 DEF Packets, field
  <2> HIDE DEF packets
  <2>2. /\ packets \in Seq(Seq(Piece)) /\ Len(packets) = n - 1
        /\ \A i \in 1 .. n - 1 : packets[i] = sdus[i + 1]
    BY <1>5, <1>8, <2>1
  <2>3. ASSUME NEW i \in 1 .. n - 1
        PROVE  /\ Joined(packets[i], field[i + 1].sdu)
               /\ SizeOf(packets[i], Len(packets[i])) = field[i + 1].from + field[i + 1].len
    <3>1. PICK j \in 1 .. n : j = i + 1 /\ j > 1
      BY <1>4
    <3>2. packets[i] = sdus[j] /\ field[j].from = 0
      BY <1>4, <2>2, <3>1
    <3>3. QED
      BY <1>7, <3>1, <3>2
  <2>4. field[1].from > 0
    BY <1>4, <1>11 DEF Piece
  <2>5. Parts(1)
    BY <1>11, <2>2, <2>3, <2>4
  <2> HIDE DEF Parts
  <2>6. \E off \in {0, 1} : Parts(off)
    BY <2>5
  <2>7. QED
    BY <1>6, <2>2, <2>6 DEF Parts, packets, sdus, field
<1>12. QED
  BY <1>9, <1>10, <1>11

\* What is before one SDU is before a later one.
LEMMA DeliveredBefore ==
    ASSUME NEW all \in Seq(Nat \ {0}), NEW d \in Seq(Seq(Piece)), NEW m \in Nat, NEW k \in Nat,
           DeliveredOK(d, m, all), m <= k
    PROVE  DeliveredOK(d, k, all)
<1>1. ASSUME NEW i \in DOMAIN d PROVE d[i][1].sdu < k
  <2>1. PICK s : s = d[i][1].sdu
    OBVIOUS
  <2>2. s \in DOMAIN all /\ s < m
    BY <2>1 DEF DeliveredOK
  <2>3. s \in Nat
    BY <2>2
  <2>4. s < m /\ m <= k => s < k
    BY <2>3
  <2>5. QED
    BY <2>1, <2>2, <2>4
<1>2. QED
  BY <1>1 DEF DeliveredOK

\* A PDU is reassembled: the SDUs that end in it are delivered, unless the beginning
\* is missing, and the beginning of the one that does not end is kept.
LEMMA TakesField ==
    ASSUME SkipsUnexpectedRest,
           NEW all \in Seq(Nat \ {0}), NEW r \in Reassembly, NEW pdu \in UmPdus,
           NEW pos, NEW lost,
           FieldOK(pdu.field, all), KeptOK(r, pos), Continues(r, pdu, pos),
           DeliveredOK(r.delivered, pdu.field[1].sdu, all),
           AccountedFor(r.delivered, Start(pdu.field[1]),
                        r.waitsRest /\ pdu.sn = r.expected, lost)
    PROVE  LET after == ReassembleAndDeliver(r, pdu)
               stop  == Stop(pdu.field[Len(pdu.field)], all)
           IN  /\ after \in Reassembly /\ after.expected = Inc(pdu.sn)
               /\ KeptOK(after, stop)
               /\ DeliveredOK(after.delivered, stop[1], all)
               /\ AccountedFor(after.delivered, stop, after.waitsRest, lost)
<1> DEFINE field == pdu.field
           n == Len(field)
           d == r.delivered
           sdus == r.sdus \o [i \in DOMAIN field |-> <<field[i]>>]
           packets == Packets(r, sdus, pdu)
           after == ReassembleAndDeliver(r, pdu)
           stop == Stop(field[n], all)
           kept == r.waitsRest /\ pdu.sn = r.expected
<1>1. /\ field \in Seq(Piece) /\ pdu.sn \in SN /\ Inc(pdu.sn) \in SN
      /\ r.keep \in Seq(Piece) /\ r.waitsRest \in BOOLEAN /\ d \in Seq(Seq(Piece))
  BY IncDecType DEF UmPdus, Reassembly
<1>2. /\ FieldOK(field, all)
      /\ DeliveredOK(d, field[1].sdu, all)
      /\ AccountedFor(d, Start(field[1]), kept, lost)
  OBVIOUS
<1>3. /\ kept => ~FirstByte(field)
      /\ packets \in Seq(Seq(Piece))
      /\ \E off \in {0, 1} :
            /\ Len(packets) = n - off
            /\ \A i \in 1 .. n - off :
                  /\ Joined(packets[i], field[i + off].sdu)
                  /\ SizeOf(packets[i], Len(packets[i]))
                       = field[i + off].from + field[i + off].len
            /\ off = 1 => field[1].from > 0 /\ ~kept
  BY PacketsOfField
<1>4. ~Impossible(r, pdu)
  BY <1>3 DEF Impossible
<1> HIDE DEF field, packets, kept, after, d
<1>5. /\ n \in Nat \ {0} /\ 1 \in 1 .. n /\ n \in 1 .. n
      /\ \A i \in 1 .. n : /\ field[i] \in Piece /\ PieceOK(field[i], all)
                           /\ field[i].sdu = field[1].sdu + i - 1
                           /\ i < n => Ends(field[i], all)
      /\ LastByte(field) <=> Ends(field[n], all)
  BY <1>1, <1>2, FieldPieces
<1>6. PICK off \in {0, 1} :
         /\ Len(packets) = n - off
         /\ \A i \in 1 .. n - off :
               /\ Joined(packets[i], field[i + off].sdu)
               /\ SizeOf(packets[i], Len(packets[i])) = field[i + off].from + field[i + off].len
         /\ off = 1 => field[1].from > 0 /\ ~kept
  BY <1>3
<1>7. PICK s \in Nat \ {0} : s = field[1].sdu
  BY <1>5 DEF Piece
<1>8. PICK k \in Nat : k = Len(packets)
  <2>1. Len(packets) \in Nat
    BY <1>3
  <2>2. QED
    BY <2>1
<1>9. PICK b \in Nat : b = s - 1 + off
  <2>1. s - 1 + off \in Nat
    OBVIOUS
  <2>2. QED
    BY <2>1
<1>10. /\ k = n - off /\ b + k = s - 1 + n
       /\ \A i \in 1 .. k : i + off \in 1 .. n /\ s + (i + off) - 1 = b + i
                            /\ (i < k => i + off < n)
  BY <1>5, <1>6, <1>8, <1>9
<1>11. ASSUME NEW i \in 1 .. k
       PROVE  /\ Joined(packets[i], b + i) /\ b + i \in DOMAIN all
              /\ SizeOf(packets[i], Len(packets[i])) = field[i + off].from + field[i + off].len
              /\ i < k \/ LastByte(field) => SizeOf(packets[i], Len(packets[i])) = all[b + i]
  <2>1. PICK j \in 1 .. n :
           j = i + off /\ s + j - 1 = b + i /\ (i < k => j < n) /\ (i = k => j = n)
    BY <1>5, <1>10
  <2>2. field[j].sdu = b + i
    BY <1>5, <1>7, <2>1
  <2>3. /\ Joined(packets[i], b + i)
        /\ SizeOf(packets[i], Len(packets[i])) = field[j].from + field[j].len
    BY <1>6, <1>10, <2>1, <2>2
  <2>4. b + i \in DOMAIN all
    BY <1>5, <2>2 DEF PieceOK
  <2>5. i < k \/ LastByte(field) => Ends(field[j], all)
    <3>1. i < k \/ i = k
      BY <1>8
    <3>2. QED
      BY <1>5, <2>1, <3>1
  <2>6. QED
    BY <2>1, <2>2, <2>3, <2>4, <2>5 DEF Ends
<1>12. DeliveredOK(d, b + 1, all)
  <2>1. PICK c \in Nat : c = b + 1
    OBVIOUS
  <2>2. s \in Nat /\ s <= c
    BY <1>9, <2>1
  <2>3. DeliveredOK(d, c, all)
    BY <1>1, <1>2, <1>7, <2>1, <2>2, DeliveredBefore
  <2>4. QED
    BY <2>1, <2>3
<1>13. off = 1 => s \in lost
  BY <1>2, <1>6, <1>7 DEF AccountedFor, Start
<1>14. 1 .. b \subseteq lost \cup DeliveredSdus(d)
  <2>1. 1 .. s - 1 \subseteq lost \cup DeliveredSdus(d)
    BY <1>2, <1>7 DEF AccountedFor, Start
  <2>2. 1 .. b = 1 .. s - 1 \/ (off = 1 /\ 1 .. b = (1 .. s - 1) \cup {s})
    BY <1>9
  <2>3. QED
    BY <1>13, <2>1, <2>2
<1>15. /\ field[n].sdu = s + n - 1
       /\ stop = IF LastByte(field) THEN <<s + n, 0>>
                 ELSE <<s + n - 1, field[n].from + field[n].len>>
  <2>1. PICK m \in Nat : m = n /\ m \in 1 .. m
    BY <1>5
  <2>2. field[m].sdu = field[1].sdu + m - 1
    <3>1. \A i \in 1 .. n : field[i].sdu = field[1].sdu + i - 1
      BY <1>5
    <3>2. m \in 1 .. n
      BY <2>1
    <3>3. QED
      BY <3>1, <3>2
  <2>3. field[m].sdu = s + m - 1
    BY <1>7, <2>2
  <2>4. (s + m - 1) + 1 = s + m
    OBVIOUS
  <2>5. QED
    BY <1>5, <2>1, <2>3, <2>4 DEF Stop
<1> HIDE DEF stop
<1>16. CASE LastByte(field) \/ packets = <<>>
  <2>1. after = [[r EXCEPT !.expected = Inc(pdu.sn)] EXCEPT
                   !.waitsRest = FALSE, !.sdus = <<>>, !.delivered = @ \o packets]
    BY <1>4, <1>16 DEF ReassembleAndDeliver, after, packets, field
  <2>2. d \o packets \in Seq(Seq(Piece))
    BY <1>1, <1>3
  <2>3. /\ after \in Reassembly /\ after.expected = Inc(pdu.sn)
        /\ after.waitsRest = FALSE /\ after.delivered = d \o packets
    BY <1>1, <2>1, <2>2 DEF Reassembly, d
  <2>4. KeptOK(after, stop)
    BY <2>3 DEF KeptOK
  <2>5. CASE LastByte(field)
    <3>1. PacketsOK(packets, b, all)
      BY <1>8, <1>11, <2>5 DEF PacketsOK
    <3>2. /\ DeliveredOK(d \o packets, b + k + 1, all)
          /\ DeliveredSdus(d \o packets) = DeliveredSdus(d) \cup (b + 1 .. b + k)
      <4>1. Follow(packets, d, b, all)
        BY <1>1, <1>3, <1>12, <3>1 DEF Follow
      <4>2. HandedOver(packets, d, b, all)
        BY <4>1, HandOver
      <4>3. QED
        BY <1>8, <4>2 DEF HandedOver
    <3>3. stop[1] = b + k + 1 /\ stop[2] = 0 /\ stop[1] - 1 = b + k
      BY <1>5, <1>10, <1>15, <2>5
    <3>4. 1 .. b + k = (1 .. b) \cup (b + 1 .. b + k)
      OBVIOUS
    <3>5. AccountedFor(d \o packets, stop, FALSE, lost)
      BY <1>14, <3>2, <3>3, <3>4 DEF AccountedFor
    <3>6. QED
      BY <2>3, <2>4, <3>2, <3>3, <3>5 DEF after, stop, field
  <2>6. CASE ~LastByte(field)
    <3>1. packets = <<>> /\ k = 0
      BY <1>8, <1>16, <2>6
    <3>2. off = 1 /\ n = 1
      <4>1. PICK m \in Nat \ {0} : m = n /\ 0 = m - off
        BY <1>5, <1>10, <3>1
      <4>2. off # 0
        BY <4>1
      <4>3. QED
        BY <4>1, <4>2
    <3>3. d \o packets = d
      BY <1>1, <3>1, ConcatEmptySeq
    <3>4. stop[1] = s
      BY <1>15, <2>6, <3>2
    <3>5. DeliveredOK(d, stop[1], all)
      BY <1>2, <1>7, <3>4
    <3>6. AccountedFor(d, stop, FALSE, lost)
      BY <1>2, <1>7, <1>13, <3>2, <3>4 DEF AccountedFor, Start
    <3>7. QED
      BY <2>3, <2>4, <3>3, <3>5, <3>6 DEF after, stop, field
  <2>7. QED
    BY <2>5, <2>6
<1>17. CASE ~LastByte(field) /\ packets # <<>>
  <2> DEFINE ended == SubSeq(packets, 1, k - 1)
  <2>1. after = [[r EXCEPT !.expected = Inc(pdu.sn)] EXCEPT
                   !.waitsRest = TRUE, !.sdus = <<>>, !.keep = packets[k],
                   !.delivered = @ \o ended]
    BY <1>4, <1>8, <1>17 DEF ReassembleAndDeliver, after, packets, field
  <2>2. k > 0 /\ k \in 1 .. k /\ k + off = n
    <3>1. k # 0
      BY <1>3, <1>8, <1>17
    <3>2. n \in Nat /\ k = n - off
      BY <1>5, <1>10
    <3>3. QED
      BY <3>1, <3>2
  <2>3. /\ ended \in Seq(Seq(Piece)) /\ Len(ended) = k - 1
        /\ \A i \in 1 .. k - 1 : ended[i] = packets[i]
    BY <1>3, <1>8, <2>2
  <2> HIDE DEF ended
  <2>4. d \o ended \in Seq(Seq(Piece)) /\ packets[k] \in Seq(Piece)
    BY <1>1, <1>3, <1>8, <2>2, <2>3
  <2>5. /\ after \in Reassembly /\ after.expected = Inc(pdu.sn)
        /\ after.waitsRest = TRUE /\ after.keep = packets[k] /\ after.delivered = d \o ended
    BY <1>1, <2>1, <2>4 DEF Reassembly, d
  <2>6. PICK m \in Nat : m = k - 1
    <3>1. k - 1 \in Nat
      BY <2>2
    <3>2. QED
      BY <3>1
  <2>7. PacketsOK(ended, b, all)
    <3>1. ASSUME NEW i \in 1 .. m
          PROVE  /\ Joined(ended[i], b + i) /\ b + i \in DOMAIN all
                 /\ SizeOf(ended[i], Len(ended[i])) = all[b + i]
      <4>1. i \in 1 .. k /\ i < k
        BY <2>2, <2>6
      <4>2. ended[i] = packets[i]
        BY <2>3, <2>6
      <4>3. QED
        BY <1>11, <4>1, <4>2
    <3>2. QED
      BY <2>3, <2>6, <3>1 DEF PacketsOK
  <2>8. /\ DeliveredOK(d \o ended, b + m + 1, all)
        /\ DeliveredSdus(d \o ended) = DeliveredSdus(d) \cup (b + 1 .. b + m)
    <3>1. ended \in Seq(Seq(Piece)) /\ d \in Seq(Seq(Piece)) /\ Len(ended) = m
      BY <1>1, <2>3, <2>6
    <3>2. Follow(ended, d, b, all)
      BY <1>12, <2>7, <3>1 DEF Follow
    <3>3. HandedOver(ended, d, b, all)
      BY <3>2, HandOver
    <3>4. QED
      BY <3>1, <3>3 DEF HandedOver
  <2>9. stop[1] = b + m + 1 /\ stop[1] - 1 = b + m /\ stop[1] = b + k
    BY <1>5, <1>10, <1>15, <1>17, <2>6
  <2>10. 1 .. b + m = (1 .. b) \cup (b + 1 .. b + m)
    OBVIOUS
  <2>11. AccountedFor(d \o ended, stop, TRUE, lost)
    BY <1>14, <2>8, <2>9, <2>10 DEF AccountedFor
  <2>12. KeptOK(after, stop)
    <3>1. Joined(packets[k], stop[1])
      BY <1>11, <2>2, <2>9
    <3>2. stop[2] = SizeOf(packets[k], Len(packets[k]))
      <4>1. SizeOf(packets[k], Len(packets[k])) = field[k + off].from + field[k + off].len
        BY <1>11, <2>2
      <4>2. stop[2] = field[n].from + field[n].len
        BY <1>15, <1>17
      <4>3. QED
        BY <2>2, <4>1, <4>2
    <3>3. QED
      BY <2>5, <3>1, <3>2 DEF KeptOK
  <2>13. QED
    BY <2>5, <2>8, <2>9, <2>11, <2>12 DEF after, stop, field
<1>18. QED
  BY <1>16, <1>17

---------------------------------------------------------------------------
(*************************************************************************)
(* The data fields of all the PDUs that were built, one after the other, *)
(* and what it means to come to one of them.                             *)
(*************************************************************************)

\* Where the data field of PDU n begins, which the next one is to begin at next.
At(h, next, n) == IF n > Len(h) THEN next ELSE Start(h[n][1])

\* The data fields h follow each other from the first byte of all on.
HistoryOK(h, next, all) ==
    /\ At(h, next, 1) = <<1, 0>>
    /\ \A n \in 1 .. Len(h) : /\ FieldOK(h[n], all)
                              /\ At(h, next, n + 1) = Stop(h[n][Len(h[n])], all)

\* The SDUs of a data field.
SdusIn(field) == {field[i].sdu : i \in DOMAIN field}

\* Delivered was what is whole before pos; nothing else but what is lost.
Reached(d, pos, kept, lost, all) ==
    DeliveredOK(d, pos[1], all) /\ AccountedFor(d, pos, kept, lost)

\* The SDUs of a data field are those from its first on.
LEMMA FieldEnds ==
    ASSUME NEW all, NEW field \in Seq(Piece), FieldOK(field, all)
    PROVE  \E s \in Nat \ {0}, e \in Nat, x \in Nat :
              /\ field[1].sdu = s /\ s <= e + 1 /\ e \in SdusIn(field)
              /\ SdusIn(field) = s .. e
              /\ \/ Stop(field[Len(field)], all) = <<e + 1, 0>>
                 \/ Stop(field[Len(field)], all) = <<e, x>>
<1>1. /\ Len(field) \in Nat \ {0} /\ DOMAIN field = 1 .. Len(field)
      /\ 1 \in 1 .. Len(field) /\ Len(field) \in 1 .. Len(field)
      /\ \A i \in 1 .. Len(field) : /\ field[i] \in Piece
                                    /\ field[i].sdu = field[1].sdu + i - 1
  BY FieldPieces
<1>2. PICK s \in Nat \ {0} : s = field[1].sdu
  BY <1>1 DEF Piece
<1>3. PICK n \in Nat \ {0} : n = Len(field)
  BY <1>1
<1>4. PICK e \in Nat : e = s + n - 1
  <2>1. s + n - 1 \in Nat
    OBVIOUS
  <2>2. QED
    BY <2>1
<1>5. \A i \in 1 .. n : field[i].sdu = s + i - 1
  BY <1>1, <1>2, <1>3
<1>6. SdusIn(field) = s .. e
  <2>1. ASSUME NEW x \in SdusIn(field) PROVE x \in s .. e
    <3>1. PICK i \in 1 .. n : x = field[i].sdu
      BY <1>1, <1>3, <2>1 DEF SdusIn
    <3>2. x = s + i - 1
      BY <1>5, <3>1
    <3>3. QED
      BY <1>4, <3>2
  <2>2. ASSUME NEW x \in s .. e PROVE x \in SdusIn(field)
    <3>1. PICK i \in 1 .. n : x = s + i - 1
      <4>1. x - s + 1 \in 1 .. n /\ x = s + (x - s + 1) - 1
        BY <1>4
      <4>2. QED
        BY <4>1
    <3>2. x = field[i].sdu
      BY <1>5, <3>1
    <3>3. QED
      BY <1>1, <1>3, <3>2 DEF SdusIn
  <2>3. QED
    BY <2>1, <2>2
<1>7. e \in s .. e /\ s <= e + 1
  BY <1>4
<1>8. PICK p \in Piece : p = field[Len(field)] /\ p.sdu = e
  <2>1. n \in 1 .. n
    OBVIOUS
  <2>2. field[n].sdu = e
    BY <1>4, <1>5, <2>1
  <2>3. field[n] \in Piece
    BY <1>1, <1>3
  <2>4. QED
    BY <1>3, <2>2, <2>3
<1>9. PICK x \in Nat : x = p.from + p.len
  BY DEF Piece
<1>10. Stop(p, all) = <<e + 1, 0>> \/ Stop(p, all) = <<e, x>>
  BY <1>8, <1>9 DEF Stop
<1>11. QED
  BY <1>2, <1>6, <1>7, <1>8, <1>10

\* A lost PDU is passed over.
LEMMA SkipField ==
    ASSUME NEW all \in Seq(Nat \ {0}), NEW d \in Seq(Seq(Piece)),
           NEW field \in Seq(Piece), FieldOK(field, all),
           NEW kept, NEW lost, Reached(d, Start(field[1]), kept, lost, all),
           SdusIn(field) \subseteq lost
    PROVE  Reached(d, Stop(field[Len(field)], all), FALSE, lost, all)
<1> DEFINE stop == Stop(field[Len(field)], all)
<1>1. PICK s \in Nat \ {0}, e \in Nat, x \in Nat :
         /\ field[1].sdu = s /\ s <= e + 1 /\ e \in SdusIn(field)
         /\ SdusIn(field) = s .. e
         /\ stop = <<e + 1, 0>> \/ stop = <<e, x>>
  BY FieldEnds
<1>2. s <= e
  BY <1>1
<1>3. /\ DeliveredOK(d, s, all)
      /\ 1 .. s - 1 \subseteq lost \cup DeliveredSdus(d)
  BY <1>1 DEF Reached, AccountedFor, Start
<1>4. s .. e \subseteq lost /\ e \in lost
  BY <1>1
<1> HIDE DEF stop
<1>5. CASE stop = <<e + 1, 0>>
  <2>1. PICK c \in Nat : c = e + 1 /\ s <= c
    BY <1>2
  <2>2. DeliveredOK(d, c, all)
    BY <1>3, <2>1, DeliveredBefore
  <2>3. stop[1] = c /\ stop[2] = 0
    BY <1>5, <2>1
  <2>4. 1 .. c - 1 = (1 .. s - 1) \cup (s .. e)
    BY <1>2, <2>1
  <2>5. 1 .. c - 1 \subseteq lost \cup DeliveredSdus(d)
    BY <1>3, <1>4, <2>4
  <2>6. QED
    BY <2>2, <2>3, <2>5 DEF Reached, AccountedFor, stop
<1>6. CASE stop = <<e, x>>
  <2>1. DeliveredOK(d, e, all)
    BY <1>2, <1>3, DeliveredBefore
  <2>2. stop[1] = e /\ stop[2] = x
    BY <1>6
  <2>3. 1 .. e - 1 \subseteq (1 .. s - 1) \cup (s .. e)
    BY <1>2
  <2>4. 1 .. e - 1 \subseteq lost \cup DeliveredSdus(d)
    BY <1>3, <1>4, <2>3
  <2>5. QED
    BY <1>4, <2>1, <2>2, <2>4 DEF Reached, AccountedFor, stop
<1>7. QED
  BY <1>1, <1>5, <1>6

\* So are any number of them, from PDU m up to PDU n.
LEMMA SkipFields ==
    ASSUME NEW all \in Seq(Nat \ {0}), NEW d \in Seq(Seq(Piece)),
           NEW h \in Seq(Seq(Piece)), NEW next, HistoryOK(h, next, all),
           NEW m \in 1 .. Len(h) + 1, NEW n \in 1 .. Len(h) + 1, m <= n,
           NEW kept, NEW lost, Reached(d, At(h, next, m), kept, lost, all),
           \A i \in m .. n - 1 : SdusIn(h[i]) \subseteq lost
    PROVE  Reached(d, At(h, next, n), kept /\ n = m, lost, all)
<1> DEFINE Holds(j) == Reached(d, At(h, next, j), kept /\ j = m, lost, all)
           Bad == {j \in m .. n : ~Holds(j)}
<1>1. Len(h) \in Nat /\ m \in Nat /\ n \in Nat /\ n \in m .. n
  OBVIOUS
<1>2. SUFFICES ASSUME Bad # {} PROVE FALSE
  <2> HIDE DEF Holds
  <2>1. Holds(n)
    BY <1>1, <1>2
  <2>2. QED
    BY <2>1 DEF Holds
<1>3. Bad \in SUBSET Nat
  BY <1>1
<1>4. PICK j \in Bad : \A i \in Bad : j <= i
  <2> HIDE DEF Bad
  <2>1. QED
    BY <1>2, <1>3, LeastNat
<1>5. Holds(m)
  BY DEF Reached, AccountedFor
<1>6. j # m /\ j \in m .. n
  <2> HIDE DEF Holds
  <2>1. QED
    BY <1>4, <1>5
<1>7. PICK i \in Nat : /\ i + 1 = j /\ i \in m .. n /\ i \in m .. n - 1 /\ i \in 1 .. Len(h)
                       /\ i < j
  <2>1. /\ j - 1 \in Nat /\ (j - 1) + 1 = j /\ j - 1 \in m .. n /\ j - 1 \in m .. n - 1
        /\ j - 1 \in 1 .. Len(h) /\ j - 1 < j
    BY <1>1, <1>6
  <2>2. QED
    BY <2>1
<1>8. Holds(i)
  <2> HIDE DEF Holds
  <2>1. i \notin Bad
    <3>1. j \in Nat /\ ~(j <= i)
      BY <1>1, <1>6, <1>7
    <3>2. QED
      BY <1>4, <3>1
  <2>2. QED
    BY <1>7, <2>1
<1>9. PICK field \in Seq(Piece) : field = h[i]
  <2>1. h[i] \in Seq(Piece)
    BY <1>7
  <2>2. QED
    BY <2>1
<1>10. /\ FieldOK(field, all) /\ At(h, next, i) = Start(field[1])
       /\ At(h, next, j) = Stop(field[Len(field)], all)
       /\ SdusIn(field) \subseteq lost
  <2>1. FieldOK(h[i], all) /\ At(h, next, i + 1) = Stop(h[i][Len(h[i])], all)
    BY <1>7 DEF HistoryOK
  <2>2. ~(i > Len(h))
    BY <1>1, <1>7
  <2>3. QED
    BY <1>7, <1>9, <2>1, <2>2 DEF At
<1>11. Reached(d, Start(field[1]), kept /\ i = m, lost, all)
  BY <1>8, <1>10
<1>12. Reached(d, At(h, next, j), FALSE, lost, all)
  <2>1. Reached(d, Stop(field[Len(field)], all), FALSE, lost, all)
    BY <1>10, <1>11, SkipField
  <2>2. QED
    BY <1>10, <2>1
<1>13. Holds(j)
  BY <1>12 DEF Reached, AccountedFor
<1>14. QED
  BY <1>4, <1>13

---------------------------------------------------------------------------
(*************************************************************************)
(* Several PDUs at once: FoldLeft takes the indices of a sequence from the *)
(* greatest down, by a function on all sets of them.                     *)
(*************************************************************************)

\* g has the state of the reassembly after the PDUs of q for the sets of D of their
\* indices, as FoldLeft computes it from r.
Hands(g, r, q, D) ==
    g = [s \in D |-> IF s = {} THEN r ELSE ReassembleAndDeliver(g[s \ {Max(s)}], q[Max(s)])]

\* There is such a function for all sets of the first n indices.
LEMMA HandingExists ==
    ASSUME NEW r, NEW q, NEW n \in Nat
    PROVE  \E g : Hands(g, r, q, SUBSET (1 .. n))
<1> DEFINE Small(m) == {s \in SUBSET (1 .. n) : Cardinality(s) <= m}
           Bad == {m \in Nat : ~ \E g : Hands(g, r, q, Small(m))}
<1>1. \A s \in SUBSET (1 .. n) : /\ IsFiniteSet(s) /\ Cardinality(s) \in Nat
                                 /\ Cardinality(s) <= n
  <2>1. IsFiniteSet(1 .. n) /\ Cardinality(1 .. n) = n
    <3>1. 1 \in Int /\ n \in Int
      OBVIOUS
    <3>2. IsFiniteSet(1 .. n) /\ Cardinality(1 .. n) = IF 1 > n THEN 0 ELSE n - 1 + 1
      BY <3>1, FS_Interval
    <3>3. QED
      BY <3>2
  <2>2. TAKE s \in SUBSET (1 .. n)
  <2>3. IsFiniteSet(s) /\ Cardinality(s) <= Cardinality(1 .. n)
    BY <2>1, FS_Subset
  <2>4. QED
    BY <2>1, <2>3, FS_CardinalityType
<1>2. \E g : Hands(g, r, q, Small(0))
  <2>1. \A s \in SUBSET (1 .. n) : Cardinality(s) = 0 <=> s = {}
    BY <1>1, FS_EmptySet
  <2>2. Small(0) = {{}}
    BY <1>1, <2>1
  <2>3. Hands([s \in {{}} |-> r], r, q, {{}})
    BY DEF Hands
  <2>4. QED
    BY <2>2, <2>3
<1>3. ASSUME NEW m \in Nat, NEW g, Hands(g, r, q, Small(m))
      PROVE  \E h : Hands(h, r, q, Small(m + 1))
  <2> DEFINE h == [s \in Small(m + 1) |->
                     IF s = {} THEN r ELSE ReassembleAndDeliver(g[s \ {Max(s)}], q[Max(s)])]
  <2>1. ASSUME NEW s \in Small(m + 1), s # {}
        PROVE  h[s \ {Max(s)}] = g[s \ {Max(s)}]
    <3> DEFINE t == s \ {Max(s)}
    <3>1. Max(s) \in s
      BY <2>1, MaxOfSome
    <3>2. Cardinality(t) = Cardinality(s) - 1
      BY <1>1, <3>1, FS_RemoveElement
    <3>3. t \in Small(m) /\ t \in Small(m + 1)
      <4>1. t \in SUBSET (1 .. n) /\ s \in SUBSET (1 .. n) /\ Cardinality(s) <= m + 1
        OBVIOUS
      <4>2. Cardinality(s) \in Nat
        BY <1>1, <4>1
      <4> HIDE DEF t
      <4>3. Cardinality(t) <= m /\ Cardinality(t) <= m + 1
        BY <3>2, <4>1, <4>2
      <4>4. QED
        BY <4>1, <4>3
    <3>4. g[t] = IF t = {} THEN r ELSE ReassembleAndDeliver(g[t \ {Max(t)}], q[Max(t)])
      <4> HIDE DEF t, Small
      <4>1. QED
        BY <1>3, <3>3 DEF Hands
    <3>5. h[t] = IF t = {} THEN r ELSE ReassembleAndDeliver(g[t \ {Max(t)}], q[Max(t)])
      BY <3>3
    <3>6. QED
      BY <3>4, <3>5
  <2>2. h = [s \in Small(m + 1) |->
               IF s = {} THEN r ELSE ReassembleAndDeliver(h[s \ {Max(s)}], q[Max(s)])]
    BY <2>1
  <2> HIDE DEF h
  <2>3. QED
    BY <2>2 DEF Hands
<1>4. Bad = {}
  <2>1. SUFFICES ASSUME Bad # {} PROVE FALSE
    OBVIOUS
  <2>2. Bad \in SUBSET Nat
    OBVIOUS
  <2>3. PICK m \in Bad : \A k \in Bad : m <= k
    <3> HIDE DEF Bad
    <3>1. QED
      BY <2>1, <2>2, LeastNat
  <2>4. m \in Nat /\ m # 0
    BY <1>2
  <2>5. m - 1 \in Nat /\ m - 1 \notin Bad
    <3> HIDE DEF Bad
    <3>1. QED
      BY <2>3, <2>4
  <2>6. PICK g : Hands(g, r, q, Small(m - 1))
    BY <2>5
  <2>7. \E h : Hands(h, r, q, Small((m - 1) + 1))
    BY <1>3, <2>5, <2>6
  <2>8. (m - 1) + 1 = m
    BY <2>4
  <2>9. QED
    BY <2>3, <2>7, <2>8
<1>5. Small(n) = SUBSET (1 .. n)
  BY <1>1
<1>6. QED
  BY <1>4, <1>5

\* For the first indices it is the state after one more PDU.
InSteps(g, r, q, n) ==
    /\ g[1 .. 0] = r
    /\ \A k \in 1 .. n : g[1 .. k] = ReassembleAndDeliver(g[1 .. (k - 1)], q[k])

\* That is what such a function is for them.
LEMMA HandingFirst ==
    ASSUME NEW r, NEW q, NEW n \in Nat, NEW g, Hands(g, r, q, SUBSET (1 .. n))
    PROVE  InSteps(g, r, q, n)
<1>1. \A s \in SUBSET (1 .. n) :
         g[s] = IF s = {} THEN r ELSE ReassembleAndDeliver(g[s \ {Max(s)}], q[Max(s)])
  BY DEF Hands
<1>2. g[1 .. 0] = r
  <2>1. 1 .. 0 = {} /\ {} \in SUBSET (1 .. n)
    OBVIOUS
  <2>2. g[{}] = r
    BY <1>1, <2>1
  <2>3. QED
    BY <2>1, <2>2
<1>3. ASSUME NEW k \in 1 .. n
      PROVE  g[1 .. k] = ReassembleAndDeliver(g[1 .. (k - 1)], q[k])
  <2>1. 1 .. k \in SUBSET (1 .. n) /\ 1 .. k # {} /\ k \in Nat \ {0}
    OBVIOUS
  <2>2. g[1 .. k] = ReassembleAndDeliver(g[(1 .. k) \ {Max(1 .. k)}], q[Max(1 .. k)])
    BY <1>1, <2>1
  <2>3. QED
    BY <2>1, <2>2, MaxOfAll
<1>4. QED
  BY <1>2, <1>3 DEF InSteps

\* One PDU of a sequence is reassembled after the other.
OneByOne(g, r, q, n) ==
    /\ g[0] = r
    /\ \A k \in 1 .. n : g[k] = ReassembleAndDeliver(g[k - 1], q[k])
    /\ FoldLeft(ReassembleAndDeliver, r, q) = g[n]

\* FoldLeft hands over the PDUs of a sequence in its order.
LEMMA HandedOneByOne ==
    ASSUME NEW r, NEW n \in Nat, NEW q, DOMAIN q = 1 .. n
    PROVE  \E g : OneByOne(g, r, q, n)
<1>1. PICK f : /\ Hands(f, r, q, SUBSET (1 .. n))
               /\ FoldLeft(ReassembleAndDeliver, r, q) = f[1 .. n]
  <2>1. \E f : Hands(f, r, q, SUBSET (1 .. n))
    BY HandingExists
  <2>2. (\E f : Hands(f, r, q, SUBSET DOMAIN q)) =>
        \E f : Hands(f, r, q, SUBSET DOMAIN q) /\
               FoldLeft(ReassembleAndDeliver, r, q) = f[DOMAIN q]
    BY DEF FoldLeft, MapThenFoldSet, Hands
  <2>3. QED
    BY <2>1, <2>2
<1>2. /\ f[1 .. 0] = r
      /\ \A k \in 1 .. n : f[1 .. k] = ReassembleAndDeliver(f[1 .. (k - 1)], q[k])
  <2>1. InSteps(f, r, q, n)
    BY <1>1, HandingFirst
  <2>2. QED
    BY <2>1 DEF InSteps
<1> DEFINE g == [k \in 0 .. n |-> f[1 .. k]]
<1>3. g[0] = r /\ g[n] = f[1 .. n]
  BY <1>2
<1>4. ASSUME NEW k \in 1 .. n PROVE g[k] = ReassembleAndDeliver(g[k - 1], q[k])
  <2>1. k \in 0 .. n /\ k - 1 \in 0 .. n
    OBVIOUS
  <2>2. g[k] = f[1 .. k] /\ g[k - 1] = f[1 .. (k - 1)]
    BY <2>1
  <2>3. QED
    BY <1>2, <2>2
<1> HIDE DEF g
<1>5. OneByOne(g, r, q, n)
  BY <1>1, <1>3, <1>4 DEF OneByOne
<1>6. QED
  BY <1>5

\* The reassembly expects PDU m.
Stands(r, m, h, next, all, lost) ==
    /\ r \in Reassembly /\ Below(r.expected) = (built + 1) - m
    /\ KeptOK(r, At(h, next, m))
    /\ Reached(r.delivered, At(h, next, m), r.waitsRest, lost, all)

\* The data fields of all the PDUs built.
Fields(h, next, all) ==
    /\ h \in Seq(Seq(Piece)) /\ Len(h) = built /\ all \in Seq(Nat \ {0})
    /\ HistoryOK(h, next, all)

\* A PDU with the field and the SN of its number.
Numbered(pdu, h) ==
    /\ pdu \in UmPdus /\ pdu.n \in 1 .. built
    /\ pdu.field = h[pdu.n] /\ Below(pdu.sn) = (built + 1) - pdu.n

\* PDU n is reassembled when PDU m is expected and what is between them is lost.
LEMMA StandsNext ==
    ASSUME UmTypes, NEW h, NEW next, NEW all, Fields(h, next, all),
           NEW m \in Nat, NEW r, NEW lost, Stands(r, m, h, next, all, lost),
           NEW pdu, Numbered(pdu, h), 1 <= m, m <= pdu.n,
           \A i \in m .. pdu.n - 1 : SdusIn(h[i]) \subseteq lost
    PROVE  Stands(ReassembleAndDeliver(r, pdu), pdu.n + 1, h, next, all, lost)
<1> DEFINE after == ReassembleAndDeliver(r, pdu)
<1>1. PICK n \in 1 .. built, field \in Seq(Piece) :
         /\ n = pdu.n /\ field = pdu.field /\ field = h[n]
         /\ pdu \in UmPdus /\ pdu.sn \in SN /\ Below(pdu.sn) = (built + 1) - n
  <2>1. pdu.n \in 1 .. built /\ pdu.field \in Seq(Piece) /\ pdu.sn \in SN /\ pdu \in UmPdus
    BY DEF Numbered, UmPdus
  <2>2. pdu.field = h[pdu.n] /\ Below(pdu.sn) = (built + 1) - pdu.n
    BY DEF Numbered
  <2>3. QED
    BY <2>1, <2>2
<1>2. /\ h \in Seq(Seq(Piece)) /\ Len(h) = built /\ all \in Seq(Nat \ {0})
      /\ HistoryOK(h, next, all) /\ built \in Nat
  BY DEF Fields, UmTypes
<1>3. /\ r \in Reassembly /\ Below(r.expected) = (built + 1) - m
      /\ KeptOK(r, At(h, next, m))
      /\ Reached(r.delivered, At(h, next, m), r.waitsRest, lost, all)
  BY DEF Stands
<1>4. /\ r.expected \in SN /\ r.delivered \in Seq(Seq(Piece)) /\ r.waitsRest \in BOOLEAN
  BY <1>3 DEF Reassembly
<1>5. /\ FieldOK(field, all) /\ At(h, next, n) = Start(field[1])
      /\ At(h, next, n + 1) = Stop(field[Len(field)], all)
  <2>1. FieldOK(h[n], all) /\ At(h, next, n + 1) = Stop(h[n][Len(h[n])], all)
    BY <1>1, <1>2 DEF HistoryOK
  <2>2. ~(n > Len(h))
    BY <1>1, <1>2
  <2>3. QED
    BY <1>1, <2>1, <2>2 DEF At
<1>6. pdu.sn = r.expected <=> n = m
  <2>1. n = m => pdu.sn = r.expected
    <3>1. SUFFICES ASSUME n = m PROVE pdu.sn = r.expected
      OBVIOUS
    <3>2. Below(pdu.sn) = Below(r.expected)
      BY <1>1, <1>3, <3>1
    <3>3. sequenceNumber \in SN
      BY DEF UmTypes
    <3>4. Rel(sequenceNumber, pdu.sn) = Rel(sequenceNumber, r.expected)
      BY <3>2 DEF Below
    <3>5. \A t, u, v \in SN : Rel(t, u) = Rel(t, v) => u = v
      BY SequenceNumberAssumption DEF SN, Rel
    <3>6. QED
      BY <1>1, <1>4, <3>3, <3>4, <3>5
  <2>2. pdu.sn = r.expected => n = m
    BY <1>1, <1>2, <1>3
  <2>3. QED
    BY <2>1, <2>2
<1>7. Reached(r.delivered, Start(field[1]), r.waitsRest /\ pdu.sn = r.expected, lost, all)
  <2>1. m \in 1 .. Len(h) + 1 /\ n \in 1 .. Len(h) + 1 /\ m <= n
    BY <1>1, <1>2
  <2>2. \A i \in m .. n - 1 : SdusIn(h[i]) \subseteq lost
    BY <1>1
  <2>3. Reached(r.delivered, At(h, next, n), r.waitsRest /\ n = m, lost, all)
    BY <1>2, <1>3, <1>4, <2>1, <2>2, SkipFields
  <2>4. Reached(r.delivered, Start(field[1]), r.waitsRest /\ n = m, lost, all)
    BY <1>5, <2>3
  <2>5. (r.waitsRest /\ n = m) = (r.waitsRest /\ pdu.sn = r.expected)
    BY <1>4, <1>6
  <2>6. QED
    BY <2>4, <2>5
<1>8. Continues(r, pdu, At(h, next, m))
  BY <1>1, <1>5, <1>6 DEF Continues
<1>9. /\ DeliveredOK(r.delivered, pdu.field[1].sdu, all)
      /\ AccountedFor(r.delivered, Start(pdu.field[1]),
                      r.waitsRest /\ pdu.sn = r.expected, lost)
  <2>1. Start(field[1])[1] = field[1].sdu
    BY DEF Start
  <2>2. QED
    BY <1>1, <1>7, <2>1 DEF Reached
<1>10. /\ after \in Reassembly /\ after.expected = Inc(pdu.sn)
       /\ KeptOK(after, At(h, next, n + 1))
       /\ DeliveredOK(after.delivered, At(h, next, n + 1)[1], all)
       /\ AccountedFor(after.delivered, At(h, next, n + 1), after.waitsRest, lost)
  <2>1. SkipsUnexpectedRest /\ FieldOK(pdu.field, all)
    BY <1>1, <1>5, UmAssumption
  <2> DEFINE pos == At(h, next, m)
             stop == Stop(pdu.field[Len(pdu.field)], all)
  <2>2. KeptOK(r, pos) /\ Continues(r, pdu, pos)
    BY <1>3, <1>8
  <2> HIDE DEF pos
  <2>3. /\ after \in Reassembly /\ after.expected = Inc(pdu.sn)
        /\ KeptOK(after, stop)
        /\ DeliveredOK(after.delivered, stop[1], all)
        /\ AccountedFor(after.delivered, stop, after.waitsRest, lost)
    BY <1>1, <1>2, <1>3, <1>9, <2>1, <2>2, TakesField
  <2>4. stop = At(h, next, n + 1)
    BY <1>1, <1>5
  <2> HIDE DEF stop, after
  <2>5. QED
    BY <2>3, <2>4
<1> HIDE DEF after
<1>11. Below(after.expected) = (built + 1) - (n + 1)
  <2>1. 1 <= Below(pdu.sn)
    BY <1>1, <1>2
  <2>2. Below(Inc(pdu.sn)) = Below(pdu.sn) - 1
    BY <1>1, <2>1, BelowInc
  <2>3. QED
    BY <1>1, <1>2, <1>10, <2>2
<1>12. Stands(after, n + 1, h, next, all, lost)
  BY <1>10, <1>11 DEF Stands, Reached
<1>13. QED
  BY <1>1, <1>12 DEF after

\* The PDUs of q, in the order of their numbers, are those from m up to before to
\* that are not lost, and the last is there.
Batch(q, N, m, to, h, lost) ==
    /\ \A i \in 1 .. N : Numbered(q[i], h) /\ m <= q[i].n /\ q[i].n < to
    /\ \A i, j \in 1 .. N : i < j => q[i].n < q[j].n
    /\ \A x \in m .. to - 1 : (\E i \in 1 .. N : q[i].n = x) \/ SdusIn(h[x]) \subseteq lost
    /\ IF N = 0 THEN to = m ELSE to = q[N].n + 1

\* They are reassembled one after the other.
LEMMA StandsBatch ==
    ASSUME UmTypes, NEW h, NEW next, NEW all, Fields(h, next, all),
           NEW m \in Nat \ {0}, NEW to, NEW r, NEW lost, Stands(r, m, h, next, all, lost),
           NEW N \in Nat, NEW q, DOMAIN q = 1 .. N, Batch(q, N, m, to, h, lost)
    PROVE  Stands(FoldLeft(ReassembleAndDeliver, r, q), to, h, next, all, lost)
<1>1. PICK g : /\ g[0] = r
               /\ \A k \in 1 .. N : g[k] = ReassembleAndDeliver(g[k - 1], q[k])
               /\ FoldLeft(ReassembleAndDeliver, r, q) = g[N]
  <2>1. PICK g : OneByOne(g, r, q, N)
    BY HandedOneByOne
  <2>2. QED
    BY <2>1 DEF OneByOne
<1>2. /\ \A i \in 1 .. N : /\ Numbered(q[i], h) /\ m <= q[i].n /\ q[i].n < to
                           /\ q[i].n \in Nat
      /\ \A i, j \in 1 .. N : i < j => q[i].n < q[j].n
      /\ \A x \in m .. to - 1 : (\E i \in 1 .. N : q[i].n = x) \/ SdusIn(h[x]) \subseteq lost
      /\ N = 0 => to = m
      /\ N # 0 => to = q[N].n + 1
  <2>1. \A i \in 1 .. N : q[i].n \in Nat
    <3>1. TAKE i \in 1 .. N
    <3>2. Numbered(q[i], h)
      BY DEF Batch
    <3>3. q[i] \in UmPdus
      BY <3>2 DEF Numbered
    <3>4. QED
      BY <3>3 DEF UmPdus
  <2>2. QED
    BY <2>1 DEF Batch
<1> DEFINE Expected(k) == IF k = 0 THEN m ELSE q[k].n + 1
           Holds(k) == Stands(g[k], Expected(k), h, next, all, lost)
           Bad == {k \in 0 .. N : ~Holds(k)}
<1>3. Bad = {}
  <2>1. SUFFICES ASSUME Bad # {} PROVE FALSE
    OBVIOUS
  <2>2. Bad \in SUBSET Nat
    OBVIOUS
  <2>3. PICK k \in Bad : \A i \in Bad : k <= i
    <3> HIDE DEF Bad
    <3>1. QED
      BY <2>1, <2>2, LeastNat
  <2>4. Holds(0)
    BY <1>1
  <2>5. k # 0 /\ k \in 0 .. N
    <3> HIDE DEF Holds
    <3>1. QED
      BY <2>3, <2>4
  <2>6. PICK i \in Nat : i + 1 = k /\ i = k - 1 /\ i \in 0 .. N /\ i < k /\ k \in 1 .. N
    <3>1. /\ k - 1 \in Nat /\ (k - 1) + 1 = k /\ k - 1 \in 0 .. N /\ k - 1 < k /\ k \in 1 .. N
      BY <2>5
    <3>2. QED
      BY <3>1
  <2>7. Holds(i)
    <3> HIDE DEF Holds
    <3>1. i \notin Bad
      <4>1. k \in Nat /\ ~(k <= i)
        BY <2>5, <2>6
      <4>2. QED
        BY <2>3, <4>1
    <3>2. QED
      BY <2>6, <3>1
  <2>8. PICK n \in Nat : n = q[k].n /\ m <= n /\ n < to
    BY <1>2, <2>6
  <2>9. to \in Int
    <3>1. N # 0 /\ N \in 1 .. N
      BY <2>6
    <3>2. to = q[N].n + 1 /\ q[N].n \in Nat
      BY <1>2, <3>1
    <3>3. QED
      BY <3>2
  <2>10. PICK e \in Nat : /\ e = Expected(i) /\ m <= e /\ e <= n
                         /\ \A j \in 1 .. N : j <= i => q[j].n < e
    <3>1. CASE i = 0
      BY <2>8, <3>1
    <3>2. CASE i # 0
      <4>1. i \in 1 .. N
        BY <2>6, <3>2
      <4>2. PICK x \in Nat : x = q[i].n /\ m <= x
        BY <1>2, <4>1
      <4>3. x < n
        BY <1>2, <2>6, <2>8, <4>1, <4>2
      <4>4. ASSUME NEW j \in 1 .. N, j <= i PROVE q[j].n < x + 1
        <5>1. j = i \/ j < i
          BY <2>6, <4>4
        <5>2. PICK y \in Nat : y = q[j].n
          BY <1>2
        <5>3. y <= x
          BY <1>2, <4>1, <4>2, <5>1, <5>2
        <5>4. QED
          BY <5>2, <5>3
      <4>5. Expected(i) = x + 1 /\ m <= x + 1 /\ x + 1 <= n /\ x + 1 \in Nat
        BY <3>2, <4>2, <4>3
      <4> HIDE DEF Expected
      <4>6. QED
        BY <4>4, <4>5
    <3>3. QED
      BY <3>1, <3>2
  <2>11. Stands(g[i], e, h, next, all, lost)
    BY <2>7, <2>10
  <2>12. ASSUME NEW x \in e .. n - 1 PROVE SdusIn(h[x]) \subseteq lost
    <3>1. x \in m .. to - 1 /\ x \in Nat /\ e <= x /\ x < n
      BY <2>8, <2>9, <2>10
    <3>2. ASSUME NEW j \in 1 .. N, q[j].n = x PROVE FALSE
      <4>1. j <= i \/ j = k \/ k < j
        BY <2>6
      <4>2. CASE j <= i
        BY <2>10, <3>1, <3>2, <4>2
      <4>3. CASE j = k
        BY <2>8, <3>1, <3>2, <4>3
      <4>4. CASE k < j
        <5>1. n < x
          BY <1>2, <2>6, <2>8, <3>2, <4>4
        <5>2. QED
          BY <3>1, <5>1
      <4>5. QED
        BY <4>1, <4>2, <4>3, <4>4
    <3>3. QED
      BY <1>2, <3>1, <3>2
  <2>13. PICK pdu : pdu = q[k] /\ Numbered(pdu, h)
    BY <1>2, <2>6
  <2>14. Stands(ReassembleAndDeliver(g[i], pdu), n + 1, h, next, all, lost)
    <3>1. pdu.n = n
      BY <2>8, <2>13
    <3>2. 1 <= e /\ e <= pdu.n
      BY <2>10, <3>1
    <3>3. \A x \in e .. pdu.n - 1 : SdusIn(h[x]) \subseteq lost
      BY <2>12, <3>1
    <3>4. Stands(ReassembleAndDeliver(g[i], pdu), pdu.n + 1, h, next, all, lost)
      BY <2>11, <2>13, <3>2, <3>3, StandsNext
    <3>5. QED
      BY <3>1, <3>4
  <2>15. g[k] = ReassembleAndDeliver(g[i], pdu) /\ Expected(k) = n + 1
    BY <1>1, <2>5, <2>6, <2>8, <2>13
  <2>16. Holds(k)
    BY <2>14, <2>15
  <2>17. QED
    BY <2>3, <2>16
<1>4. Holds(N)
  BY <1>3
<1>5. Expected(N) = to
  BY <1>2
<1>6. QED
  BY <1>1, <1>4, <1>5

---------------------------------------------------------------------------
(*************************************************************************)
(* The order of InOrder.                                                 *)
(*************************************************************************)

\* InOrder has every PDU of the set once, by the SN above the base, if their SNs
\* differ.
LEMMA Ordered ==
    ASSUME NEW pdus, IsFiniteSet(pdus), NEW base,
           \A p \in pdus : Rel(p.sn, base) \in Nat,
           \A p, q \in pdus : Rel(p.sn, base) = Rel(q.sn, base) => p = q
    PROVE  LET seq == InOrder(pdus, base)
           IN  /\ Cardinality(pdus) \in Nat /\ seq \in [1 .. Cardinality(pdus) -> pdus]
               /\ \A p \in pdus : \E i \in 1 .. Cardinality(pdus) : seq[i] = p
               /\ \A i, j \in 1 .. Cardinality(pdus) :
                     i < j => Rel(seq[i].sn, base) < Rel(seq[j].sn, base)
<1> DEFINE Key(p) == Rel(p.sn, base)
           N == Cardinality(pdus)
           D == 1 .. N
           Lower(p) == {q \in pdus : Key(q) < Key(p)}
           rank == [p \in pdus |-> Cardinality(Lower(p)) + 1]
<1>1. /\ \A p \in pdus : Key(p) \in Nat
      /\ \A p, q \in pdus : Key(p) = Key(q) => p = q
  OBVIOUS
<1>2. N \in Nat /\ IsFiniteSet(D) /\ Cardinality(D) = N
  <2>1. N \in Nat
    BY FS_CardinalityType
  <2>2. IsFiniteSet(D) /\ Cardinality(D) = IF 1 > N THEN 0 ELSE N - 1 + 1
    BY <2>1, FS_Interval
  <2>3. QED
    BY <2>1, <2>2
<1>3. ASSUME NEW p \in pdus
      PROVE  /\ IsFiniteSet(Lower(p)) /\ Cardinality(Lower(p)) \in Nat
             /\ Cardinality(Lower(p)) < N
  <2>1. Lower(p) \subseteq pdus /\ p \notin Lower(p)
    BY <1>1
  <2>2. IsFiniteSet(Lower(p)) /\ Cardinality(Lower(p)) <= N
        /\ (Cardinality(Lower(p)) = N => Lower(p) = pdus)
    BY <2>1, FS_Subset
  <2>3. Cardinality(Lower(p)) \in Nat
    BY <2>2, FS_CardinalityType
  <2>4. Cardinality(Lower(p)) # N
    BY <2>1, <2>2
  <2>5. QED
    BY <1>2, <2>2, <2>3, <2>4
<1>4. ASSUME NEW p \in pdus, NEW q \in pdus, Key(p) < Key(q)
      PROVE  Cardinality(Lower(p)) < Cardinality(Lower(q))
  <2>1. Lower(p) \subseteq Lower(q)
    BY <1>1, <1>4
  <2>2. p \in Lower(q) /\ p \notin Lower(p)
    BY <1>1, <1>4
  <2> HIDE DEF Lower
  <2>3. /\ Cardinality(Lower(p)) <= Cardinality(Lower(q))
        /\ Cardinality(Lower(p)) = Cardinality(Lower(q)) => Lower(p) = Lower(q)
    BY <1>3, <2>1, FS_Subset
  <2>4. Cardinality(Lower(p)) # Cardinality(Lower(q))
    BY <2>2, <2>3
  <2>5. QED
    BY <1>3, <2>3, <2>4
<1>5. rank \in [pdus -> D]
  <2>1. ASSUME NEW p \in pdus PROVE Cardinality(Lower(p)) + 1 \in D
    <3> HIDE DEF Lower, N
    <3>1. PICK c \in Nat : c = Cardinality(Lower(p)) /\ c < N
      BY <1>3
    <3>2. c + 1 \in D
      BY <1>2, <3>1
    <3>3. QED
      BY <3>1, <3>2
  <2> HIDE DEF D, Lower
  <2>2. QED
    BY <2>1
<1>6. \A p, q \in pdus : Key(p) < Key(q) => rank[p] < rank[q]
  <2>1. SUFFICES ASSUME NEW p \in pdus, NEW q \in pdus, Key(p) < Key(q)
                 PROVE  rank[p] < rank[q]
    OBVIOUS
  <2> HIDE DEF Lower, Key
  <2>2. Cardinality(Lower(p)) < Cardinality(Lower(q))
    BY <1>4, <2>1
  <2>3. Cardinality(Lower(p)) \in Nat /\ Cardinality(Lower(q)) \in Nat
    BY <1>3
  <2>4. QED
    BY <2>2, <2>3
<1> HIDE DEF rank, Key, Lower, N, D
<1>7. \A p \in pdus : rank[p] \in Nat
  BY <1>2, <1>5 DEF D
<1>8. rank \in Injection(pdus, D)
  <2>1. ASSUME NEW p \in pdus, NEW q \in pdus, rank[p] = rank[q]
        PROVE  p = q
    <3>1. ~(Key(p) < Key(q)) /\ ~(Key(q) < Key(p))
      BY <1>6, <1>7, <2>1
    <3>2. Key(p) = Key(q)
      BY <1>1, <3>1
    <3>3. QED
      BY <1>1, <3>2
  <2>2. QED
    BY <1>5, <2>1 DEF Injection, IsInjective
<1>9. \A i \in D : \E p \in pdus : rank[p] = i
  <2>1. rank \in Surjection(pdus, D)
    BY <1>2, <1>8, FS_Injection DEF N
  <2>2. QED
    BY <2>1 DEF Surjection
<1> DEFINE Sorted(seq) == \A i, j \in DOMAIN seq :
              i < j => Rel(seq[i].sn, base) <= Rel(seq[j].sn, base)
<1>10. \E seq \in SetToSeqs(pdus) : Sorted(seq)
  <2> DEFINE seq == [i \in D |-> CHOOSE p \in pdus : rank[p] = i]
  <2>1. \A i \in D : seq[i] \in pdus /\ rank[seq[i]] = i
    BY <1>9
  <2>2. seq \in [D -> pdus]
    BY <1>9
  <2> HIDE DEF seq
  <2>3. \A i, j \in D : i # j => seq[i] # seq[j]
    BY <2>1
  <2>4. seq \in SetToSeqs(pdus)
    BY <2>2, <2>3 DEF SetToSeqs, D, N
  <2>5. ASSUME NEW i \in D, NEW j \in D, i < j
        PROVE  Rel(seq[i].sn, base) <= Rel(seq[j].sn, base)
    <3>1. ~(Key(seq[j]) < Key(seq[i]))
      <4>1. rank[seq[i]] = i /\ rank[seq[j]] = j /\ i \in Nat /\ j \in Nat
        BY <1>2, <2>1 DEF D
      <4>2. QED
        BY <1>6, <2>1, <2>5, <4>1
    <3>2. Key(seq[i]) \in Nat /\ Key(seq[j]) \in Nat
      BY <1>1, <2>1
    <3>3. QED
      BY <3>1, <3>2 DEF Key
  <2>6. DOMAIN seq = D
    BY <2>2
  <2>7. QED
    BY <2>4, <2>5, <2>6
<1> DEFINE s == InOrder(pdus, base)
<1>11. s \in SetToSeqs(pdus) /\ Sorted(s)
  BY <1>10 DEF InOrder
<1> HIDE DEF s
<1>12. s \in [D -> pdus] /\ \A i, j \in D : i # j => s[i] # s[j]
  BY <1>11 DEF SetToSeqs, D, N
<1>13. \A p \in pdus : \E i \in D : s[i] = p
  <2>1. s \in Injection(D, pdus)
    BY <1>12 DEF Injection, IsInjective
  <2>2. s \in Surjection(D, pdus)
    BY <1>2, <2>1, FS_Injection DEF N
  <2>3. QED
    BY <2>2 DEF Surjection
<1>14. ASSUME NEW i \in D, NEW j \in D, i < j
       PROVE  Rel(s[i].sn, base) < Rel(s[j].sn, base)
  <2>1. Key(s[i]) <= Key(s[j])
    BY <1>11, <1>12, <1>14 DEF Key
  <2>2. i # j
    BY <1>2, <1>14 DEF D
  <2>3. Key(s[i]) # Key(s[j]) /\ Key(s[i]) \in Nat /\ Key(s[j]) \in Nat
    BY <1>1, <1>12, <2>2
  <2>4. QED
    BY <2>1, <2>3 DEF Key
<1>15. QED
  BY <1>2, <1>12, <1>13, <1>14 DEF s, D, N

---------------------------------------------------------------------------
(*************************************************************************)
(* The invariant of the SDUs.                                            *)
(*************************************************************************)

\* The number of the PDU with the SN VR(UR).
First == (built + 1) - Below(vrUr)

\* The SDUs of the PDUs that were lost or come too late.
LostSdus == dropped \cup UNION {SdusOf(pdu) : pdu \in {p \in data : p.n < First}}

\* With the data fields h of all PDUs: a PDU from VR(UR) on is on its way, waits or
\* is lost, and the reassembly expects the one of VR(UR).
HistoryInv(h) ==
    /\ Fields(h, TxPosition(txBuffer, sizes), sizes)
    /\ \A pdu \in data \cup rxBuffer : Numbered(pdu, h)
    /\ \A n \in First .. built :
           (\E pdu \in data \cup rxBuffer : pdu.n = n) \/ SdusIn(h[n]) \subseteq dropped
    /\ Stands(reassembly, First, h, TxPosition(txBuffer, sizes), sizes, LostSdus)

\* The inductive invariant of the SDUs.
UmSduInv ==
    /\ UmInv
    /\ txBuffer \in Seq(Piece) /\ QueueOK(txBuffer, sizes)
    /\ IsFiniteSet(rxBuffer) /\ data \cap rxBuffer = {}
    /\ \A p, q \in data \cup rxBuffer : p.n = q.n => p = q
    /\ Below(vrUr) <= built
    /\ \E h : HistoryInv(h)

\* At first nothing was accepted, built or delivered.
LEMMA UmSduInit == Init => UmSduInv
<1> SUFFICES ASSUME Init PROVE UmSduInv
  OBVIOUS
<1>1. /\ txBuffer = <<>> /\ sequenceNumber = 0 /\ sizes = <<>> /\ built = 0 /\ data = {}
      /\ vrUr = 0 /\ rxBuffer = {} /\ reassembly = NothingReassembled /\ dropped = {}
  BY DEF Init
<1>2. UmInv
  BY UmInitInv
<1>3. Below(vrUr) = 0 /\ 0 \in SN /\ First = 1
  <2>1. Below(vrUr) = 0
    BY <1>1 DEF Below, Rel
  <2>2. QED
    BY <1>1, <2>1, SequenceNumberAssumption DEF First, SN
<1> DEFINE none == <<>>
           next == TxPosition(txBuffer, sizes)
<1>4. none \in Seq(Seq(Piece)) /\ none \in Seq(Nat \ {0}) /\ none \in Seq(Piece) /\ Len(none) = 0
  OBVIOUS
<1>5. next = <<1, 0>> /\ next[1] = 1 /\ next[2] = 0
  BY <1>1 DEF TxPosition
<1> HIDE DEF next
<1>6. At(none, next, 1) = next
  BY <1>4 DEF At
<1>7. Fields(none, next, sizes)
  <2>1. 1 .. Len(none) = {}
    BY <1>4
  <2>2. HistoryOK(none, next, sizes)
    BY <1>5, <1>6, <2>1 DEF HistoryOK
  <2>3. QED
    BY <1>1, <1>4, <2>2 DEF Fields
<1>8. Stands(reassembly, First, none, next, sizes, LostSdus)
  <2>1. /\ reassembly \in Reassembly /\ reassembly.expected = 0
        /\ reassembly.waitsRest = FALSE /\ reassembly.delivered = <<>>
    <3>1. <<>> \in Seq(Seq(Piece)) /\ <<>> \in Seq(Piece)
      OBVIOUS
    <3>2. QED
      BY <1>1, <1>3, <3>1 DEF NothingReassembled, Reassembly
  <2>2. Below(reassembly.expected) = (built + 1) - First
    BY <1>1, <1>3, <2>1
  <2>3. KeptOK(reassembly, next)
    BY <2>1 DEF KeptOK
  <2>4. DeliveredOK(reassembly.delivered, next[1], sizes)
    BY <2>1 DEF DeliveredOK
  <2>5. AccountedFor(reassembly.delivered, next, reassembly.waitsRest, LostSdus)
    <3>1. 1 .. next[1] - 1 = {} /\ ~(next[2] > 0)
      BY <1>5
    <3>2. QED
      BY <3>1 DEF AccountedFor
  <2>6. QED
    BY <1>3, <1>6, <2>1, <2>2, <2>3, <2>4, <2>5 DEF Stands, Reached
<1>9. HistoryInv(none)
  <2>1. First .. built = {}
    BY <1>1, <1>3
  <2>2. QED
    BY <1>1, <1>7, <1>8, <2>1 DEF HistoryInv, next
<1>10. QueueOK(txBuffer, sizes) /\ IsFiniteSet(rxBuffer)
  BY <1>1, FS_EmptySet DEF QueueOK
<1> HIDE DEF none
<1>11. \E h : HistoryInv(h)
  BY <1>9
<1>12. QED
  BY <1>1, <1>2, <1>3, <1>4, <1>10, <1>11 DEF UmSduInv, none

\* A data field and its position do not depend on the SDUs accepted later.
LEMMA FieldGrows ==
    ASSUME NEW all \in Seq(Nat \ {0}), NEW size \in Nat \ {0},
           NEW field \in Seq(Piece), FieldOK(field, all)
    PROVE  /\ FieldOK(field, Append(all, size))
           /\ Stop(field[Len(field)], Append(all, size)) = Stop(field[Len(field)], all)
<1> DEFINE more == Append(all, size)
<1>1. /\ DOMAIN field = 1 .. Len(field) /\ Len(field) \in 1 .. Len(field)
      /\ \A i \in 1 .. Len(field) : /\ field[i] \in Piece /\ PieceOK(field[i], all)
                                    /\ field[i].sdu = field[1].sdu + i - 1
                                    /\ i > 1 => field[i].from = 0
                                    /\ i < Len(field) => Ends(field[i], all)
  BY FieldPieces
<1>2. \A i \in 1 .. Len(field) : /\ PieceOK(field[i], more)
                                 /\ Ends(field[i], more) <=> Ends(field[i], all)
                                 /\ Stop(field[i], more) = Stop(field[i], all)
  BY <1>1, PieceGrows
<1> HIDE DEF more
<1>3. field # <<>>
  BY DEF FieldOK
<1>4. FieldOK(field, more)
  BY <1>1, <1>2, <1>3 DEF FieldOK
<1>5. QED
  BY <1>1, <1>2, <1>4 DEF more

\* Neither do those of all PDUs.
LEMMA FieldsGrow ==
    ASSUME NEW h, NEW next, NEW all, NEW size \in Nat \ {0}, Fields(h, next, all)
    PROVE  Fields(h, next, Append(all, size))
<1> DEFINE more == Append(all, size)
<1>1. /\ h \in Seq(Seq(Piece)) /\ Len(h) = built /\ all \in Seq(Nat \ {0})
      /\ At(h, next, 1) = <<1, 0>>
      /\ \A n \in 1 .. Len(h) : /\ FieldOK(h[n], all)
                                /\ At(h, next, n + 1) = Stop(h[n][Len(h[n])], all)
  BY DEF Fields, HistoryOK
<1>2. more \in Seq(Nat \ {0})
  BY <1>1
<1>3. ASSUME NEW n \in 1 .. Len(h)
      PROVE  FieldOK(h[n], more) /\ At(h, next, n + 1) = Stop(h[n][Len(h[n])], more)
  <2>1. PICK field \in Seq(Piece) : field = h[n]
    <3>1. h[n] \in Seq(Piece)
      BY <1>1
    <3>2. QED
      BY <3>1
  <2>2. FieldOK(field, all) /\ At(h, next, n + 1) = Stop(field[Len(field)], all)
    BY <1>1, <2>1
  <2>3. FieldOK(field, more) /\ Stop(field[Len(field)], more) = Stop(field[Len(field)], all)
    BY <1>1, <2>2, FieldGrows
  <2>4. QED
    BY <2>1, <2>2, <2>3
<1> HIDE DEF more
<1>4. Fields(h, next, more)
  BY <1>1, <1>2, <1>3 DEF Fields, HistoryOK
<1>5. QED
  BY <1>4 DEF more

\* What the reassembly expects does not change either.
LEMMA StandsGrows ==
    ASSUME NEW r, NEW m, NEW h, NEW next, NEW all \in Seq(Nat \ {0}), NEW size \in Nat \ {0},
           NEW lost, Stands(r, m, h, next, all, lost)
    PROVE  Stands(r, m, h, next, Append(all, size), lost)
<1> DEFINE more == Append(all, size)
<1>1. \A i \in DOMAIN all : i \in DOMAIN more /\ more[i] = all[i]
  OBVIOUS
<1> HIDE DEF more
<1>2. ASSUME NEW d, NEW bound, DeliveredOK(d, bound, all)
      PROVE  DeliveredOK(d, bound, more)
  BY <1>1, <1>2 DEF DeliveredOK
<1>3. Stands(r, m, h, next, more, lost)
  BY <1>2 DEF Stands, Reached
<1>4. QED
  BY <1>3 DEF more

\* The history does not depend on the receiver.
LEMMA SameHistory ==
    ASSUME sequenceNumber' = sequenceNumber, built' = built
    PROVE  /\ \A h, next, all : Fields(h, next, all)' <=> Fields(h, next, all)
           /\ \A pdu, h : Numbered(pdu, h)' <=> Numbered(pdu, h)
           /\ \A r, m, h, next, all, lost :
                 Stands(r, m, h, next, all, lost)' <=> Stands(r, m, h, next, all, lost)
<1>1. \A h, next, all : Fields(h, next, all)' <=> Fields(h, next, all)
  BY DEF Fields
<1>2. \A pdu, h : Numbered(pdu, h)' <=> Numbered(pdu, h)
  BY DEF Numbered, Below
<1>3. \A r, m, h, next, all, lost :
         Stands(r, m, h, next, all, lost)' <=> Stands(r, m, h, next, all, lost)
  BY DEF Stands, Below
<1>4. QED
  BY <1>1, <1>2, <1>3

\* The facts to show of a step for the history to hold after it.
LEMMA HistoryAfter ==
    ASSUME NEW h, NEW next, NEW all, NEW m, NEW lost, NEW r,
           next = TxPosition(txBuffer', sizes'), all = sizes', m = First', lost = LostSdus',
           r = reassembly',
           Fields(h, next, all)', Stands(r, m, h, next, all, lost)',
           \A pdu \in data' \cup rxBuffer' : Numbered(pdu, h)',
           \A n \in m .. built' :
              (\E pdu \in data' \cup rxBuffer' : pdu.n = n) \/ SdusIn(h[n]) \subseteq dropped'
    PROVE  HistoryInv(h)'
BY DEF HistoryInv

\* Another SDU is accepted: positions and data fields stay as they were.
LEMMA AcceptUm ==
    ASSUME ReorderingIsPrompt, WindowSize > 1, UmSduInv,
           NEW size \in SduSizes, DoTransmitPdcpPdu(size)
    PROVE  UmSduInv'
<1>1. /\ txBuffer' = Append(txBuffer, FullSdu(Len(sizes) + 1, size))
      /\ sizes' = Append(sizes, size)
      /\ sequenceNumber' = sequenceNumber /\ built' = built /\ data' = data
      /\ vrUr' = vrUr /\ rxBuffer' = rxBuffer /\ reassembly' = reassembly
      /\ dropped' = dropped
  BY DEF DoTransmitPdcpPdu, rxVars
<1>2. UmInv'
  <2>1. UmInv /\ [Next]_vars
    BY DEF UmSduInv, Next
  <2>2. QED
    BY <2>1, UmNext
<1>3. PICK h : HistoryInv(h)
  BY DEF UmSduInv
<1>4. size \in Nat \ {0}
  BY UmAssumption
<1> DEFINE next == TxPosition(txBuffer, sizes)
<1>5. /\ Fields(h, next, sizes) /\ sizes \in Seq(Nat \ {0})
      /\ Stands(reassembly, First, h, next, sizes, LostSdus)
  BY <1>3 DEF HistoryInv, Fields
<1>6. /\ txBuffer' \in Seq(Piece) /\ QueueOK(txBuffer', sizes')
      /\ TxPosition(txBuffer', sizes') = next
  <2>1. txBuffer \in Seq(Piece) /\ QueueOK(txBuffer, sizes)
    BY DEF UmSduInv
  <2>2. QED
    BY <1>1, <1>4, <1>5, <2>1, QueueAppend
<1> HIDE DEF next
<1> DEFINE grown == Append(sizes, size)
<1>7. PICK nx, more, m, lost, r :
         /\ nx = next /\ more = sizes' /\ m = First /\ lost = LostSdus /\ r = reassembly
         /\ Fields(h, nx, more) /\ Stands(r, m, h, nx, more, lost)
  <2>1. Fields(h, next, grown)
    BY <1>4, <1>5, FieldsGrow
  <2>2. Stands(reassembly, First, h, next, grown, LostSdus)
    BY <1>4, <1>5, StandsGrows
  <2>3. grown = sizes'
    BY <1>1
  <2> HIDE DEF grown
  <2>4. QED
    BY <2>1, <2>2, <2>3
<1>8. First' = First /\ LostSdus' = LostSdus
  <2>1. First' = First
    BY <1>1 DEF First, Below
  <2>2. QED
    BY <1>1, <2>1 DEF LostSdus
<1>9. HistoryInv(h)'
  <2>1. Fields(h, nx, more)' /\ Stands(r, m, h, nx, more, lost)'
    BY <1>1, <1>7, SameHistory
  <2>2. \A pdu \in data' \cup rxBuffer' : Numbered(pdu, h)'
    BY <1>1, <1>3, SameHistory DEF HistoryInv
  <2>3. \A n \in m .. built' :
           (\E pdu \in data' \cup rxBuffer' : pdu.n = n) \/ SdusIn(h[n]) \subseteq dropped'
    BY <1>1, <1>3, <1>7 DEF HistoryInv
  <2>4. /\ nx = TxPosition(txBuffer', sizes') /\ more = sizes' /\ m = First'
        /\ lost = LostSdus' /\ r = reassembly'
    BY <1>1, <1>6, <1>7, <1>8
  <2>5. QED
    BY <2>1, <2>2, <2>3, <2>4, HistoryAfter
<1>10. Below(vrUr)' <= built'
  BY <1>1 DEF UmSduInv, Below
<1>11. QED
  BY <1>1, <1>2, <1>6, <1>9, <1>10 DEF UmSduInv

\* The reassembly stands where it stood when more is lost.
LEMMA StandsMore ==
    ASSUME NEW r, NEW m, NEW h, NEW next, NEW all, NEW lost, NEW more,
           Stands(r, m, h, next, all, lost), lost \subseteq more
    PROVE  Stands(r, m, h, next, all, more)
<1>1. Reached(r.delivered, At(h, next, m), r.waitsRest, more, all)
  <2>1. Reached(r.delivered, At(h, next, m), r.waitsRest, lost, all)
    BY DEF Stands
  <2>2. QED
    BY <2>1 DEF Reached, AccountedFor
<1>2. QED
  BY <1>1 DEF Stands

\* The invariant after a step that leaves the transmitting side alone, with the
\* same data fields.
LEMMA SameSender ==
    ASSUME UmSduInv, UmInv', UNCHANGED txVars, NEW h, HistoryInv(h),
           data' \cup rxBuffer' \subseteq data \cup rxBuffer,
           IsFiniteSet(rxBuffer'), data' \cap rxBuffer' = {},
           Below(vrUr') <= built,
           NEW m, m = (built + 1) - Below(vrUr'),
           NEW lost, lost = LostSdus',
           Stands(reassembly', m, h, TxPosition(txBuffer, sizes), sizes, lost),
           \A n \in m .. built :
              (\E pdu \in data' \cup rxBuffer' : pdu.n = n) \/ SdusIn(h[n]) \subseteq dropped'
    PROVE  UmSduInv'
<1>1. /\ txBuffer' = txBuffer /\ sequenceNumber' = sequenceNumber
      /\ sizes' = sizes /\ built' = built
  BY DEF txVars
<1>2. PICK next, all, r : next = TxPosition(txBuffer, sizes) /\ all = sizes /\ r = reassembly'
  OBVIOUS
<1>3. m = First' /\ next = TxPosition(txBuffer', sizes') /\ all = sizes'
  BY <1>1, <1>2 DEF First, Below
<1>4. Fields(h, next, all) /\ Stands(r, m, h, next, all, lost)
  BY <1>2 DEF HistoryInv
<1>5. Fields(h, next, all)' /\ Stands(r, m, h, next, all, lost)'
  BY <1>1, <1>4, SameHistory
<1>6. \A pdu \in data' \cup rxBuffer' : Numbered(pdu, h)'
  BY <1>1, SameHistory DEF HistoryInv
<1>7. \A n \in m .. built' :
         (\E pdu \in data' \cup rxBuffer' : pdu.n = n) \/ SdusIn(h[n]) \subseteq dropped'
  BY <1>1
<1>8. HistoryInv(h)'
  BY <1>2, <1>3, <1>5, <1>6, <1>7, HistoryAfter
<1>9. \A p, q \in data' \cup rxBuffer' : p.n = q.n => p = q
  BY DEF UmSduInv
<1>10. txBuffer' \in Seq(Piece) /\ QueueOK(txBuffer', sizes')
  BY <1>1 DEF UmSduInv
<1>11. Below(vrUr)' <= built'
  BY <1>1 DEF Below
<1>12. QED
  BY <1>8, <1>9, <1>10, <1>11 DEF UmSduInv

\* A PDU is lost in the MAC or discarded by DoReceivePdu: its SDUs count as lost.
LEMMA GoneUm ==
    ASSUME UmSduInv, UmInv', UNCHANGED txVars, UNCHANGED rxVars,
           NEW pdu \in data, data' = data \ {pdu}, dropped' = dropped \cup SdusOf(pdu)
    PROVE  UmSduInv'
<1>1. PICK h : HistoryInv(h)
  BY DEF UmSduInv
<1>2. /\ vrUr' = vrUr /\ rxBuffer' = rxBuffer /\ reassembly' = reassembly
      /\ built' = built /\ sequenceNumber' = sequenceNumber
  BY DEF rxVars, txVars
<1>3. PICK m, lost : m = First /\ lost = LostSdus'
  OBVIOUS
<1>4. m = (built + 1) - Below(vrUr') /\ m = First'
  BY <1>2, <1>3 DEF First, Below
<1>5. LostSdus \subseteq lost
  <2>1. lost = dropped' \cup UNION {SdusOf(p) : p \in {q \in data' : q.n < m}}
    BY <1>3, <1>4 DEF LostSdus, SdusOf
  <2>2. \A p \in data : p = pdu \/ p \in data'
    OBVIOUS
  <2>3. QED
    BY <1>3, <2>1, <2>2 DEF LostSdus
<1>6. Stands(reassembly', m, h, TxPosition(txBuffer, sizes), sizes, lost)
  <2>1. Stands(reassembly, First, h, TxPosition(txBuffer, sizes), sizes, LostSdus)
    BY <1>1 DEF HistoryInv
  <2>2. Stands(reassembly, First, h, TxPosition(txBuffer, sizes), sizes, lost)
    BY <1>5, <2>1, StandsMore
  <2>3. QED
    BY <1>2, <1>3, <2>2
<1>7. ASSUME NEW n \in m .. built
      PROVE  (\E p \in data' \cup rxBuffer' : p.n = n) \/ SdusIn(h[n]) \subseteq dropped'
  <2>1. CASE SdusIn(h[n]) \subseteq dropped
    BY <2>1
  <2>2. CASE \E p \in data \cup rxBuffer : p.n = n
    <3>1. PICK p \in data \cup rxBuffer : p.n = n
      BY <2>2
    <3>2. CASE p = pdu
      <4>1. h[n] = pdu.field
        BY <1>1, <3>1, <3>2 DEF HistoryInv, Numbered
      <4>2. SdusIn(h[n]) = SdusOf(pdu)
        BY <4>1 DEF SdusIn, SdusOf
      <4>3. QED
        BY <4>2
    <3>3. CASE p # pdu
      BY <1>2, <3>1, <3>3
    <3>4. QED
      BY <3>2, <3>3
  <2>3. QED
    BY <1>1, <1>3, <2>1, <2>2 DEF HistoryInv
<1>8. /\ data' \cup rxBuffer' \subseteq data \cup rxBuffer
      /\ IsFiniteSet(rxBuffer') /\ data' \cap rxBuffer' = {} /\ Below(vrUr') <= built
  BY <1>2 DEF UmSduInv
<1>9. QED
  BY <1>1, <1>3, <1>4, <1>6, <1>7, <1>8, SameSender

\* A step that changes nothing.
LEMMA StutterUm ==
    ASSUME UmSduInv, UmInv', UNCHANGED vars
    PROVE  UmSduInv'
<1>1. PICK h : HistoryInv(h)
  BY DEF UmSduInv
<1>2. /\ UNCHANGED txVars
      /\ vrUr' = vrUr /\ rxBuffer' = rxBuffer /\ reassembly' = reassembly
      /\ built' = built /\ sequenceNumber' = sequenceNumber
      /\ data' = data /\ dropped' = dropped
  BY DEF vars, rxVars, txVars
<1>3. PICK m, lost : m = First /\ lost = LostSdus'
  OBVIOUS
<1>4. m = (built + 1) - Below(vrUr') /\ m = First'
  BY <1>2, <1>3 DEF First, Below
<1>5. lost = LostSdus
  BY <1>2, <1>3, <1>4 DEF LostSdus
<1>6. /\ Stands(reassembly', m, h, TxPosition(txBuffer, sizes), sizes, lost)
      /\ \A n \in m .. built :
            (\E p \in data' \cup rxBuffer' : p.n = n) \/ SdusIn(h[n]) \subseteq dropped'
  BY <1>1, <1>2, <1>3, <1>5 DEF HistoryInv
<1>7. /\ data' \cup rxBuffer' \subseteq data \cup rxBuffer
      /\ IsFiniteSet(rxBuffer') /\ data' \cap rxBuffer' = {} /\ Below(vrUr') <= built
  BY <1>2 DEF UmSduInv
<1>8. QED
  BY <1>1, <1>2, <1>3, <1>4, <1>6, <1>7, SameSender

\* longer goes on after h with one data field.
Longer(longer, h, next, field, after, all) ==
    /\ longer \in Seq(Seq(Piece)) /\ Len(longer) = Len(h) + 1
    /\ HistoryOK(longer, after, all)
    /\ longer[Len(h) + 1] = field
    /\ \A n \in 1 .. Len(h) : longer[n] = h[n]
    /\ \A n \in 1 .. Len(h) + 1 : At(longer, after, n) = At(h, next, n)

\* The history goes on with the data field of a new PDU.
LEMMA HistoryGrows ==
    ASSUME NEW all, NEW h \in Seq(Seq(Piece)), NEW next, HistoryOK(h, next, all),
           NEW field \in Seq(Piece), FieldOK(field, all), Start(field[1]) = next,
           NEW after, Stop(field[Len(field)], all) = after
    PROVE  Longer(Append(h, field), h, next, field, after, all)
<1> DEFINE longer == Append(h, field)
<1>1. PICK N \in Nat : N = Len(h)
  BY LenProperties
<1>2. /\ longer \in Seq(Seq(Piece)) /\ Len(longer) = N + 1 /\ longer[N + 1] = field
      /\ \A n \in 1 .. N : longer[n] = h[n]
  BY <1>1
<1> HIDE DEF longer
<1>3. ASSUME NEW n \in 1 .. N + 1 PROVE At(longer, after, n) = At(h, next, n)
  <2>1. n > N <=> n = N + 1
    OBVIOUS
  <2>2. CASE n = N + 1
    BY <1>1, <1>2, <2>1, <2>2 DEF At
  <2>3. CASE n # N + 1
    <3>1. n \in 1 .. N /\ ~(n > N) /\ ~(n > N + 1)
      BY <2>3
    <3>2. QED
      BY <1>1, <1>2, <3>1 DEF At
  <2>4. QED
    BY <2>2, <2>3
<1>4. At(longer, after, 1) = <<1, 0>>
  <2>1. At(h, next, 1) = <<1, 0>> /\ 1 \in 1 .. N + 1
    BY DEF HistoryOK
  <2>2. QED
    BY <1>3, <2>1
<1>5. ASSUME NEW n \in 1 .. N + 1
      PROVE  /\ FieldOK(longer[n], all)
             /\ At(longer, after, n + 1) = Stop(longer[n][Len(longer[n])], all)
  <2>1. CASE n = N + 1
    <3>1. n + 1 > N + 1
      BY <2>1
    <3>2. At(longer, after, n + 1) = after
      BY <1>2, <2>1, <3>1 DEF At
    <3>3. QED
      BY <1>2, <2>1, <3>2
  <2>2. CASE n # N + 1
    <3>1. n \in 1 .. N /\ n + 1 \in 1 .. N + 1
      BY <2>2
    <3>2. FieldOK(h[n], all) /\ At(h, next, n + 1) = Stop(h[n][Len(h[n])], all)
      BY <1>1, <3>1 DEF HistoryOK
    <3>3. QED
      BY <1>2, <1>3, <3>1, <3>2
  <2>3. QED
    BY <2>1, <2>2
<1>6. HistoryOK(longer, after, all)
  BY <1>2, <1>4, <1>5 DEF HistoryOK
<1>7. QED
  BY <1>1, <1>2, <1>3, <1>6 DEF longer, Longer

\* The predicates of the history after a step, in the variables after it.
LEMMA HistoryPrimed ==
    /\ \A h, next, all : Fields(h, next, all)' <=>
          /\ h \in Seq(Seq(Piece)) /\ Len(h) = built' /\ all \in Seq(Nat \ {0})
          /\ HistoryOK(h, next, all)
    /\ \A pdu, h : Numbered(pdu, h)' <=>
          /\ pdu \in UmPdus /\ pdu.n \in 1 .. built'
          /\ pdu.field = h[pdu.n] /\ Rel(sequenceNumber', pdu.sn) = (built' + 1) - pdu.n
    /\ \A r, m, h, next, all, lost : Stands(r, m, h, next, all, lost)' <=>
          /\ r \in Reassembly /\ Rel(sequenceNumber', r.expected) = (built' + 1) - m
          /\ KeptOK(r, At(h, next, m))
          /\ Reached(r.delivered, At(h, next, m), r.waitsRest, lost, all)
<1>1. \A h, next, all : Fields(h, next, all)' <=>
         /\ h \in Seq(Seq(Piece)) /\ Len(h) = built' /\ all \in Seq(Nat \ {0})
         /\ HistoryOK(h, next, all)
  BY DEF Fields
<1>2. \A pdu, h : Numbered(pdu, h)' <=>
         /\ pdu \in UmPdus /\ pdu.n \in 1 .. built'
         /\ pdu.field = h[pdu.n] /\ Rel(sequenceNumber', pdu.sn) = (built' + 1) - pdu.n
  BY DEF Numbered, Below
<1>3. \A r, m, h, next, all, lost : Stands(r, m, h, next, all, lost)' <=>
         /\ r \in Reassembly /\ Rel(sequenceNumber', r.expected) = (built' + 1) - m
         /\ KeptOK(r, At(h, next, m))
         /\ Reached(r.delivered, At(h, next, m), r.waitsRest, lost, all)
  BY DEF Stands, Below
<1>4. QED
  BY <1>1, <1>2, <1>3

\* A PDU is built and sent: the history gets its data field, and all else is one
\* PDU further below the end.
LEMMA TransmitSdus ==
    ASSUME ReorderingIsPrompt, UmSduInv, UmInv',
           NEW bytes \in OppSizes, DoNotifyTxOpportunity(bytes)
    PROVE  UmSduInv'
<1>1. PICK h : HistoryInv(h)
  BY DEF UmSduInv
<1>2. PICK room \in Nat \ {0} : room = bytes - FixedHeader
  <2>1. bytes \in Nat /\ bytes > 2
    BY UmAssumption DEF DoNotifyTxOpportunity, FixedHeader
  <2>2. bytes - FixedHeader \in Nat \ {0}
    BY <2>1 DEF FixedHeader
  <2>3. QED
    BY <2>2
<1>3. PICK field : field = DataField(txBuffer, room)
  OBVIOUS
<1>4. PICK pdu : pdu = [n |-> built + 1, sn |-> sequenceNumber, field |-> field]
  OBVIOUS
<1>5. /\ data' = data \cup {pdu} /\ txBuffer # <<>>
      /\ txBuffer' = QueueAfter(txBuffer, room)
      /\ sizes' = sizes /\ built' = built + 1
      /\ vrUr' = vrUr /\ rxBuffer' = rxBuffer /\ reassembly' = reassembly
      /\ dropped' = dropped
  BY <1>2, <1>3, <1>4 DEF DoNotifyTxOpportunity, rxVars
<1>6. /\ UmInv /\ built \in Nat /\ sequenceNumber \in SN /\ vrUr \in SN
      /\ Below(vrUr) \in Nat /\ Below(vrUr) <= built
      /\ txBuffer \in Seq(Piece) /\ QueueOK(txBuffer, sizes)
      /\ IsFiniteSet(rxBuffer) /\ data \cap rxBuffer = {}
      /\ \A p, q \in data \cup rxBuffer : p.n = q.n => p = q
  BY BelowType DEF UmSduInv, UmInv, UmTypes
<1>7. /\ Below(vrUr) < WindowSize /\ \A p \in data : Below(p.sn) < WindowSize
      /\ \A v \in SN : Below(v) < WindowSize => Rel(sequenceNumber', v) = Below(v) + 1
      /\ Rel(sequenceNumber', sequenceNumber) = 1
  BY <1>6, TransmitBelow
<1> DEFINE next == TxPosition(txBuffer, sizes)
<1>8. /\ h \in Seq(Seq(Piece)) /\ Len(h) = built /\ sizes \in Seq(Nat \ {0})
      /\ HistoryOK(h, next, sizes)
      /\ \A p \in data \cup rxBuffer : Numbered(p, h)
      /\ \A n \in First .. built :
            (\E p \in data \cup rxBuffer : p.n = n) \/ SdusIn(h[n]) \subseteq dropped
      /\ Stands(reassembly, First, h, next, sizes, LostSdus)
  BY <1>1 DEF HistoryInv, Fields
<1>9. PICK after : after = TxPosition(txBuffer', sizes')
  OBVIOUS
<1>10. /\ field \in Seq(Piece) /\ txBuffer' \in Seq(Piece) /\ QueueOK(txBuffer', sizes')
       /\ FieldOK(field, sizes) /\ Start(field[1]) = next
       /\ Stop(field[Len(field)], sizes) = after
  <2>1. /\ field \in Seq(Piece) /\ QueueAfter(txBuffer, room) \in Seq(Piece)
        /\ FieldOK(field, sizes) /\ QueueOK(QueueAfter(txBuffer, room), sizes)
        /\ Start(field[1]) = Start(txBuffer[1])
        /\ Stop(field[Len(field)], sizes) = TxPosition(QueueAfter(txBuffer, room), sizes)
    BY <1>3, <1>5, <1>6, <1>8, FieldOfQueue
  <2>2. next = Start(txBuffer[1])
    BY <1>5 DEF TxPosition
  <2>3. QED
    BY <1>5, <1>9, <2>1, <2>2
<1> HIDE DEF next
<1>11. PICK longer :
          /\ longer \in Seq(Seq(Piece)) /\ Len(longer) = built + 1
          /\ HistoryOK(longer, after, sizes)
          /\ longer[built + 1] = field
          /\ \A n \in 1 .. built : longer[n] = h[n]
          /\ \A n \in 1 .. built + 1 : At(longer, after, n) = At(h, next, n)
  <2>1. Longer(Append(h, field), h, next, field, after, sizes)
    BY <1>8, <1>10, HistoryGrows
  <2>2. QED
    BY <1>8, <2>1 DEF Longer
<1>12. PICK m \in Nat \ {0} : /\ m = First /\ m = (built + 1) - Below(vrUr)
                              /\ m \in 1 .. built + 1
  <2>1. (built + 1) - Below(vrUr) \in Nat \ {0} /\ (built + 1) - Below(vrUr) \in 1 .. built + 1
    BY <1>6
  <2>2. QED
    BY <2>1 DEF First
<1>13. Rel(sequenceNumber', vrUr) = Below(vrUr) + 1
  BY <1>6, <1>7
<1>14. First' = m
  <2>1. First' = (built' + 1) - Rel(sequenceNumber', vrUr')
    BY DEF First, Below
  <2>2. QED
    BY <1>5, <1>6, <1>12, <1>13, <2>1
<1>15. LostSdus' = LostSdus
  <2>1. LostSdus' = dropped' \cup UNION {SdusOf(p) : p \in {q \in data' : q.n < m}}
    BY <1>14 DEF LostSdus, SdusOf
  <2>2. LostSdus = dropped \cup UNION {SdusOf(p) : p \in {q \in data : q.n < m}}
    BY <1>12 DEF LostSdus
  <2>3. pdu.n = built + 1 /\ ~(built + 1 < m)
    BY <1>4, <1>6, <1>12
  <2>4. {q \in data' : q.n < m} = {q \in data : q.n < m}
    BY <1>5, <2>3
  <2>5. QED
    BY <1>5, <2>1, <2>2, <2>4
<1>16. PICK lost, all, r : lost = LostSdus /\ all = sizes' /\ r = reassembly'
  OBVIOUS
<1>17. Stands(r, m, longer, after, all, lost)'
  <2>1. /\ r \in Reassembly /\ Below(r.expected) = (built + 1) - m
        /\ KeptOK(r, At(h, next, m))
        /\ Reached(r.delivered, At(h, next, m), r.waitsRest, lost, all)
    BY <1>5, <1>8, <1>12, <1>16 DEF Stands
  <2>2. r.expected \in SN
    BY <2>1 DEF Reassembly
  <2>3. Below(r.expected) = Below(vrUr)
    BY <1>6, <1>12, <2>1
  <2>4. Rel(sequenceNumber', r.expected) = Below(r.expected) + 1
    BY <1>7, <2>2, <2>3
  <2>5. Rel(sequenceNumber', r.expected) = (built' + 1) - m
    BY <1>5, <1>6, <1>12, <2>3, <2>4
  <2>6. At(longer, after, m) = At(h, next, m)
    BY <1>11, <1>12
  <2>7. QED
    BY <2>1, <2>5, <2>6, HistoryPrimed
<1>18. Fields(longer, after, all)'
  BY <1>5, <1>8, <1>11, <1>16, HistoryPrimed
<1>19. Numbered(pdu, longer)'
  <2>1. pdu \in UmPdus /\ pdu.n = built + 1 /\ pdu.sn = sequenceNumber /\ pdu.field = field
    BY <1>4, <1>6, <1>10 DEF UmPdus
  <2>2. pdu.n \in 1 .. built' /\ (built' + 1) - pdu.n = 1
    BY <1>5, <1>6, <2>1
  <2>3. QED
    BY <1>7, <1>11, <2>1, <2>2, HistoryPrimed
<1>20. ASSUME NEW p \in data \cup rxBuffer PROVE Numbered(p, longer)' /\ p.n \in 1 .. built
  <2>1. /\ p \in UmPdus /\ p.n \in 1 .. built /\ p.field = h[p.n]
        /\ Below(p.sn) = (built + 1) - p.n /\ p.sn \in SN
    BY <1>8 DEF Numbered, UmPdus
  <2>2. Below(p.sn) < WindowSize
    <3>1. CASE p \in data
      BY <1>7, <3>1
    <3>2. CASE p \in rxBuffer
      <4>1. Below(p.sn) <= Below(vrUr)
        BY <1>6, <3>2 DEF UmInv, WaitingOK
      <4>2. Below(p.sn) \in Nat /\ WindowSize \in Nat
        BY <1>6, <2>1, BelowType DEF UmInv
      <4>3. QED
        BY <1>6, <1>7, <4>1, <4>2
    <3>3. QED
      BY <3>1, <3>2
  <2>3. Rel(sequenceNumber', p.sn) = Below(p.sn) + 1
    BY <1>7, <2>1, <2>2
  <2>4. p.n \in 1 .. built' /\ Rel(sequenceNumber', p.sn) = (built' + 1) - p.n
    BY <1>5, <1>6, <2>1, <2>3
  <2>5. p.field = longer[p.n]
    BY <1>11, <2>1
  <2>6. QED
    BY <2>1, <2>4, <2>5, HistoryPrimed
<1>21. \A p \in data' \cup rxBuffer' : Numbered(p, longer)'
  BY <1>5, <1>19, <1>20
<1>22. ASSUME NEW n \in m .. built'
       PROVE  (\E p \in data' \cup rxBuffer' : p.n = n) \/ SdusIn(longer[n]) \subseteq dropped'
  <2>1. CASE n = built + 1
    <3>1. pdu.n = n /\ pdu \in data'
      BY <1>4, <1>5, <2>1
    <3>2. QED
      BY <3>1
  <2>2. CASE n # built + 1
    <3>1. n \in m .. built /\ n \in 1 .. built
      BY <1>5, <1>6, <2>2
    <3>2. (\E p \in data \cup rxBuffer : p.n = n) \/ SdusIn(h[n]) \subseteq dropped
      BY <1>8, <1>12, <3>1
    <3>3. longer[n] = h[n]
      BY <1>11, <3>1
    <3>4. QED
      BY <1>5, <3>2, <3>3
  <2>3. QED
    BY <2>1, <2>2
<1>23. \E g : HistoryInv(g)'
  <2>1. HistoryInv(longer)'
    BY <1>9, <1>14, <1>15, <1>16, <1>17, <1>18, <1>21, <1>22, HistoryAfter
  <2>2. QED
    BY <2>1
<1>24. Below(vrUr)' <= built'
  <2>1. Rel(sequenceNumber', vrUr') <= built'
    BY <1>5, <1>6, <1>13
  <2>2. QED
    BY <2>1 DEF Below
<1>25. \A p \in data \cup rxBuffer : p.n # pdu.n
  <2>1. pdu.n = built + 1
    BY <1>4
  <2>2. QED
    BY <1>6, <1>20, <2>1
<1>26. /\ data' \cap rxBuffer' = {}
       /\ \A p, q \in data' \cup rxBuffer' : p.n = q.n => p = q
  BY <1>5, <1>6, <1>25
<1>27. QED
  BY <1>5, <1>6, <1>10, <1>23, <1>24, <1>26 DEF UmSduInv

---------------------------------------------------------------------------
(*************************************************************************)
(* The steps that move the window.                                       *)
(*************************************************************************)

\* The PDUs of buffer in q: those that are passed by when VR(UR) becomes ur, in the
\* order of their numbers.
InTurn(q, N, buffer, ur) ==
    /\ N \in Nat /\ q \in [1 .. N -> Passed(buffer, ur)]
    /\ \A p \in Passed(buffer, ur) : \E i \in 1 .. N : q[i] = p
    /\ \A i, j \in 1 .. N : i < j => q[i].n < q[j].n

\* PDUs that were numbered and wait in the window, each once.
Waiting(buffer, h) ==
    /\ IsFiniteSet(buffer)
    /\ \A p \in buffer : Numbered(p, h) /\ Below(p.sn) <= Below(vrUr)
    /\ \A p, q \in buffer : p.n = q.n => p = q

\* InOrder gives the PDUs passed by in the order of their numbers.
LEMMA PassedInTurn ==
    ASSUME UmTypes, PositionsOK, NEW h, NEW buffer, Waiting(buffer, h), NEW ur
    PROVE  \E N : InTurn(InOrder(Passed(buffer, ur), Base(vrUh)), N, buffer, ur)
<1> DEFINE pdus == Passed(buffer, ur)
           base == Base(vrUh)
           q == InOrder(pdus, base)
           N == Cardinality(pdus)
<1>1. /\ vrUh \in SN /\ vrUr \in SN /\ built \in Nat /\ WindowSize \in Nat
      /\ Below(vrUh) \in Nat /\ Below(vrUr) \in Nat
      /\ Below(vrUh) <= Below(vrUr) /\ Below(vrUr) <= WindowSize
  BY BelowType DEF UmTypes, PositionsOK
<1>2. \A p \in pdus : p \in buffer
  BY DEF Passed
<1>3. ASSUME NEW p \in pdus
      PROVE  /\ p.n \in Nat /\ Rel(p.sn, base) \in Nat
             /\ Rel(p.sn, base) = WindowSize + Below(vrUh) - (built + 1) + p.n
  <2>1. Numbered(p, h) /\ Below(p.sn) <= Below(vrUr)
    BY <1>2 DEF Waiting
  <2>2. p.sn \in SN /\ p.n \in 1 .. built /\ Below(p.sn) = (built + 1) - p.n
    BY <2>1 DEF Numbered, UmPdus
  <2>3. p.n \in Nat /\ 1 <= Below(p.sn) /\ Below(p.sn) <= WindowSize
    BY <1>1, <2>1, <2>2
  <2>4. Rel(p.sn, base) = WindowSize + Below(vrUh) - Below(p.sn)
    BY <1>1, <2>2, <2>3, AboveBaseBelow
  <2>5. QED
    BY <1>1, <2>2, <2>3, <2>4
<1>4. ASSUME NEW p \in pdus, NEW r \in pdus, Rel(p.sn, base) = Rel(r.sn, base)
      PROVE  p = r
  <2>1. p.n = r.n
    BY <1>1, <1>3, <1>4
  <2>2. QED
    BY <1>2, <2>1 DEF Waiting
<1>5. IsFiniteSet(pdus)
  BY <1>2, FS_Subset DEF Waiting
<1> HIDE DEF pdus, base
<1>6. /\ N \in Nat /\ q \in [1 .. N -> pdus]
      /\ \A p \in pdus : \E i \in 1 .. N : q[i] = p
      /\ \A i, j \in 1 .. N : i < j => Rel(q[i].sn, base) < Rel(q[j].sn, base)
  BY <1>3, <1>4, <1>5, Ordered
<1> HIDE DEF q, N
<1>7. ASSUME NEW i \in 1 .. N, NEW j \in 1 .. N, i < j PROVE q[i].n < q[j].n
  <2>1. q[i] \in pdus /\ q[j] \in pdus
    BY <1>6
  <2>2. Rel(q[i].sn, base) < Rel(q[j].sn, base)
    BY <1>6, <1>7
  <2>3. QED
    BY <1>1, <1>3, <2>1, <2>2
<1>8. InTurn(q, N, buffer, ur)
  BY <1>6, <1>7 DEF InTurn, pdus
<1>9. QED
  BY <1>8 DEF q, pdus, base

\* They are reassembled up to the new VR(UR): what is missing between them is lost.
LEMMA PassedIsBatch ==
    ASSUME UmTypes, NEW h, NEW buffer, Waiting(buffer, h), NEW ur \in SN,
           Below(ur) <= Below(vrUr),
           ur = vrUr \/ \E p \in buffer : Below(p.sn) = Below(ur) + 1,
           NEW m, m = (built + 1) - Below(vrUr), NEW to, to = (built + 1) - Below(ur),
           NEW lost,
           \A x \in m .. to - 1 : (\E p \in buffer : p.n = x) \/ SdusIn(h[x]) \subseteq lost,
           NEW N, NEW q, InTurn(q, N, buffer, ur)
    PROVE  Batch(q, N, m, to, h, lost)
<1>1. /\ built \in Nat /\ Below(vrUr) \in Nat /\ Below(ur) \in Nat
      /\ m \in Int /\ to \in Int
  BY BelowType DEF UmTypes
<1>2. /\ N \in Nat /\ DOMAIN q = 1 .. N
      /\ \A i \in 1 .. N : q[i] \in Passed(buffer, ur)
      /\ \A p \in Passed(buffer, ur) : \E i \in 1 .. N : q[i] = p
      /\ \A i, j \in 1 .. N : i < j => q[i].n < q[j].n
  BY DEF InTurn
<1>3. ASSUME NEW p \in buffer
      PROVE  /\ Numbered(p, h) /\ p.n \in Nat /\ m <= p.n
             /\ Below(p.sn) = (built + 1) - p.n
             /\ p \in Passed(buffer, ur) <=> p.n < to
  <2>1. Numbered(p, h) /\ Below(p.sn) <= Below(vrUr)
    BY DEF Waiting
  <2>2. p.n \in 1 .. built /\ Below(p.sn) = (built + 1) - p.n
    BY <2>1 DEF Numbered
  <2>3. p \in Passed(buffer, ur) <=> Below(ur) < Below(p.sn)
    BY DEF Passed
  <2>4. QED
    BY <1>1, <2>1, <2>2, <2>3
<1>4. \A i \in 1 .. N : q[i] \in buffer
  BY <1>2 DEF Passed
<1>5. \A i \in 1 .. N : Numbered(q[i], h) /\ m <= q[i].n /\ q[i].n < to
  BY <1>2, <1>3, <1>4
<1>6. ASSUME NEW x \in m .. to - 1
      PROVE  (\E i \in 1 .. N : q[i].n = x) \/ SdusIn(h[x]) \subseteq lost
  <2>1. CASE \E p \in buffer : p.n = x
    <3>1. PICK p \in buffer : p.n = x
      BY <2>1
    <3>2. p \in Passed(buffer, ur)
      BY <1>1, <1>3, <3>1
    <3>3. QED
      BY <1>2, <3>1, <3>2
  <2>2. QED
    BY <2>1
<1>7. CASE ur = vrUr
  <2>1. N = 0
    <3>1. SUFFICES ASSUME N # 0 PROVE FALSE
      OBVIOUS
    <3>2. 1 \in 1 .. N
      BY <1>2, <3>1
    <3>3. PICK x : x = q[1].n /\ m <= x /\ x < to /\ x \in Nat
      BY <1>3, <1>4, <1>5, <3>2
    <3>4. QED
      BY <1>1, <1>7, <3>3
  <2>2. m = to
    BY <1>7
  <2>3. QED
    BY <1>2, <1>5, <1>6, <2>1, <2>2 DEF Batch
<1>8. CASE \E p \in buffer : Below(p.sn) = Below(ur) + 1
  <2>1. PICK p \in buffer : Below(p.sn) = Below(ur) + 1
    BY <1>8
  <2>2. p.n + 1 = to /\ p.n \in Nat
    BY <1>1, <1>3, <2>1
  <2>3. PICK i \in 1 .. N : q[i] = p
    BY <1>1, <1>2, <1>3, <2>2
  <2>4. N # 0 /\ N \in 1 .. N
    BY <1>2, <2>3
  <2>5. i = N
    <3>1. SUFFICES ASSUME i < N PROVE FALSE
      BY <1>2
    <3>2. q[i].n < q[N].n
      BY <1>2, <2>4, <3>1
    <3>3. PICK x \in Nat : x = q[N].n /\ x < to
      BY <1>3, <1>4, <1>5, <2>4
    <3>4. QED
      BY <1>1, <2>2, <2>3, <3>2, <3>3
  <2>6. QED
    BY <1>2, <1>5, <1>6, <2>2, <2>3, <2>4, <2>5 DEF Batch
<1>9. QED
  BY <1>7, <1>8

\* The PDUs of the buffer and in flight, before and after the window moves.
Placed(buffer) ==
    /\ IsFiniteSet(buffer) /\ data' \subseteq data
    /\ rxBuffer \subseteq buffer /\ buffer \cup data' = data \cup rxBuffer
    /\ data' \cap buffer = {}

\* The window has moved: what was passed by is reassembled in its order, and what is
\* missing between counts as lost, in flight as it may be.
LEMMA MovedSdus ==
    ASSUME UmSduInv, UmInv', UNCHANGED txVars, dropped' = dropped,
           NEW buffer, NEW uh, NEW ur, Placed(buffer), Moved(buffer, uh, ur),
           reassembly' = FoldLeft(ReassembleAndDeliver, reassembly,
                                  InOrder(Passed(buffer, ur), Base(vrUh)))
    PROVE  UmSduInv'
<1>1. PICK h : HistoryInv(h)
  BY DEF UmSduInv
<1>2. /\ UmTypes /\ PositionsOK
      /\ built \in Nat /\ Below(vrUr) \in Nat /\ Below(vrUr) <= built
      /\ ur \in SN /\ vrUr' = ur
      /\ Below(ur) \in Nat /\ Below(ur) <= Below(vrUr)
      /\ \A p \in buffer : Below(p.sn) <= Below(vrUr)
      /\ rxBuffer' = buffer \ Passed(buffer, ur)
      /\ ur = vrUr \/ \E p \in buffer : Below(p.sn) = Below(ur) + 1
  <2>1. UmTypes /\ PositionsOK /\ Below(vrUr) <= built /\ built \in Nat /\ vrUr \in SN
    BY DEF UmSduInv, UmInv, UmTypes
  <2>2. Below(vrUr) \in Nat /\ (ur \in SN => Below(ur) \in Nat)
    BY <2>1, BelowType
  <2>3. QED
    BY <2>1, <2>2 DEF Moved
<1>3. /\ sequenceNumber' = sequenceNumber /\ built' = built
  BY DEF txVars
<1>4. PICK m \in Nat \ {0} : m = First /\ m = (built + 1) - Below(vrUr)
  <2>1. (built + 1) - Below(vrUr) \in Nat \ {0}
    BY <1>2
  <2>2. QED
    BY <2>1 DEF First
<1>5. PICK to \in Nat \ {0} : to = (built + 1) - Below(ur) /\ to = First' /\ m <= to
                             /\ to <= built + 1
  <2>1. (built + 1) - Below(ur) \in Nat \ {0}
    BY <1>2
  <2>2. (built + 1) - Below(ur) = First'
    BY <1>2, <1>3 DEF First, Below
  <2>3. QED
    BY <1>2, <1>4, <2>1, <2>2
<1>6. /\ IsFiniteSet(buffer) /\ data' \subseteq data
      /\ rxBuffer \subseteq buffer /\ buffer \cup data' = data \cup rxBuffer
      /\ data' \cap buffer = {}
  BY DEF Placed
<1>7. Waiting(buffer, h)
  <2>1. \A p \in buffer : Numbered(p, h)
    BY <1>1, <1>6 DEF HistoryInv
  <2>2. \A p, q \in buffer : p.n = q.n => p = q
    BY <1>6 DEF UmSduInv
  <2>3. QED
    BY <1>2, <1>6, <2>1, <2>2 DEF Waiting
<1>8. PICK lost : lost = LostSdus'
  OBVIOUS
<1>9. /\ dropped \subseteq lost
      /\ \A p \in data' : p.n < to => SdusOf(p) \subseteq lost
  <2>1. lost = dropped' \cup UNION {SdusOf(p) : p \in {q \in data' : q.n < to}}
    BY <1>5, <1>8 DEF LostSdus, SdusOf
  <2>2. QED
    BY <2>1
<1>10. \A p \in data \cup rxBuffer : p \in buffer \/ p \in data'
  BY <1>6
<1>11. \A p \in buffer : p.n \in Nat /\ m <= p.n /\ (p \in Passed(buffer, ur) <=> p.n < to)
  <2>1. TAKE p \in buffer
  <2>2. p.n \in 1 .. built /\ Below(p.sn) = (built + 1) - p.n /\ Below(p.sn) <= Below(vrUr)
    BY <1>7 DEF Waiting, Numbered
  <2>3. p \in Passed(buffer, ur) <=> Below(ur) < Below(p.sn)
    BY DEF Passed
  <2>4. QED
    BY <1>2, <1>4, <1>5, <2>2, <2>3
<1>12. LostSdus \subseteq lost
  <2>1. ASSUME NEW p \in data, p.n < m PROVE SdusOf(p) \subseteq lost
    <3>1. p \in data'
      <4>1. SUFFICES ASSUME p \in buffer PROVE FALSE
        BY <1>10
      <4>2. QED
        BY <1>11, <2>1, <4>1
    <3>2. p.n \in Nat
      BY DEF UmSduInv, UmInv, UmTypes
    <3>3. p.n < to
      BY <1>5, <2>1, <3>2
    <3>4. QED
      BY <1>9, <3>1, <3>3
  <2>2. QED
    BY <1>4, <1>9, <2>1 DEF LostSdus
<1>13. ASSUME NEW x \in m .. to - 1
       PROVE  (\E p \in buffer : p.n = x) \/ SdusIn(h[x]) \subseteq lost
  <2>1. x \in First .. built /\ x < to
    BY <1>2, <1>4, <1>5
  <2>2. (\E p \in data \cup rxBuffer : p.n = x) \/ SdusIn(h[x]) \subseteq dropped
    BY <1>1, <2>1 DEF HistoryInv
  <2>3. ASSUME NEW p \in data', p.n = x PROVE SdusIn(h[x]) \subseteq lost
    <3>1. h[x] = p.field
      BY <1>1, <1>6, <2>3 DEF HistoryInv, Numbered
    <3>2. SdusIn(h[x]) = SdusOf(p)
      BY <3>1 DEF SdusIn, SdusOf
    <3>3. QED
      BY <1>9, <2>1, <2>3, <3>2
  <2>4. QED
    BY <1>9, <1>10, <2>2, <2>3
<1> DEFINE q == InOrder(Passed(buffer, ur), Base(vrUh))
<1>14. PICK N : InTurn(q, N, buffer, ur)
  BY <1>2, <1>7, PassedInTurn
<1>15. reassembly' = FoldLeft(ReassembleAndDeliver, reassembly, q)
  OBVIOUS
<1> HIDE DEF q
<1>16. Batch(q, N, m, to, h, lost)
  BY <1>2, <1>4, <1>5, <1>7, <1>13, <1>14, PassedIsBatch
<1> DEFINE next == TxPosition(txBuffer, sizes)
<1>17. Stands(reassembly', to, h, next, sizes, lost)
  <2>1. Stands(reassembly, m, h, next, sizes, LostSdus) /\ Fields(h, next, sizes)
    BY <1>1, <1>4 DEF HistoryInv
  <2> HIDE DEF next
  <2>2. Stands(reassembly, m, h, next, sizes, lost)
    BY <1>12, <2>1, StandsMore
  <2>3. N \in Nat /\ DOMAIN q = 1 .. N
    BY <1>14 DEF InTurn
  <2>4. QED
    BY <1>2, <1>15, <1>16, <2>1, <2>2, <2>3, StandsBatch
<1>18. ASSUME NEW x \in to .. built
       PROVE  (\E p \in data' \cup rxBuffer' : p.n = x) \/ SdusIn(h[x]) \subseteq dropped'
  <2>1. x \in First .. built /\ x \in Nat /\ ~(x < to)
    BY <1>2, <1>4, <1>5
  <2>2. (\E p \in data \cup rxBuffer : p.n = x) \/ SdusIn(h[x]) \subseteq dropped
    BY <1>1, <2>1 DEF HistoryInv
  <2>3. \A p \in buffer : p.n = x => p \in rxBuffer'
    BY <1>2, <1>11, <2>1
  <2>4. QED
    BY <1>10, <2>2, <2>3
<1>19. /\ data' \cup rxBuffer' \subseteq data \cup rxBuffer
       /\ IsFiniteSet(rxBuffer') /\ data' \cap rxBuffer' = {}
  <2>1. rxBuffer' \subseteq buffer
    BY <1>2
  <2>2. QED
    BY <1>6, <2>1, FS_Subset
<1>20. Below(vrUr') <= built
  BY <1>2
<1>21. to = (built + 1) - Below(vrUr')
  BY <1>2, <1>5
<1>22. QED
  BY <1>1, <1>8, <1>17, <1>18, <1>19, <1>20, <1>21, SameSender

\* Nothing is put before what is passed by: ReassembleOutsideWindow finds nothing.
LEMMA NothingBefore ==
    ASSUME NEW q, NEW N \in Nat, NEW S, q \in [1 .. N -> S]
    PROVE  ByValue({}) \o q = q
<1>1. IsFiniteSet({}) /\ Cardinality({}) = 0
  BY FS_EmptySet
<1>2. ByValue({}) \in [1 .. 0 -> {}]
  BY <1>1, Ordered DEF ByValue
<1>3. ByValue({}) = <<>>
  BY <1>2
<1>4. q \in Seq(S)
  OBVIOUS
<1>5. QED
  BY <1>3, <1>4, ConcatEmptySeq

\* PlacePdu is a move of the window: the new PDU has an SN that is not in the buffer.
LEMMA PlaceSdus ==
    ASSUME WindowSize > 1, UmSduInv, UmInv', UNCHANGED txVars,
           NEW pdu \in data, data' = data \ {pdu}, PlacePdu(pdu)
    PROVE  UmSduInv'
<1> DEFINE placed == {p \in rxBuffer : p.sn # pdu.sn} \cup {pdu}
<1>1. PICK h : HistoryInv(h)
  BY DEF UmSduInv
<1>2. placed = rxBuffer \cup {pdu}
  <2>1. SUFFICES ASSUME NEW p \in rxBuffer, p.sn = pdu.sn PROVE FALSE
    OBVIOUS
  <2>2. Numbered(p, h) /\ Numbered(pdu, h)
    BY <1>1 DEF HistoryInv
  <2>3. /\ p.n \in 1 .. built /\ Below(p.sn) = (built + 1) - p.n
        /\ pdu.n \in 1 .. built /\ Below(pdu.sn) = (built + 1) - pdu.n
        /\ built \in Nat
    BY <2>2 DEF Numbered, UmSduInv, UmInv, UmTypes
  <2>4. p.n = pdu.n
    BY <2>1, <2>3
  <2>5. QED
    BY <2>4 DEF UmSduInv
<1>3. PICK uh, ur : /\ Moved(placed, uh, ur)
                    /\ reassembly' =
                         FoldLeft(ReassembleAndDeliver, reassembly,
                                  ByValue({}) \o InOrder(Passed(placed, ur), Base(vrUh)))
  BY PlaceMoves DEF UmSduInv
<1>4. Placed(placed)
  <2>1. IsFiniteSet(placed)
    BY <1>2, FS_AddElement DEF UmSduInv
  <2>2. data \cap rxBuffer = {}
    BY DEF UmSduInv
  <2>3. QED
    BY <1>2, <2>1, <2>2 DEF Placed
<1>5. Waiting(placed, h)
  <2>1. \A p \in placed : Below(p.sn) <= Below(vrUr)
    BY <1>3 DEF Moved
  <2> HIDE DEF placed
  <2>2. IsFiniteSet(placed) /\ placed \subseteq data \cup rxBuffer
    BY <1>4 DEF Placed
  <2>3. QED
    BY <1>1, <2>1, <2>2 DEF Waiting, HistoryInv, UmSduInv
<1> HIDE DEF placed
<1> DEFINE q == InOrder(Passed(placed, ur), Base(vrUh))
<1>6. ByValue({}) \o q = q
  <2>1. UmTypes /\ PositionsOK
    BY DEF UmSduInv, UmInv
  <2>2. PICK N : InTurn(q, N, placed, ur)
    BY <1>5, <2>1, PassedInTurn
  <2> HIDE DEF q
  <2>3. N \in Nat /\ q \in [1 .. N -> Passed(placed, ur)]
    BY <2>2 DEF InTurn
  <2>4. QED
    BY <2>3, NothingBefore
<1>7. dropped' = dropped
  BY DEF PlacePdu
<1>8. reassembly' = FoldLeft(ReassembleAndDeliver, reassembly,
                             InOrder(Passed(placed, ur), Base(vrUh)))
  BY <1>3, <1>6
<1> HIDE DEF q
<1>9. QED
  BY <1>3, <1>4, <1>7, <1>8, MovedSdus

\* ExpireReorderingTimer is a move of the window, of what waits.
LEMMA ExpireSdus ==
    ASSUME UmSduInv, UmInv', ExpireReorderingTimer
    PROVE  UmSduInv'
<1>1. UNCHANGED txVars /\ data' = data /\ dropped' = dropped
  BY DEF ExpireReorderingTimer
<1>2. PICK ur : /\ Moved(rxBuffer, vrUh, ur)
                /\ reassembly' = FoldLeft(ReassembleAndDeliver, reassembly,
                                          InOrder(Passed(rxBuffer, ur), Base(vrUh)))
  BY ExpireMoves DEF UmSduInv
<1>3. Placed(rxBuffer)
  BY <1>1 DEF Placed, UmSduInv
<1>4. QED
  BY <1>1, <1>2, <1>3, MovedSdus

\* The invariant of the SDUs is inductive.
LEMMA UmSduNext ==
    ASSUME ReorderingIsPrompt, WindowSize > 1, UmSduInv, [Next]_vars
    PROVE  UmSduInv'
<1>1. UmInv'
  BY UmNext DEF UmSduInv
<1>2. ASSUME NEW size \in SduSizes, DoTransmitPdcpPdu(size) PROVE UmSduInv'
  BY <1>2, AcceptUm
<1>3. ASSUME NEW bytes \in OppSizes, DoNotifyTxOpportunity(bytes) PROVE UmSduInv'
  BY <1>1, <1>3, TransmitSdus
<1>4. CASE LosePdu
  BY <1>1, <1>4, GoneUm DEF LosePdu
<1>5. CASE DoReceivePdu
  <2>1. PICK pdu \in data : /\ data' = data \ {pdu}
                            /\ DiscardPdu(pdu) \/ PlacePdu(pdu)
                            /\ UNCHANGED txVars
    BY <1>5 DEF DoReceivePdu
  <2>2. CASE DiscardPdu(pdu)
    <3>1. UNCHANGED rxVars /\ dropped' = dropped \cup SdusOf(pdu)
      BY <2>2 DEF DiscardPdu
    <3>2. QED
      BY <1>1, <2>1, <3>1, GoneUm
  <2>3. CASE PlacePdu(pdu)
    BY <1>1, <2>1, <2>3, PlaceSdus
  <2>4. QED
    BY <2>1, <2>2, <2>3
<1>6. CASE ExpireReorderingTimer
  BY <1>1, <1>6, ExpireSdus
<1>7. CASE UNCHANGED vars
  BY <1>1, <1>7, StutterUm
<1>8. QED
  BY <1>2, <1>3, <1>4, <1>5, <1>6, <1>7 DEF Next

\* It holds in every behaviour.
LEMMA UmSduInvHolds ==
    ASSUME ReorderingIsPrompt, WindowSize > 1
    PROVE  Spec => []UmSduInv
<1>1. UmSduInv /\ [Next]_vars => UmSduInv' BY UmSduNext
<1>2. QED BY <1>1, UmSduInit, PTL DEF Spec

\* What was delivered is whole and in order.
LEMMA UmSduInvWhole == UmSduInv => WholeSdusInOrder
<1> SUFFICES ASSUME UmSduInv PROVE WholeSdusInOrder
  OBVIOUS
<1> DEFINE d == reassembly.delivered
<1>1. PICK bound : DeliveredOK(d, bound, sizes)
  BY DEF UmSduInv, HistoryInv, Stands, Reached
<1> HIDE DEF d
<1>2. ASSUME NEW i \in DOMAIN d PROVE IsWhole(d[i], sizes)
  BY <1>1 DEF DeliveredOK, Joined, IsWhole
<1>3. \A i, j \in DOMAIN d : i < j => d[i][1].sdu < d[j][1].sdu
  BY <1>1 DEF DeliveredOK
<1>4. QED
  BY <1>2, <1>3 DEF WholeSdusInOrder, d

\* When all is quiet nothing waits, so that all PDUs from the expected one on are
\* lost, and every SDU is delivered or lost.
LEMMA UmSduInvExplained == UmSduInv => LossExplained
<1> SUFFICES ASSUME UmSduInv, txBuffer = <<>>, data = {}, ~reorderingTimer,
                    NEW sdu \in 1 .. Len(sizes)
             PROVE  \/ sdu \in dropped
                    \/ \E i \in DOMAIN reassembly.delivered :
                          reassembly.delivered[i][1].sdu = sdu
  BY DEF LossExplained
<1>1. PICK h : HistoryInv(h)
  BY DEF UmSduInv
<1>2. rxBuffer = {}
  BY DEF UmSduInv, UmInv, WaitingOK, NothingWaitsUntimed
<1>3. LostSdus = dropped
  BY DEF LostSdus
<1> DEFINE next == TxPosition(txBuffer, sizes)
<1>4. next = <<Len(sizes) + 1, 0>>
  BY DEF TxPosition
<1> HIDE DEF next
<1>5. PICK m \in Nat \ {0} : m = First /\ m \in 1 .. built + 1
  <2>1. built \in Nat /\ Below(vrUr) \in Nat /\ Below(vrUr) <= built
    BY BelowType DEF UmSduInv, UmInv, UmTypes
  <2>2. (built + 1) - Below(vrUr) \in Nat \ {0} /\ (built + 1) - Below(vrUr) \in 1 .. built + 1
    BY <2>1
  <2>3. QED
    BY <2>2 DEF First
<1>6. PICK d, kept :
         d \in Seq(Seq(Piece)) /\ d = reassembly.delivered /\ Reached(d, At(h, next, m), kept, dropped, sizes)
  <2>1. /\ reassembly \in Reassembly
        /\ Reached(reassembly.delivered, At(h, next, m), reassembly.waitsRest, dropped, sizes)
    BY <1>1, <1>3, <1>5 DEF HistoryInv, Stands, next
  <2>2. QED
    BY <2>1 DEF Reassembly
<1>7. /\ h \in Seq(Seq(Piece)) /\ Len(h) = built /\ sizes \in Seq(Nat \ {0})
      /\ HistoryOK(h, next, sizes) /\ built \in Nat
  BY <1>1 DEF HistoryInv, Fields, next, UmSduInv, UmInv, UmTypes
<1>8. \A i \in m .. built : SdusIn(h[i]) \subseteq dropped
  BY <1>1, <1>2, <1>5 DEF HistoryInv
<1>9. PICK n : n = Len(h) + 1 /\ n \in 1 .. Len(h) + 1 /\ m \in 1 .. Len(h) + 1 /\ m <= n
              /\ n - 1 = built
  BY <1>5, <1>7
<1>10. PICK rest : Reached(d, At(h, next, n), rest, dropped, sizes)
  BY <1>6, <1>7, <1>8, <1>9, SkipFields
<1>11. At(h, next, n) = next
  BY <1>7, <1>9 DEF At
<1>12. 1 .. Len(sizes) \subseteq dropped \cup DeliveredSdus(d)
  <2>1. next[1] - 1 = Len(sizes)
    BY <1>4, <1>7
  <2>2. QED
    BY <1>10, <1>11, <2>1 DEF Reached, AccountedFor
<1>13. QED
  BY <1>6, <1>12 DEF DeliveredSdus

\* What RLC UM hands to PDCP are whole SDUs, in the order they were accepted and none
\* twice, whatever was lost or overtaken and wherever the SDUs were cut
\* (DoNotifyTxOpportunity, DoReceivePdu, ReassembleAndDeliver).
THEOREM UmWholeSdus ==
    ASSUME ReorderingIsPrompt, WindowSize > 1
    PROVE  Spec => []WholeSdusInOrder
BY UmSduInvHolds, UmSduInvWhole, PTL

\* The reassembly throws nothing away that it could deliver: when all is quiet, an
\* SDU that was not delivered had a PDU that was lost or came too late.
THEOREM UmLossExplained ==
    ASSUME ReorderingIsPrompt, WindowSize > 1
    PROVE  Spec => []LossExplained
BY UmSduInvHolds, UmSduInvExplained, PTL

=============================================================================
