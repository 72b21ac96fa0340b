------------------------- MODULE LteRlcAmSdusProofs -------------------------
(***************************************************************************)
(* Proofs about the SDUs of an RLC AM bearer.                              *)
(***************************************************************************)
EXTENDS LteRlcAmSdus, LteRlcFramingProofs

\* The first byte that the receiver lacks.
RxPosition(r) ==
    <<Len(r.delivered) + 1, IF r.waitsRest THEN SizeOf(r.keep, Len(r.keep)) ELSE 0>>

\* The PDUs of the channel ch follow each other in number and content, from the
\* number sn and the position pos of the receiver to those of the sender.
ChannelOK(ch, sn, pos, nextSn, nextPos, all) ==
    LET snAt(k)  == IF k > Len(ch) THEN nextSn ELSE ch[k].sn
        posAt(k) == IF k > Len(ch) THEN nextPos ELSE Start(ch[k].field[1])
    IN  /\ \A k \in DOMAIN ch :
               /\ FieldOK(ch[k].field, all)
               /\ snAt(k + 1) = Inc(ch[k].sn)
               /\ posAt(k + 1) = Stop(ch[k].field[Len(ch[k].field)], all)
        /\ snAt(1) = sn /\ posAt(1) = pos

\* What was delivered is whole, what is kept is the beginning of the next SDU.
ReceiverOK(r, all) ==
    /\ Len(r.delivered) <= Len(all)
    /\ \A i \in DOMAIN r.delivered :
           /\ Joined(r.delivered[i], i)
           /\ SizeOf(r.delivered[i], Len(r.delivered[i])) = all[i]
    /\ r.waitsRest => Joined(r.keep, Len(r.delivered) + 1)

Pdus == [sn : SN, field : Seq(Piece)]

SduTypeOK ==
    /\ sizes \in Seq(Nat \ {0}) /\ txonBuffer \in Seq(Piece) /\ vtS \in SN
    /\ channel \in Seq(Pdus) /\ reassembly \in Reassembly

\* The inductive invariant.
SduInv ==
    /\ SduTypeOK
    /\ QueueOK(txonBuffer, sizes)
    /\ ChannelOK(channel, reassembly.expected, RxPosition(reassembly),
                 vtS, TxPosition(txonBuffer, sizes), sizes)
    /\ ReceiverOK(reassembly, sizes)
    /\ PduFits
---------------------------------------------------------------------------
\* The header, from the bytes of the length indicators.
LEMMA HeaderSteps ==
    ASSUME NEW n \in Nat
    PROVE  HeaderLength(n) = FixedHeader + LiBytes(n)
BY DEF LiBytes, HeaderLength, FixedHeader

\* The data field fits into the opportunity.
LEMMA FieldFits ==
    ASSUME NEW queue \in Seq(Piece), queue # <<>>, NEW bytes \in Nat, bytes > FixedHeader
    PROVE  LET field == DataField(queue, bytes - FixedHeader)
           IN  HeaderLength(Len(field) - 1) + Bytes(field) <= bytes
<1> DEFINE room == bytes - FixedHeader
           field == DataField(queue, room)
<1>1. room \in Nat \ {0} /\ FixedHeader = 4 /\ bytes = room + 4
  BY DEF FixedHeader
<1> HIDE DEF room
<1>2. PICK n \in 1 .. Len(queue), size \in Nat \ {0} :
         /\ size = RoomAt(queue, room, n)
         /\ field \in Seq(Piece) /\ Len(field) = n
         /\ \A i \in 1 .. n - 1 : field[i] = queue[i]
         /\ \/ queue[n].len > size /\ field[n] = Cut(queue[n], size)
            \/ queue[n].len <= size /\ field[n] = queue[n]
  <2>1. PICK n \in 1 .. Len(queue), size \in Nat \ {0} :
           /\ size = RoomAt(queue, room, n)
           /\ Fills(queue, n, size, field, QueueAfter(queue, room))
    BY <1>1, Filled
  <2> HIDE DEF field
  <2>2. /\ field \in Seq(Piece) /\ Len(field) = n
        /\ \A i \in 1 .. n - 1 : field[i] = queue[i]
        /\ \/ queue[n].len > size /\ field[n] = Cut(queue[n], size)
           \/ queue[n].len <= size /\ field[n] = queue[n]
    BY <2>1 DEF Fills
  <2>3. QED
    BY <2>1, <2>2
<1> HIDE DEF field
<1>3. field[n].len \in Nat /\ field[n].len <= size
  <2>1. queue[n] \in Piece
    BY ElementOfSeq
  <2>2. queue[n].len \in Nat
    BY <2>1 DEF Piece
  <2>3. CASE queue[n].len > size /\ field[n] = Cut(queue[n], size)
    BY <2>1, <2>3, CutPieces
  <2>4. QED
    BY <1>2, <2>2, <2>3
<1>4. n \in Nat /\ n - 1 \in Nat /\ n - 1 \in 0 .. Len(queue) /\ n - 1 <= Len(queue)
      /\ n - 1 <= Len(field) /\ n \in 1 .. Len(field)
  BY <1>2
<1>5. SizeOf(field, n) = SizeOf(field, n - 1) + field[n].len
  BY <1>2, <1>4, SizeSteps
<1>6. SizeOf(field, n - 1) = SizeOf(queue, n - 1)
  BY <1>2, <1>4, SizeAgrees
<1>7. SizeOf(queue, n - 1) \in Nat
  BY <1>4, SizeType
<1>8. LiBytes(n - 1) \in Nat /\ HeaderLength(n - 1) = 4 + LiBytes(n - 1)
  BY <1>1, <1>4, LiBytesSteps, HeaderSteps
<1>9. HeaderLength(n - 1) + SizeOf(field, n) <= bytes
  <2>1. size = room - SizeOf(queue, n - 1) - LiBytes(n - 1)
    BY <1>2 DEF RoomAt
  <2>2. QED
    BY <1>1, <1>3, <1>5, <1>6, <1>7, <1>8, <2>1
<1>10. QED
  BY <1>2, <1>9 DEF room, field, Bytes

(***************************************************************************)
(* The channel.                                                            *)
(***************************************************************************)

\* A PDU that continues the channel is put at its end.
LEMMA ChannelAppend ==
    ASSUME NEW all, NEW ch \in Seq(Pdus), NEW sn, NEW pos, NEW nextSn \in SN, NEW nextPos,
           ChannelOK(ch, sn, pos, nextSn, nextPos, all),
           NEW field \in Seq(Piece), FieldOK(field, all), Start(field[1]) = nextPos
    PROVE  LET after == Append(ch, [sn |-> nextSn, field |-> field])
           IN  /\ after \in Seq(Pdus)
               /\ ChannelOK(after, sn, pos, Inc(nextSn), Stop(field[Len(field)], all), all)
<1> DEFINE pdu == [sn |-> nextSn, field |-> field]
           after == Append(ch, pdu)
           stop == Stop(field[Len(field)], all)
<1>1. pdu \in Pdus /\ pdu.sn = nextSn /\ pdu.field = field
  BY DEF Pdus
<1> HIDE DEF pdu
<1>2. /\ after \in Seq(Pdus) /\ Len(after) = Len(ch) + 1
      /\ DOMAIN after = 1 .. Len(ch) + 1
      /\ \A k \in 1 .. Len(ch) : after[k] = ch[k]
      /\ after[Len(ch) + 1] = pdu
      /\ Len(ch) \in Nat /\ DOMAIN ch = 1 .. Len(ch)
  BY <1>1
<1> HIDE DEF after
<1> DEFINE Sn(k) == IF k > Len(ch) THEN nextSn ELSE ch[k].sn
           Pos(k) == IF k > Len(ch) THEN nextPos ELSE Start(ch[k].field[1])
           SnA(k) == IF k > Len(after) THEN Inc(nextSn) ELSE after[k].sn
           PosA(k) == IF k > Len(after) THEN stop ELSE Start(after[k].field[1])
<1>3. /\ \A k \in 1 .. Len(ch) : /\ FieldOK(ch[k].field, all)
                                 /\ Sn(k + 1) = Inc(ch[k].sn)
                                 /\ Pos(k + 1) = Stop(ch[k].field[Len(ch[k].field)], all)
      /\ Sn(1) = sn /\ Pos(1) = pos
  BY <1>2 DEF ChannelOK
<1>4. \A k \in 1 .. Len(ch) + 1 : SnA(k) = Sn(k) /\ PosA(k) = Pos(k)
  <2>1. TAKE k \in 1 .. Len(ch) + 1
  <2>2. CASE k \in 1 .. Len(ch)
    BY <1>2, <2>2
  <2>3. CASE k = Len(ch) + 1
    BY <1>1, <1>2, <2>3
  <2>4. QED
    BY <1>2, <2>2, <2>3
<1>5. SnA(Len(ch) + 2) = Inc(nextSn) /\ PosA(Len(ch) + 2) = stop
  BY <1>2
<1> HIDE DEF Sn, Pos, SnA, PosA
<1>6. ASSUME NEW k \in 1 .. Len(ch) + 1
      PROVE  /\ FieldOK(after[k].field, all)
             /\ SnA(k + 1) = Inc(after[k].sn)
             /\ PosA(k + 1) = Stop(after[k].field[Len(after[k].field)], all)
  <2>1. CASE k \in 1 .. Len(ch)
    <3>1. after[k] = ch[k] /\ k + 1 \in 1 .. Len(ch) + 1
      BY <1>2, <2>1
    <3>2. QED
      BY <1>3, <1>4, <2>1, <3>1
  <2>2. CASE k = Len(ch) + 1
    <3>1. k + 1 = Len(ch) + 2 /\ after[k] = pdu
      BY <1>2, <2>2
    <3>2. QED
      BY <1>1, <1>5, <3>1
  <2>3. QED
    BY <1>2, <2>1, <2>2
<1>7. SnA(1) = sn /\ PosA(1) = pos
  <2>1. 1 \in 1 .. Len(ch) + 1
    BY <1>2
  <2>2. QED
    BY <1>3, <1>4, <2>1
<1>8. ChannelOK(after, sn, pos, Inc(nextSn), stop, all)
  BY <1>2, <1>6, <1>7 DEF ChannelOK, SnA, PosA
<1>9. QED
  BY <1>2, <1>8 DEF after, pdu

\* The PDU at the head of the channel is the one that the receiver waits for.
LEMMA ChannelTail ==
    ASSUME NEW all, NEW ch \in Seq(Pdus), ch # <<>>,
           NEW sn, NEW pos, NEW nextSn \in SN, NEW nextPos,
           ChannelOK(ch, sn, pos, nextSn, nextPos, all)
    PROVE  LET field == Head(ch).field
           IN  /\ Head(ch) \in Pdus /\ Tail(ch) \in Seq(Pdus)
               /\ Head(ch).sn = sn /\ Start(field[1]) = pos /\ FieldOK(field, all)
               /\ ChannelOK(Tail(ch), Inc(sn), Stop(field[Len(field)], all),
                            nextSn, nextPos, all)
<1> DEFINE after == Tail(ch)
           Sn(k) == IF k > Len(ch) THEN nextSn ELSE ch[k].sn
           Pos(k) == IF k > Len(ch) THEN nextPos ELSE Start(ch[k].field[1])
           SnA(k) == IF k > Len(after) THEN nextSn ELSE after[k].sn
           PosA(k) == IF k > Len(after) THEN nextPos ELSE Start(after[k].field[1])
<1>1. /\ Len(ch) \in Nat \ {0} /\ DOMAIN ch = 1 .. Len(ch) /\ Head(ch) = ch[1] /\ ch[1] \in Pdus
      /\ after \in Seq(Pdus) /\ Len(after) = Len(ch) - 1 /\ DOMAIN after = 1 .. Len(ch) - 1
      /\ \A k \in 1 .. Len(ch) - 1 : after[k] = ch[k + 1]
  OBVIOUS
<1> HIDE DEF after
<1>2. /\ \A k \in 1 .. Len(ch) : /\ FieldOK(ch[k].field, all)
                                 /\ Sn(k + 1) = Inc(ch[k].sn)
                                 /\ Pos(k + 1) = Stop(ch[k].field[Len(ch[k].field)], all)
      /\ Sn(1) = sn /\ Pos(1) = pos
  BY <1>1 DEF ChannelOK
<1>3. 1 \in 1 .. Len(ch) /\ ch[1].sn = sn /\ Start(ch[1].field[1]) = pos
  BY <1>1, <1>2
<1>4. \A k \in 1 .. Len(ch) : SnA(k) = Sn(k + 1) /\ PosA(k) = Pos(k + 1)
  <2>1. TAKE k \in 1 .. Len(ch)
  <2>2. CASE k \in 1 .. Len(ch) - 1
    BY <1>1, <2>2
  <2>3. CASE k = Len(ch)
    BY <1>1, <2>3
  <2>4. k \in 1 .. Len(ch) - 1 \/ k = Len(ch)
    <3>1. Len(ch) \in Nat
      BY <1>1
    <3>2. QED
      BY ONLY <3>1, k \in 1 .. Len(ch)
  <2>5. QED
    BY <2>2, <2>3, <2>4
<1> HIDE DEF Sn, Pos, SnA, PosA
<1>5. ASSUME NEW k \in 1 .. Len(ch) - 1
      PROVE  /\ FieldOK(after[k].field, all)
             /\ SnA(k + 1) = Inc(after[k].sn)
             /\ PosA(k + 1) = Stop(after[k].field[Len(after[k].field)], all)
  <2>1. after[k] = ch[k + 1] /\ k + 1 \in 1 .. Len(ch)
    BY <1>1
  <2>2. QED
    BY <1>2, <1>4, <2>1
<1>6. /\ SnA(1) = Inc(ch[1].sn)
      /\ PosA(1) = Stop(ch[1].field[Len(ch[1].field)], all)
  BY <1>2, <1>3, <1>4
<1>7. ChannelOK(after, Inc(sn), Stop(ch[1].field[Len(ch[1].field)], all),
                nextSn, nextPos, all)
  BY <1>1, <1>3, <1>5, <1>6 DEF ChannelOK, SnA, PosA
<1>8. QED
  BY <1>1, <1>2, <1>3, <1>7 DEF after

\* Another SDU changes nothing for what is in the channel.
LEMMA ChannelGrows ==
    ASSUME NEW all \in Seq(Nat \ {0}), NEW size \in Nat \ {0},
           NEW ch \in Seq(Pdus), NEW sn, NEW pos, NEW nextSn, NEW nextPos,
           ChannelOK(ch, sn, pos, nextSn, nextPos, all)
    PROVE  ChannelOK(ch, sn, pos, nextSn, nextPos, Append(all, size))
<1> DEFINE more == Append(all, size)
<1>1. ASSUME NEW k \in DOMAIN ch
      PROVE  /\ FieldOK(ch[k].field, more)
             /\ Stop(ch[k].field[Len(ch[k].field)], more)
                  = Stop(ch[k].field[Len(ch[k].field)], all)
  <2>1. PICK field : field = ch[k].field
    OBVIOUS
  <2>2. field \in Seq(Piece) /\ FieldOK(field, all)
    <3>1. ch[k] \in Pdus
      OBVIOUS
    <3>2. FieldOK(ch[k].field, all)
      BY DEF ChannelOK
    <3>3. QED
      BY <2>1, <3>1, <3>2 DEF Pdus
  <2>3. \A i \in DOMAIN field : field[i] \in Piece /\ PieceOK(field[i], all)
    BY <2>2 DEF FieldOK
  <2>4. \A i \in DOMAIN field : /\ PieceOK(field[i], more)
                                /\ Ends(field[i], more) <=> Ends(field[i], all)
                                /\ Stop(field[i], more) = Stop(field[i], all)
    BY <2>3, PieceGrows
  <2> HIDE DEF more
  <2>5. FieldOK(field, more)
    BY <2>2, <2>4 DEF FieldOK
  <2>6. Len(field) \in DOMAIN field
    BY <2>2 DEF FieldOK
  <2>7. QED
    BY <2>1, <2>4, <2>5, <2>6
<1> HIDE DEF more
<1>2. ChannelOK(ch, sn, pos, nextSn, nextPos, more)
  BY <1>1 DEF ChannelOK
<1>3. QED
  BY <1>2 DEF more

(***************************************************************************)
(* The receiver.                                                           *)
(***************************************************************************)


\* The receiver takes the next PDU: it delivers the SDUs that end in it, and keeps
\* the beginning of the one that does not.
LEMMA ReceivesField ==
    ASSUME NEW all \in Seq(Nat \ {0}), NEW r \in Reassembly, ReceiverOK(r, all),
           NEW pdu \in Pdus, pdu.sn = r.expected, FieldOK(pdu.field, all),
           Start(pdu.field[1]) = RxPosition(r)
    PROVE  LET after == ReassembleAndDeliver(r, pdu)
           IN  /\ after \in Reassembly /\ after.expected = Inc(pdu.sn)
               /\ ReceiverOK(after, all)
               /\ RxPosition(after) = Stop(pdu.field[Len(pdu.field)], all)
<1> DEFINE field == pdu.field
           n == Len(field)
           D == Len(r.delivered)
           sdus == r.sdus \o [i \in DOMAIN field |-> <<field[i]>>]
           packets == Packets(r, sdus, pdu)
           after == ReassembleAndDeliver(r, pdu)
<1>1. /\ r.expected \in SN /\ r.waitsRest \in BOOLEAN /\ r.keep \in Seq(Piece)
      /\ r.sdus = <<>> /\ r.delivered \in Seq(Seq(Piece)) /\ D \in Nat
      /\ DOMAIN r.delivered = 1 .. D
  BY DEF Reassembly
<1>2. field \in Seq(Piece) /\ pdu.sn \in SN
  BY DEF Pdus
<1>3. FieldOK(field, all) /\ Start(field[1]) = RxPosition(r)
  OBVIOUS
<1> HIDE DEF field
<1>4. n \in Nat \ {0} /\ DOMAIN field = 1 .. n /\ 1 \in 1 .. n /\ n \in 1 .. n
  BY <1>2, <1>3 DEF FieldOK
<1>5. /\ field[1].sdu = D + 1
      /\ field[1].from = IF r.waitsRest THEN SizeOf(r.keep, Len(r.keep)) ELSE 0
  BY <1>3 DEF Start, RxPosition
<1>6. \A i \in 1 .. n : /\ field[i] \in Piece /\ PieceOK(field[i], all)
                        /\ field[i].sdu = D + i
                        /\ i > 1 => field[i].from = 0
                        /\ i < n => Ends(field[i], all)
  <2>1. TAKE i \in 1 .. n
  <2>2. /\ field[i] \in Piece /\ PieceOK(field[i], all)
        /\ field[i].sdu = field[1].sdu + i - 1
        /\ i > 1 => field[i].from = 0
        /\ i < n => Ends(field[i], all)
    BY <1>2, <1>3, <1>4 DEF FieldOK
  <2>3. (D + 1) + i - 1 = D + i
    BY <1>1, <1>4
  <2>4. QED
    BY <1>5, <2>2, <2>3
<1>7. FirstByte(field) <=> ~r.waitsRest
  <2>1. FirstByte(field) <=> field[1].from = 0
    BY <1>4, <1>6 DEF FirstByte, PieceOK
  <2>2. r.waitsRest => SizeOf(r.keep, Len(r.keep)) # 0
    <3>1. HAVE r.waitsRest
    <3>2. r.keep # <<>>
      BY <3>1 DEF ReceiverOK, Joined
    <3>3. Len(r.keep) \in 1 .. Len(r.keep)
      BY <1>1, <3>2
    <3>4. SizeOf(r.keep, Len(r.keep)) > 0
      BY <1>1, <3>3, SizeType
    <3>5. QED
      BY <3>4
  <2>3. QED
    BY <1>5, <2>1, <2>2
<1>8. LastByte(field) <=> Ends(field[n], all)
  BY <1>4, <1>6 DEF LastByte, PieceOK
<1>9. ~Impossible(r, pdu)
  BY <1>7, AmSdusAssumption DEF Impossible, field
<1>10. /\ sdus \in Seq(Seq(Piece)) /\ Len(sdus) = n
       /\ \A i \in 1 .. n : sdus[i] = <<field[i]>>
  <2> DEFINE alone == [i \in DOMAIN field |-> <<field[i]>>]
  <2>1. alone \in Seq(Seq(Piece)) /\ Len(alone) = n /\ \A i \in 1 .. n : alone[i] = <<field[i]>>
    BY <1>4, <1>6
  <2> HIDE DEF alone
  <2>2. sdus = alone
    <3>1. sdus = <<>> \o alone
      BY <1>1 DEF alone
    <3>2. QED
      BY <2>1, <3>1, ConcatEmptySeq
  <2> HIDE DEF sdus
  <2>3. QED
    BY <2>1, <2>2
<1> HIDE DEF sdus
<1>11. /\ packets \in Seq(Seq(Piece)) /\ Len(packets) = n
       /\ \A i \in 1 .. n : /\ Joined(packets[i], D + i)
                            /\ SizeOf(packets[i], Len(packets[i])) = field[i].from + field[i].len
  <2>1. ASSUME NEW i \in 1 .. n, field[i].from = 0
        PROVE  /\ Joined(sdus[i], D + i)
               /\ SizeOf(sdus[i], Len(sdus[i])) = field[i].from + field[i].len
    <3>1. field[i] \in Piece /\ field[i].sdu = D + i /\ sdus[i] = <<field[i]>>
      BY <1>6, <1>10
    <3>2. QED
      BY <2>1, <3>1, JoinedAlone
  <2>2. CASE FirstByte(field)
    <3>1. packets = sdus
      BY <2>2 DEF Packets, field
    <3>2. \A i \in 1 .. n : field[i].from = 0
      BY <1>4, <1>5, <1>6, <1>7, <2>2
    <3> HIDE DEF packets
    <3>3. QED
      BY <1>10, <2>1, <3>1, <3>2
  <2>3. CASE ~FirstByte(field)
    <3> DEFINE joined == r.keep \o <<field[1]>>
               others == Tail(sdus)
    <3>1. r.waitsRest
      BY <1>7, <2>3
    <3>2. sdus # <<>> /\ Head(sdus) = <<field[1]>>
      BY <1>4, <1>10
    <3>3. packets = <<joined>> \o others
      BY <2>3, <3>1, <3>2 DEF Packets, field
    <3>4. /\ joined \in Seq(Piece) /\ Joined(joined, D + 1)
          /\ SizeOf(joined, Len(joined)) = field[1].from + field[1].len
      <4>1. Joined(r.keep, D + 1)
        BY <3>1 DEF ReceiverOK
      <4>2. field[1] \in Piece /\ field[1].sdu = D + 1
        BY <1>4, <1>6
      <4>3. field[1].from = SizeOf(r.keep, Len(r.keep))
        BY <1>5, <3>1
      <4>4. QED
        BY <1>1, <4>1, <4>2, <4>3, JoinedAppend
    <3> HIDE DEF joined
    <3>5. /\ others \in Seq(Seq(Piece)) /\ Len(others) = n - 1
          /\ \A i \in 1 .. n - 1 : others[i] = sdus[i + 1]
      BY <1>4, <1>10, <3>2
    <3> HIDE DEF others, packets
    <3>6. /\ packets \in Seq(Seq(Piece)) /\ Len(packets) = n
          /\ packets[1] = joined
          /\ \A i \in 2 .. n : packets[i] = sdus[i]
      <4>1. <<joined>> \in Seq(Seq(Piece)) /\ Len(<<joined>>) = 1 /\ <<joined>>[1] = joined
        BY <3>4
      <4>2. PICK one : one = <<joined>>
        OBVIOUS
      <4>3. one \in Seq(Seq(Piece)) /\ Len(one) = 1 /\ one[1] = joined
        BY <4>1, <4>2
      <4>4. PICK m \in Nat : m = n - 1 /\ 1 + m = n
        <5>1. n - 1 \in Nat /\ 1 + (n - 1) = n
          BY <1>4
        <5>2. QED
          BY <5>1
      <4>5. /\ one \o others \in Seq(Seq(Piece)) /\ Len(one \o others) = 1 + m
            /\ \A i \in 1 .. 1 : (one \o others)[i] = one[i]
            /\ \A i \in 1 .. m : (one \o others)[1 + i] = others[i]
        <5>1. /\ one \in Seq(Seq(Piece)) /\ others \in Seq(Seq(Piece))
              /\ Len(one) = 1 /\ Len(others) = m /\ 1 \in Nat
          BY <3>5, <4>3, <4>4
        <5>2. /\ one \o others \in Seq(Seq(Piece))
              /\ Len(one \o others) = Len(one) + Len(others)
              /\ \A i \in 1 .. Len(one) : (one \o others)[i] = one[i]
              /\ \A i \in 1 .. Len(others) : (one \o others)[Len(one) + i] = others[i]
          BY <5>1, Concatenation
        <5>3. QED
          BY <5>1, <5>2
      <4>6. packets = one \o others
        BY <3>3, <4>2
      <4>7. packets \in Seq(Seq(Piece)) /\ Len(packets) = n /\ packets[1] = joined
        BY <4>3, <4>4, <4>5, <4>6
      <4>8. ASSUME NEW i \in 2 .. n PROVE packets[i] = sdus[i]
        <5>1. PICK j \in 1 .. m : i = 1 + j /\ j + 1 = i
          <6>1. n \in Nat /\ i - 1 \in 1 .. m
            BY <1>4, <4>4
          <6>2. QED
            BY <6>1
        <5>2. packets[i] = others[j]
          BY <4>5, <4>6, <5>1
        <5>3. others[j] = sdus[j + 1]
          BY <3>5, <4>4, <5>1
        <5>4. QED
          BY <5>1, <5>2, <5>3
      <4>9. QED
        BY <4>7, <4>8
    <3>7. ASSUME NEW i \in 1 .. n
          PROVE  /\ Joined(packets[i], D + i)
                 /\ SizeOf(packets[i], Len(packets[i])) = field[i].from + field[i].len
      <4>1. CASE i = 1
        BY <3>4, <3>6, <4>1
      <4>2. CASE i > 1
        <5>1. packets[i] = sdus[i] /\ field[i].from = 0
          BY <1>4, <1>6, <3>6, <4>2
        <5>2. QED
          BY <2>1, <5>1
      <4>3. QED
        BY <1>4, <4>1, <4>2
    <3>8. QED
      BY <3>6, <3>7
  <2>4. QED
    BY <2>2, <2>3
<1>12. packets # <<>>
  BY <1>4, <1>11
<1> HIDE DEF packets, after
<1>13. \A i \in 1 .. D : /\ Joined(r.delivered[i], i)
                         /\ SizeOf(r.delivered[i], Len(r.delivered[i])) = all[i]
  BY <1>1 DEF ReceiverOK
<1>14. \A i \in 1 .. n : Ends(field[i], all) =>
                           SizeOf(packets[i], Len(packets[i])) = all[D + i]
  BY <1>6, <1>11 DEF Ends
<1>15. D + n <= Len(all)
  <2>1. D + n \in DOMAIN all
    BY <1>4, <1>6 DEF PieceOK
  <2>2. DOMAIN all = 1 .. Len(all)
    OBVIOUS
  <2>3. QED
    BY <2>1, <2>2
<1>16. CASE LastByte(field)
  <2>1. after = [[r EXCEPT !.expected = Inc(pdu.sn)] EXCEPT
                   !.waitsRest = FALSE, !.sdus = <<>>, !.delivered = @ \o packets]
    BY <1>9, <1>16 DEF after, ReassembleAndDeliver, packets, sdus, field
  <2>2. r.delivered \o packets \in Seq(Seq(Piece))
    BY <1>1, <1>11
  <2>3. Inc(pdu.sn) \in SN
    BY <1>2, IncDecType
  <2>4. /\ after \in Reassembly /\ after.expected = Inc(pdu.sn) /\ after.waitsRest = FALSE
        /\ after.delivered = r.delivered \o packets
    BY <2>1, <2>2, <2>3 DEF Reassembly
  <2>5. \A i \in 1 .. n : Ends(field[i], all)
    BY <1>4, <1>6, <1>8, <1>16
  <2> DEFINE delivered == r.delivered \o packets
  <2>6. /\ Len(delivered) = D + n /\ DOMAIN delivered = 1 .. D + n
        /\ \A i \in 1 .. D : delivered[i] = r.delivered[i]
        /\ \A i \in 1 .. n : delivered[D + i] = packets[i]
    <3>1. packets \in Seq(Seq(Piece)) /\ Len(packets) = n
      BY <1>11
    <3>2. /\ Len(delivered) = Len(r.delivered) + Len(packets)
          /\ DOMAIN delivered = 1 .. Len(r.delivered) + Len(packets)
          /\ \A i \in 1 .. Len(r.delivered) : delivered[i] = r.delivered[i]
          /\ \A i \in 1 .. Len(packets) : delivered[Len(r.delivered) + i] = packets[i]
      BY <1>1, <3>1, Concatenation
    <3>3. QED
      BY <3>1, <3>2
  <2> HIDE DEF delivered
  <2>7. ASSUME NEW i \in 1 .. D + n
        PROVE  /\ Joined(delivered[i], i)
               /\ SizeOf(delivered[i], Len(delivered[i])) = all[i]
    <3>1. CASE i \in 1 .. D
      BY <1>13, <2>6, <3>1
    <3>2. ASSUME NEW j \in 1 .. n, i = D + j
          PROVE  /\ Joined(delivered[i], i)
                 /\ SizeOf(delivered[i], Len(delivered[i])) = all[i]
      <4>1. delivered[i] = packets[j]
        BY <2>6, <3>2
      <4>2. QED
        BY <1>11, <1>14, <2>5, <3>2, <4>1
    <3>3. i \in 1 .. D \/ \E j \in 1 .. n : i = D + j
      <4>1. n \in Nat
        BY <1>4
      <4>2. QED
        BY <1>1, <4>1, SplitIndex
    <3>4. QED
      BY <3>1, <3>2, <3>3
  <2>8. ReceiverOK(after, all)
    BY <1>15, <2>4, <2>6, <2>7 DEF ReceiverOK, delivered
  <2>9. RxPosition(after) = <<D + n + 1, 0>>
    BY <2>4, <2>6 DEF RxPosition, delivered
  <2>10. Stop(field[n], all) = <<D + n + 1, 0>>
    BY <1>4, <1>6, <2>5 DEF Stop
  <2>11. QED
    BY <2>4, <2>8, <2>9, <2>10 DEF after, field
<1>17. CASE ~LastByte(field)
  <2> DEFINE ended == SubSeq(packets, 1, n - 1)
             delivered == r.delivered \o ended
  <2>1. after = [[r EXCEPT !.expected = Inc(pdu.sn)] EXCEPT
                   !.waitsRest = TRUE, !.sdus = <<>>, !.keep = packets[n],
                   !.delivered = @ \o ended]
    BY <1>9, <1>11, <1>12, <1>17 DEF after, ReassembleAndDeliver, packets, sdus, field
  <2>2. /\ ended \in Seq(Seq(Piece)) /\ Len(ended) = n - 1
        /\ \A i \in 1 .. n - 1 : ended[i] = packets[i]
    BY <1>4, <1>11
  <2> HIDE DEF ended
  <2>3. delivered \in Seq(Seq(Piece)) /\ packets[n] \in Seq(Piece)
    BY <1>1, <1>4, <1>11, <2>2
  <2>4. Inc(pdu.sn) \in SN
    BY <1>2, IncDecType
  <2>5. /\ after \in Reassembly /\ after.expected = Inc(pdu.sn) /\ after.waitsRest = TRUE
        /\ after.keep = packets[n] /\ after.delivered = delivered
    BY <2>1, <2>3, <2>4 DEF Reassembly
  <2>6. PICK m \in Nat : m = n - 1
    <3>1. n - 1 \in Nat
      BY <1>4
    <3>2. QED
      BY <3>1
  <2>7. /\ Len(delivered) = D + m /\ DOMAIN delivered = 1 .. D + m
        /\ \A i \in 1 .. D : delivered[i] = r.delivered[i]
        /\ \A i \in 1 .. m : delivered[D + i] = ended[i]
    <3>1. ended \in Seq(Seq(Piece)) /\ Len(ended) = m
      BY <2>2, <2>6
    <3>2. /\ Len(delivered) = Len(r.delivered) + Len(ended)
          /\ DOMAIN delivered = 1 .. Len(r.delivered) + Len(ended)
          /\ \A i \in 1 .. Len(r.delivered) : delivered[i] = r.delivered[i]
          /\ \A i \in 1 .. Len(ended) : delivered[Len(r.delivered) + i] = ended[i]
      BY <1>1, <3>1, Concatenation
    <3>3. QED
      BY <3>1, <3>2
  <2> HIDE DEF delivered
  <2>8. ASSUME NEW i \in 1 .. D + m
        PROVE  /\ Joined(delivered[i], i)
               /\ SizeOf(delivered[i], Len(delivered[i])) = all[i]
    <3>1. CASE i \in 1 .. D
      BY <1>13, <2>7, <3>1
    <3>2. ASSUME NEW j \in 1 .. m, i = D + j
          PROVE  /\ Joined(delivered[i], i)
                 /\ SizeOf(delivered[i], Len(delivered[i])) = all[i]
      <4>1. j \in 1 .. n /\ j < n
        BY <1>4, <2>6
      <4>2. Ends(field[j], all)
        BY <1>6, <4>1
      <4>3. delivered[i] = packets[j]
        BY <2>2, <2>6, <2>7, <3>2
      <4>4. QED
        BY <1>11, <1>14, <3>2, <4>1, <4>2, <4>3
    <3>3. i \in 1 .. D \/ \E j \in 1 .. m : i = D + j
      BY <1>1, SplitIndex
    <3>4. QED
      BY <3>1, <3>2, <3>3
  <2>9. (D + m) + 1 = D + n
    BY <1>1, <1>4, <2>6
  <2>10. Joined(after.keep, Len(after.delivered) + 1)
    BY <1>4, <1>11, <2>5, <2>7, <2>9
  <2>11. ReceiverOK(after, all)
    <3>1. D + m <= Len(all)
      BY <1>1, <1>4, <1>15, <2>6
    <3>2. QED
      BY <2>5, <2>7, <2>10, <2>8, <3>1 DEF ReceiverOK
  <2>12. RxPosition(after) = <<D + n, field[n].from + field[n].len>>
    BY <1>4, <1>11, <2>5, <2>7, <2>9 DEF RxPosition
  <2>13. Stop(field[n], all) = <<D + n, field[n].from + field[n].len>>
    BY <1>4, <1>6, <1>8, <1>17 DEF Stop
  <2>14. QED
    BY <2>5, <2>11, <2>12, <2>13 DEF after, field
<1>18. QED
  BY <1>16, <1>17

(***************************************************************************)
(* The inductive invariant.                                                *)
(***************************************************************************)

\* Nothing was accepted yet.
LEMMA InitInv == Init => SduInv
<1>1. SUFFICES ASSUME Init PROVE SduInv
  OBVIOUS
<1>2. /\ txonBuffer = <<>> /\ vtS = 0 /\ sizes = <<>> /\ channel = <<>>
      /\ lastPdu = [size |-> 0, opportunity |-> 0] /\ reassembly = NothingReassembled
  BY <1>1 DEF Init
<1>3. /\ reassembly.expected = 0 /\ reassembly.waitsRest = FALSE
      /\ reassembly.delivered = <<>> /\ reassembly \in Reassembly /\ vtS \in SN
  BY <1>2, SequenceNumberAssumption DEF NothingReassembled, Reassembly, SN
<1>4. SduTypeOK
  BY <1>2, <1>3 DEF SduTypeOK
<1>5. QueueOK(txonBuffer, sizes)
  BY <1>2 DEF QueueOK
<1>6. RxPosition(reassembly) = <<1, 0>> /\ TxPosition(txonBuffer, sizes) = <<1, 0>>
  BY <1>2, <1>3 DEF RxPosition, TxPosition
<1>7. ChannelOK(channel, reassembly.expected, RxPosition(reassembly),
                vtS, TxPosition(txonBuffer, sizes), sizes)
  BY <1>2, <1>3, <1>6 DEF ChannelOK
<1>8. ReceiverOK(reassembly, sizes)
  BY <1>3 DEF ReceiverOK
<1>9. PduFits
  BY <1>2 DEF PduFits
<1>10. QED
  BY <1>4, <1>5, <1>7, <1>8, <1>9 DEF SduInv

\* A PDCP PDU is put at the end of the queue.
LEMMA AcceptStep ==
    ASSUME SduInv, NEW size \in SduSizes, DoTransmitPdcpPdu(size)
    PROVE  SduInv'
<1> DEFINE more == Append(sizes, size)
           queue == Append(txonBuffer, FullSdu(Len(sizes) + 1, size))
<1>1. /\ sizes \in Seq(Nat \ {0}) /\ txonBuffer \in Seq(Piece) /\ Len(sizes) \in Nat
      /\ channel \in Seq(Pdus) /\ reassembly \in Reassembly /\ vtS \in SN
      /\ QueueOK(txonBuffer, sizes)
  BY DEF SduInv, SduTypeOK
<1>2. /\ size \in Nat \ {0} /\ txonBuffer' = queue /\ sizes' = more
      /\ vtS' = vtS /\ channel' = channel /\ lastPdu' = lastPdu /\ reassembly' = reassembly
  BY AmSdusAssumption DEF DoTransmitPdcpPdu
<1>3. /\ more \in Seq(Nat \ {0}) /\ Len(more) = Len(sizes) + 1
      /\ DOMAIN more = 1 .. Len(sizes) + 1
      /\ \A i \in 1 .. Len(sizes) : more[i] = sizes[i]
  BY <1>1, <1>2
<1>4. /\ queue \in Seq(Piece) /\ QueueOK(queue, more)
      /\ TxPosition(queue, more) = TxPosition(txonBuffer, sizes)
  BY <1>1, <1>2, QueueAppend
<1> HIDE DEF more, queue
<1>5. ChannelOK(channel, reassembly.expected, RxPosition(reassembly),
                vtS, TxPosition(queue, more), more)
  <2>1. ChannelOK(channel, reassembly.expected, RxPosition(reassembly),
                  vtS, TxPosition(txonBuffer, sizes), sizes)
    BY DEF SduInv
  <2>2. QED
    BY <1>1, <1>2, <1>4, <2>1, ChannelGrows DEF more
<1>6. /\ Len(reassembly.delivered) <= Len(more)
      /\ \A i \in DOMAIN reassembly.delivered : i \in 1 .. Len(sizes)
  <2>1. reassembly.delivered \in Seq(Seq(Piece))
    BY <1>1 DEF Reassembly
  <2>2. Len(reassembly.delivered) <= Len(sizes)
    BY DEF SduInv, ReceiverOK
  <2>3. PICK D \in Nat : D = Len(reassembly.delivered)
    BY <2>1
  <2>4. DOMAIN reassembly.delivered = 1 .. D
    BY <2>1, <2>3
  <2>5. D <= Len(sizes)
    BY <2>2, <2>3
  <2>6. D <= Len(more) /\ \A i \in 1 .. D : i \in 1 .. Len(sizes)
    BY <1>1, <1>3, <2>5
  <2>7. QED
    BY <2>3, <2>4, <2>6
<1>7. ReceiverOK(reassembly, more)
  BY <1>3, <1>6 DEF SduInv, ReceiverOK
<1>8. SduTypeOK'
  BY <1>1, <1>2, <1>3, <1>4 DEF SduTypeOK
<1>9. PduFits'
  BY <1>2 DEF SduInv, PduFits
<1>10. QED
  BY <1>2, <1>4, <1>5, <1>7, <1>8, <1>9 DEF SduInv

\* A PDU takes from the queue what comes next.
LEMMA TransmitStep ==
    ASSUME SduInv, NEW bytes \in OppSizes, TransmitNew(bytes)
    PROVE  SduInv'
<1> DEFINE room == bytes - FixedHeader
           field == DataField(txonBuffer, room)
           after == QueueAfter(txonBuffer, room)
           size == HeaderLength(Len(field) - 1) + Bytes(field)
           stop == Stop(field[Len(field)], sizes)
           more == Append(channel, [sn |-> vtS, field |-> field])
<1>1. /\ sizes \in Seq(Nat \ {0}) /\ txonBuffer \in Seq(Piece) /\ vtS \in SN
      /\ channel \in Seq(Pdus) /\ reassembly \in Reassembly
      /\ QueueOK(txonBuffer, sizes) /\ ReceiverOK(reassembly, sizes)
  BY DEF SduInv, SduTypeOK
<1>2. /\ txonBuffer # <<>>
      /\ channel' = more /\ txonBuffer' = after /\ vtS' = Inc(vtS)
      /\ lastPdu' = [size |-> size, opportunity |-> bytes]
      /\ sizes' = sizes /\ reassembly' = reassembly
  BY DEF TransmitNew
<1>3. bytes \in Nat /\ bytes > FixedHeader /\ room \in Nat \ {0}
  BY AmSdusAssumption DEF TransmitNew, FixedHeader
<1>4. size <= bytes
  BY <1>1, <1>2, <1>3, FieldFits
<1> HIDE DEF room
<1>5. /\ field \in Seq(Piece) /\ after \in Seq(Piece)
      /\ FieldOK(field, sizes) /\ QueueOK(after, sizes)
      /\ Start(field[1]) = Start(txonBuffer[1])
      /\ stop = TxPosition(after, sizes)
  BY <1>1, <1>2, <1>3, FieldOfQueue
<1> HIDE DEF field, after, stop
<1>6. TxPosition(txonBuffer, sizes) = Start(field[1])
  BY <1>2, <1>5 DEF TxPosition
<1>7. ChannelOK(channel, reassembly.expected, RxPosition(reassembly),
                vtS, TxPosition(txonBuffer, sizes), sizes)
  BY DEF SduInv
<1>8. /\ more \in Seq(Pdus)
      /\ ChannelOK(more, reassembly.expected, RxPosition(reassembly),
                   Inc(vtS), TxPosition(after, sizes), sizes)
  BY <1>1, <1>5, <1>6, <1>7, ChannelAppend DEF stop
<1> HIDE DEF more, size
<1>9. SduTypeOK'
  BY <1>1, <1>2, <1>5, <1>8, IncDecType DEF SduTypeOK
<1>10. PduFits'
  BY <1>2, <1>4 DEF PduFits
<1>11. QED
  BY <1>1, <1>2, <1>5, <1>8, <1>9, <1>10 DEF SduInv

\* The receiver takes the PDU at the head of the channel.
LEMMA ReceiveStep ==
    ASSUME SduInv, Receive
    PROVE  SduInv'
<1> DEFINE pdu == Head(channel)
           stop == Stop(pdu.field[Len(pdu.field)], sizes)
           after == ReassembleAndDeliver(reassembly, pdu)
<1>1. /\ sizes \in Seq(Nat \ {0}) /\ txonBuffer \in Seq(Piece) /\ vtS \in SN
      /\ channel \in Seq(Pdus) /\ reassembly \in Reassembly
      /\ QueueOK(txonBuffer, sizes) /\ ReceiverOK(reassembly, sizes)
  BY DEF SduInv, SduTypeOK
<1>2. /\ channel # <<>> /\ channel' = Tail(channel) /\ reassembly' = after
      /\ UNCHANGED <<txonBuffer, vtS, sizes, lastPdu>>
  BY DEF Receive
<1>3. ChannelOK(channel, reassembly.expected, RxPosition(reassembly),
                vtS, TxPosition(txonBuffer, sizes), sizes)
  BY DEF SduInv
<1>4. /\ pdu \in Pdus /\ Tail(channel) \in Seq(Pdus)
      /\ pdu.sn = reassembly.expected /\ Start(pdu.field[1]) = RxPosition(reassembly)
      /\ FieldOK(pdu.field, sizes)
      /\ ChannelOK(Tail(channel), Inc(reassembly.expected), stop,
                   vtS, TxPosition(txonBuffer, sizes), sizes)
  BY <1>1, <1>2, <1>3, ChannelTail
<1> HIDE DEF pdu
<1>5. /\ after \in Reassembly /\ after.expected = Inc(pdu.sn)
      /\ ReceiverOK(after, sizes) /\ RxPosition(after) = stop
  BY <1>1, <1>4, ReceivesField
<1> HIDE DEF after, stop
<1>6. SduTypeOK'
  BY <1>1, <1>2, <1>4, <1>5 DEF SduTypeOK
<1>7. ChannelOK(Tail(channel), after.expected, RxPosition(after),
                vtS, TxPosition(txonBuffer, sizes), sizes)
  BY <1>4, <1>5
<1>8. PduFits'
  BY <1>2 DEF SduInv, PduFits
<1>9. QED
  BY <1>1, <1>2, <1>5, <1>6, <1>7, <1>8 DEF SduInv

\* The invariant is inductive.
LEMMA StepInv == SduInv /\ [Next]_vars => SduInv'
<1>1. SUFFICES ASSUME SduInv, [Next]_vars PROVE SduInv'
  OBVIOUS
<1>2. CASE UNCHANGED vars
  BY <1>1, <1>2 DEF vars, SduInv, SduTypeOK, PduFits
<1>3. CASE \E size \in SduSizes : DoTransmitPdcpPdu(size)
  BY <1>1, <1>3, AcceptStep
<1>4. CASE \E bytes \in OppSizes : TransmitNew(bytes)
  BY <1>1, <1>4, TransmitStep
<1>5. CASE Receive
  BY <1>1, <1>5, ReceiveStep
<1>6. QED
  BY <1>1, <1>2, <1>3, <1>4, <1>5 DEF Next

\* Delivered SDUs are whole, and all of them when nothing is on its way.
LEMMA InvImpliesInOrder == SduInv => EverySduInOrder
<1>1. SUFFICES ASSUME SduInv PROVE EverySduInOrder
  OBVIOUS
<1> DEFINE delivered == reassembly.delivered
<1>2. /\ delivered \in Seq(Seq(Piece)) /\ reassembly.waitsRest \in BOOLEAN
      /\ channel \in Seq(Pdus) /\ sizes \in Seq(Nat \ {0})
  BY <1>1 DEF SduInv, SduTypeOK, Reassembly
<1>3. ASSUME NEW i \in DOMAIN delivered
      PROVE  delivered[i][1].sdu = i /\ IsWhole(delivered[i], sizes)
  <2>1. PICK packet : packet = delivered[i]
    OBVIOUS
  <2>2. /\ packet \in Seq(Piece) /\ Joined(packet, i)
        /\ SizeOf(packet, Len(packet)) = sizes[i]
    BY <1>1, <1>2, <2>1 DEF SduInv, ReceiverOK
  <2>3. 1 \in DOMAIN packet
    BY <2>2 DEF Joined
  <2>4. packet[1].sdu = i
    BY <2>2, <2>3 DEF Joined
  <2>5. IsWhole(packet, sizes)
    BY <2>2, <2>4 DEF Joined, IsWhole
  <2>6. QED
    BY <2>1, <2>4, <2>5
<1>4. ASSUME txonBuffer = <<>>, channel = <<>>
      PROVE  Len(delivered) = Len(sizes)
  <2>1. TxPosition(txonBuffer, sizes) = RxPosition(reassembly)
    BY <1>1, <1>2, <1>4 DEF SduInv, ChannelOK
  <2>2. Len(sizes) + 1 = Len(delivered) + 1
    BY <1>4, <2>1 DEF TxPosition, RxPosition
  <2>3. Len(sizes) \in Nat /\ Len(delivered) \in Nat
    BY <1>2
  <2>4. QED
    BY <2>2, <2>3
<1>5. QED
  BY <1>3, <1>4 DEF EverySduInOrder

(***************************************************************************)
(* Theorems.                                                               *)
(***************************************************************************)

\* Whatever the sizes of the SDUs and of the transmission opportunities: when every
\* PDU arrives once and in order, every SDU is handed to PDCP whole and in the order
\* of acceptance, and what was not handed over is in the queue or in the channel.
THEOREM SdusInOrder == Spec => []EverySduInOrder
<1>1. Spec => []SduInv
  BY InitInv, StepInv, PTL DEF Spec
<1>2. QED
  BY <1>1, InvImpliesInOrder, PTL

\* A PDU with its header and its length indicators never exceeds the transmission
\* opportunity that it is made for.
THEOREM PduAlwaysFits == Spec => []PduFits
<1>1. SduInv => PduFits
  BY DEF SduInv
<1>2. QED
  BY <1>1, InitInv, StepInv, PTL DEF Spec
=============================================================================
