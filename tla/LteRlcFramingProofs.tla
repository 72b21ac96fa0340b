------------------------ MODULE LteRlcFramingProofs ------------------------
(***************************************************************************)
(* What the framing of LteRlcFraming guarantees by itself: how the bytes   *)
(* of pieces add up, what a data field takes from the queue and what it    *)
(* leaves there, and how pieces of an SDU are joined again.                *)
(***************************************************************************)
EXTENDS LteRlcFraming, SequenceNumber10Proofs, SequenceTheorems, FiniteSetTheorems

Tags == {"FULL_SDU", "FIRST_SEGMENT", "MIDDLE_SEGMENT", "LAST_SEGMENT"}
Piece == [sdu : Nat \ {0}, from : Nat, len : Nat \ {0}, status : Tags]

\* The piece has the last byte of its SDU; all are the sizes of the SDUs.
Ends(p, all) == p.from + p.len = all[p.sdu]

\* A part of an SDU that was accepted, with the status tag that it should have.
PieceOK(p, all) ==
    /\ p.sdu \in DOMAIN all
    /\ p.from + p.len <= all[p.sdu]
    /\ p.status \in {"FULL_SDU", "FIRST_SEGMENT"} <=> p.from = 0
    /\ p.status \in {"FULL_SDU", "LAST_SEGMENT"} <=> Ends(p, all)

\* Where a piece begins in the sequence of all bytes, and where it stops.
Start(p) == <<p.sdu, p.from>>
Stop(p, all) == IF Ends(p, all) THEN <<p.sdu + 1, 0>> ELSE <<p.sdu, p.from + p.len>>

\* What waits are whole SDUs, up to the last one accepted; of the first some bytes
\* may have gone.
QueueOK(queue, all) ==
    \A i \in DOMAIN queue :
        /\ PieceOK(queue[i], all) /\ Ends(queue[i], all)
        /\ queue[i].sdu = Len(all) - Len(queue) + i
        /\ i > 1 => queue[i].from = 0

\* A data field holds consecutive SDUs; of the last one some bytes may be missing.
FieldOK(field, all) ==
    /\ field # <<>>
    /\ \A i \in DOMAIN field :
           /\ PieceOK(field[i], all)
           /\ field[i].sdu = field[1].sdu + i - 1
           /\ i > 1 => field[i].from = 0
           /\ i < Len(field) => Ends(field[i], all)

\* The first byte that is not in a PDU yet.
TxPosition(queue, all) == IF queue = <<>> THEN <<Len(all) + 1, 0>> ELSE Start(queue[1])


\* The bytes of an SDU from the first on.
Joined(packet, sdu) ==
    /\ packet # <<>>
    /\ \A i \in DOMAIN packet : packet[i].sdu = sdu /\ packet[i].from = SizeOf(packet, i - 1)

\* The state of the reassembly; nothing stays in m_sdusBuffer.
Reassembly ==
    [expected : SN, waitsRest : BOOLEAN, keep : Seq(Piece), sdus : {<<>>},
     delivered : Seq(Seq(Piece))]
---------------------------------------------------------------------------
(***************************************************************************)
(* The bytes of pieces: FoldLeft takes the indices from the greatest down, *)
(* by a function on all sets of them.                                      *)
(***************************************************************************)

\* g adds up the lengths of the pieces of q for the sets of D, as FoldLeft does.
AddsUp(g, q, D) ==
    g = [s \in D |-> IF s = {} THEN 0 ELSE g[s \ {Max(s)}] + q[Max(s)].len]

\* A set of the first n numbers has a greatest.
LEMMA MaxOfSome ==
    ASSUME NEW n \in Nat, NEW s \in SUBSET (1 .. n), s # {}
    PROVE  Max(s) \in s /\ \A y \in s : Max(s) >= y
<1> DEFINE T == {n - x : x \in s}
<1>1. T \in SUBSET Nat /\ T # {}
  <2>1. \A x \in s : n - x \in Nat
    OBVIOUS
  <2>2. PICK x \in s : TRUE
    OBVIOUS
  <2>3. n - x \in T
    OBVIOUS
  <2>4. T \in SUBSET Nat
    BY <2>1
  <2>5. QED
    BY <2>3, <2>4
<1> HIDE DEF T
<1>2. PICK t \in T : \A u \in T : t <= u
  BY <1>1, LeastNat
<1> USE DEF T
<1>3. PICK x \in s : t = n - x
  OBVIOUS
<1>4. \A y \in s : x >= y
  <2>1. TAKE y \in s
  <2>2. n - x <= n - y
    BY <1>2, <1>3
  <2>3. QED
    BY <2>2
<1>5. QED
  BY <1>3, <1>4 DEF Max

\* Of all of them it is n.
LEMMA MaxOfAll ==
    ASSUME NEW n \in Nat \ {0}
    PROVE  Max(1 .. n) = n /\ (1 .. n) \ {n} = 1 .. (n - 1)
<1>1. n \in 1 .. n /\ 1 .. n # {}
  OBVIOUS
<1>2. Max(1 .. n) \in 1 .. n /\ Max(1 .. n) >= n
  BY <1>1, MaxOfSome
<1>3. QED
  BY <1>2

\* There is such a function for all sets of the first n indices.
LEMMA AddingUpExists ==
    ASSUME NEW q, NEW n \in Nat
    PROVE  \E g : AddsUp(g, q, SUBSET (1 .. n))
<1> DEFINE Small(m) == {s \in SUBSET (1 .. n) : Cardinality(s) <= m}
           Bad == {m \in Nat : ~ \E g : AddsUp(g, q, Small(m))}
<1>1. \A s \in SUBSET (1 .. n) : /\ IsFiniteSet(s) /\ Cardinality(s) \in Nat
                                 /\ Cardinality(s) <= n
  <2>1. IsFiniteSet(1 .. n) /\ Cardinality(1 .. n) = n
    <3>1. 1 \in Int /\ n \in Int
      OBVIOUS
    <3>2. IsFiniteSet(1 .. n) /\ Cardinality(1 .. n) = IF 1 > n THEN 0 ELSE n - 1 + 1
      BY <3>1, FS_Interval
    <3>3. QED
      BY <3>2
  <2>2. TAKE s \in SUBSET (1 .. n)
  <2>3. IsFiniteSet(s) /\ Cardinality(s) <= Cardinality(1 .. n)
    BY <2>1, FS_Subset
  <2>4. QED
    BY <2>1, <2>3, FS_CardinalityType
<1>2. \E g : AddsUp(g, q, Small(0))
  <2>1. \A s \in SUBSET (1 .. n) : Cardinality(s) = 0 <=> s = {}
    BY <1>1, FS_EmptySet
  <2>2. Small(0) = {{}}
    BY <1>1, <2>1
  <2>3. AddsUp([s \in {{}} |-> 0], q, {{}})
    BY DEF AddsUp
  <2>4. QED
    BY <2>2, <2>3
<1>3. ASSUME NEW m \in Nat, NEW g, AddsUp(g, q, Small(m))
      PROVE  \E h : AddsUp(h, q, Small(m + 1))
  <2> DEFINE h == [s \in Small(m + 1) |->
                     IF s = {} THEN 0 ELSE g[s \ {Max(s)}] + q[Max(s)].len]
  <2>1. ASSUME NEW s \in Small(m + 1), s # {}
        PROVE  h[s \ {Max(s)}] = g[s \ {Max(s)}]
    <3> DEFINE t == s \ {Max(s)}
    <3>1. Max(s) \in s
      BY <2>1, MaxOfSome
    <3>2. Cardinality(t) = Cardinality(s) - 1
      BY <1>1, <3>1, FS_RemoveElement
    <3>3. t \in Small(m) /\ t \in Small(m + 1)
      <4>1. t \in SUBSET (1 .. n) /\ s \in SUBSET (1 .. n) /\ Cardinality(s) <= m + 1
        OBVIOUS
      <4>2. Cardinality(s) \in Nat
        BY <1>1, <4>1
      <4> HIDE DEF t
      <4>3. Cardinality(t) <= m /\ Cardinality(t) <= m + 1
        BY <3>2, <4>1, <4>2
      <4>4. QED
        BY <4>1, <4>3
    <3>4. g[t] = IF t = {} THEN 0 ELSE g[t \ {Max(t)}] + q[Max(t)].len
      <4> HIDE DEF t, Small
      <4>1. QED
        BY <1>3, <3>3 DEF AddsUp
    <3>5. h[t] = IF t = {} THEN 0 ELSE g[t \ {Max(t)}] + q[Max(t)].len
      BY <3>3
    <3>6. QED
      BY <3>4, <3>5
  <2>2. h = [s \in Small(m + 1) |->
               IF s = {} THEN 0 ELSE h[s \ {Max(s)}] + q[Max(s)].len]
    BY <2>1
  <2> HIDE DEF h
  <2>3. QED
    BY <2>2 DEF AddsUp
<1>4. Bad = {}
  <2>1. SUFFICES ASSUME Bad # {} PROVE FALSE
    OBVIOUS
  <2>2. Bad \in SUBSET Nat
    OBVIOUS
  <2>3. PICK m \in Bad : \A k \in Bad : m <= k
    <3> HIDE DEF Bad
    <3>1. QED
      BY <2>1, <2>2, LeastNat
  <2>4. m \in Nat /\ m # 0
    BY <1>2
  <2>5. m - 1 \in Nat /\ m - 1 \notin Bad
    <3> HIDE DEF Bad
    <3>1. QED
      BY <2>3, <2>4
  <2>6. PICK g : AddsUp(g, q, Small(m - 1))
    BY <2>5
  <2>7. \E h : AddsUp(h, q, Small((m - 1) + 1))
    BY <1>3, <2>5, <2>6
  <2>8. (m - 1) + 1 = m
    BY <2>4
  <2>9. QED
    BY <2>3, <2>7, <2>8
<1>5. Small(n) = SUBSET (1 .. n)
  BY <1>1
<1>6. QED
  BY <1>4, <1>5

\* What it gives for the first indices depends on the pieces there, and is the sum.
LEMMA AddingUpFirst ==
    ASSUME NEW q, NEW n \in Nat, NEW g, AddsUp(g, q, SUBSET (1 .. n))
    PROVE  /\ g[1 .. 0] = 0
           /\ \A k \in 1 .. n : g[1 .. k] = g[1 .. (k - 1)] + q[k].len
<1>1. \A s \in SUBSET (1 .. n) : g[s] = IF s = {} THEN 0 ELSE g[s \ {Max(s)}] + q[Max(s)].len
  BY DEF AddsUp
<1>2. g[1 .. 0] = 0
  <2>1. 1 .. 0 = {} /\ {} \in SUBSET (1 .. n)
    OBVIOUS
  <2>2. g[{}] = 0
    BY <1>1, <2>1
  <2>3. QED
    BY <2>1, <2>2
<1>3. ASSUME NEW k \in 1 .. n
      PROVE  g[1 .. k] = g[1 .. (k - 1)] + q[k].len
  <2>1. 1 .. k \in SUBSET (1 .. n) /\ 1 .. k # {} /\ k \in Nat \ {0}
    OBVIOUS
  <2>2. g[1 .. k] = g[(1 .. k) \ {Max(1 .. k)}] + q[Max(1 .. k)].len
    BY <1>1, <2>1
  <2>3. QED
    BY <2>1, <2>2, MaxOfAll
<1>4. QED
  BY <1>2, <1>3

\* The size of the first pieces of a queue, one piece after the other.
LEMMA SizeSteps ==
    ASSUME NEW q \in Seq(Piece)
    PROVE  /\ SizeOf(q, 0) = 0
           /\ \A k \in 1 .. Len(q) : SizeOf(q, k) = SizeOf(q, k - 1) + q[k].len
<1>1. ASSUME NEW k \in 0 .. Len(q)
      PROVE  \E g : AddsUp(g, SubSeq(q, 1, k), SUBSET (1 .. k)) /\ SizeOf(q, k) = g[1 .. k]
  <2> DEFINE t == SubSeq(q, 1, k)
  <2>1. DOMAIN t = 1 .. k
    BY SubSeqProperties, LenProperties
  <2> HIDE DEF t
  <2>2. \E g : AddsUp(g, t, SUBSET (1 .. k))
    <3>1. k \in Nat
      OBVIOUS
    <3>2. QED
      BY <3>1, AddingUpExists
  <2>3. (\E g : AddsUp(g, t, SUBSET DOMAIN t)) =>
        \E g : AddsUp(g, t, SUBSET DOMAIN t) /\
               FoldLeft(LAMBDA sum, piece : sum + piece.len, 0, t) = g[DOMAIN t]
    BY DEF FoldLeft, MapThenFoldSet, AddsUp
  <2>4. QED
    BY <2>1, <2>2, <2>3 DEF t, SizeOf
<1>2. Len(q) \in Nat
  OBVIOUS
<1>3. SizeOf(q, 0) = 0
  <2>1. PICK g : AddsUp(g, SubSeq(q, 1, 0), SUBSET (1 .. 0)) /\ SizeOf(q, 0) = g[1 .. 0]
    <3>1. 0 \in 0 .. Len(q)
      BY <1>2
    <3>2. QED
      BY <1>1, <3>1
  <2>2. QED
    BY <2>1, AddingUpFirst
<1>4. ASSUME NEW k \in 1 .. Len(q)
      PROVE  SizeOf(q, k) = SizeOf(q, k - 1) + q[k].len
  <2> DEFINE t == SubSeq(q, 1, k)
             u == SubSeq(q, 1, k - 1)
  <2>1. /\ k - 1 \in 0 .. Len(q) /\ k \in 0 .. Len(q) /\ k \in Nat /\ k - 1 \in Nat
        /\ k \in 1 .. k /\ k - 1 <= k
    BY <1>2
  <2>2. PICK g : AddsUp(g, t, SUBSET (1 .. k)) /\ SizeOf(q, k) = g[1 .. k]
    BY <1>1, <2>1
  <2>3. PICK h : AddsUp(h, u, SUBSET (1 .. (k - 1))) /\ SizeOf(q, k - 1) = h[1 .. (k - 1)]
    BY <1>1, <2>1
  <2>4. t[k] = q[k] /\ \A i \in 1 .. (k - 1) : t[i] = u[i]
    OBVIOUS
  <2> HIDE DEF t, u
  <2>5. g[1 .. k] = g[1 .. (k - 1)] + t[k].len
    <3>1. k \in Nat /\ k \in 1 .. k
      BY <2>1
    <3>2. AddsUp(g, t, SUBSET (1 .. k))
      BY <2>2
    <3>3. \A i \in 1 .. k : g[1 .. i] = g[1 .. (i - 1)] + t[i].len
      BY <3>1, <3>2, AddingUpFirst
    <3>4. QED
      BY <3>1, <3>3
  <2>6. g[1 .. (k - 1)] = h[1 .. (k - 1)]
    <3> DEFINE Bad == {j \in 0 .. k - 1 : g[1 .. j] # h[1 .. j]}
    <3>1. SUFFICES ASSUME Bad # {} PROVE FALSE
      BY <2>1
    <3>2. Bad \in SUBSET Nat
      OBVIOUS
    <3>3. PICK j \in Bad : \A i \in Bad : j <= i
      <4> HIDE DEF Bad
      <4>1. QED
        BY <3>1, <3>2, LeastNat
    <3>4. /\ g[1 .. 0] = 0
          /\ \A i \in 1 .. k : g[1 .. i] = g[1 .. (i - 1)] + t[i].len
      <4>1. AddsUp(g, t, SUBSET (1 .. k))
        BY <2>2
      <4>2. QED
        BY <2>1, <4>1, AddingUpFirst
    <3>5. /\ h[1 .. 0] = 0
          /\ \A i \in 1 .. (k - 1) : h[1 .. i] = h[1 .. (i - 1)] + u[i].len
      <4>1. AddsUp(h, u, SUBSET (1 .. (k - 1)))
        BY <2>3
      <4>2. QED
        BY <2>1, <4>1, AddingUpFirst
    <3>6. j \in 1 .. (k - 1) /\ j \in 1 .. k
      BY <3>3, <3>4, <3>5
    <3>7. j - 1 \in 0 .. k - 1 /\ j - 1 \notin Bad
      BY <3>3, <3>6
    <3>8. g[1 .. (j - 1)] = h[1 .. (j - 1)]
      BY <3>7
    <3>9. g[1 .. j] = h[1 .. j]
      BY <2>4, <3>4, <3>5, <3>6, <3>8
    <3>10. QED
      BY <3>3, <3>9
  <2>7. QED
    BY <2>2, <2>3, <2>4, <2>5, <2>6
<1>5. QED
  BY <1>3, <1>4

\* The size of the first pieces is a number, and depends on these pieces only.
LEMMA SizeType ==
    ASSUME NEW q \in Seq(Piece)
    PROVE  /\ \A k \in 0 .. Len(q) : SizeOf(q, k) \in Nat
           /\ \A k \in 1 .. Len(q) : SizeOf(q, k) > 0
<1> DEFINE Bad == {k \in 0 .. Len(q) : SizeOf(q, k) \notin Nat}
<1>1. \A k \in 1 .. Len(q) : q[k].len \in Nat \ {0}
  <2>1. TAKE k \in 1 .. Len(q)
  <2>2. q[k] \in Piece
    BY ElementOfSeq
  <2>3. QED
    BY <2>2 DEF Piece
<1>2. Bad = {}
  <2>1. SUFFICES ASSUME Bad # {} PROVE FALSE
    OBVIOUS
  <2>2. Bad \in SUBSET Nat
    OBVIOUS
  <2>3. PICK k \in Bad : \A i \in Bad : k <= i
    <3> HIDE DEF Bad
    <3>1. QED
      BY <2>1, <2>2, LeastNat
  <2>4. k \in 1 .. Len(q)
    BY <2>3, SizeSteps
  <2>5. k - 1 \in 0 .. Len(q) /\ k - 1 \notin Bad
    BY <2>3, <2>4
  <2>6. SizeOf(q, k) = SizeOf(q, k - 1) + q[k].len
    BY <2>4, SizeSteps
  <2>7. QED
    BY <1>1, <2>3, <2>4, <2>5, <2>6
<1>3. \A k \in 0 .. Len(q) : SizeOf(q, k) \in Nat
  BY <1>2
<1> HIDE DEF Bad
<1>4. ASSUME NEW k \in 1 .. Len(q) PROVE SizeOf(q, k) > 0
  <2>1. SizeOf(q, k) = SizeOf(q, k - 1) + q[k].len /\ SizeOf(q, k - 1) \in Nat
    BY <1>3, SizeSteps
  <2>2. QED
    BY <1>1, <2>1
<1>5. QED
  BY <1>3, <1>4

\* Only the pieces counted matter for their size.
LEMMA SizeAgrees ==
    ASSUME NEW q \in Seq(Piece), NEW r \in Seq(Piece),
           NEW n \in Nat, n <= Len(q), n <= Len(r), \A i \in 1 .. n : q[i] = r[i]
    PROVE  SizeOf(q, n) = SizeOf(r, n)
<1>1. /\ SubSeq(q, 1, n) \in Seq(Piece) /\ Len(SubSeq(q, 1, n)) = n
      /\ SubSeq(r, 1, n) \in Seq(Piece) /\ Len(SubSeq(r, 1, n)) = n
      /\ \A i \in 1 .. n : SubSeq(q, 1, n)[i] = q[i] /\ SubSeq(r, 1, n)[i] = r[i]
  OBVIOUS
<1>2. SubSeq(q, 1, n) = SubSeq(r, 1, n)
  BY <1>1, SeqEqual
<1>3. QED
  BY <1>2 DEF SizeOf

(***************************************************************************)
(* Filling a data field.                                                   *)
(***************************************************************************)

\* Another length indicator takes a byte or two.
LEMMA LiBytesSteps ==
    /\ LiBytes(0) = 0
    /\ \A n \in Nat : /\ LiBytes(n) \in Nat
                      /\ LiBytes(n + 1) <= LiBytes(n) + 2
<1>1. LiBytes(0) = 0
  BY DEF LiBytes
<1>2. ASSUME NEW n \in Nat
      PROVE  /\ LiBytes(n) \in Nat
             /\ LiBytes(n + 1) <= LiBytes(n) + 2
  BY DEF LiBytes
<1>3. QED
  BY <1>1, <1>2

\* The loop ends, and the piece it ends with gets a byte at least.
LEMMA TakenHasRoom ==
    ASSUME NEW queue \in Seq(Piece), queue # <<>>, NEW room \in Nat \ {0}
    PROVE  LET n == Taken(queue, room)
           IN  n \in 1 .. Len(queue) /\ RoomAt(queue, room, n) \in Nat \ {0}
<1> DEFINE Stops == {i \in 1 .. Len(queue) : EndsAt(queue, room, i)}
           n == Taken(queue, room)
<1>1. Len(queue) \in Nat /\ Len(queue) \in 1 .. Len(queue)
  OBVIOUS
<1>2. Len(queue) \in Stops
  BY <1>1 DEF EndsAt
<1>3. Stops \in SUBSET Nat
  OBVIOUS
<1>4. PICK m \in Stops : \A i \in Stops : m <= i
  <2> HIDE DEF Stops
  <2>1. QED
    BY <1>2, <1>3, LeastNat
<1>5. /\ m \in 1 .. Len(queue) /\ EndsAt(queue, room, m)
      /\ \A i \in 1 .. m - 1 : ~EndsAt(queue, room, i)
  <2>1. m \in 1 .. Len(queue) /\ EndsAt(queue, room, m)
    BY <1>4
  <2>2. ASSUME NEW i \in 1 .. m - 1, EndsAt(queue, room, i)
        PROVE  FALSE
    <3>1. i \in 1 .. Len(queue)
      BY <2>1
    <3>2. i \in Stops
      BY <2>2, <3>1
    <3>3. m <= i
      BY <1>4, <3>2
    <3>4. QED
      BY <2>1, <3>3
  <2>3. QED
    BY <2>1, <2>2
<1>6. /\ n \in 1 .. Len(queue) /\ EndsAt(queue, room, n)
      /\ \A i \in 1 .. n - 1 : ~EndsAt(queue, room, i)
  BY <1>5 DEF Taken
<1> HIDE DEF n, Stops
<1>7. \A i \in 1 .. Len(queue) : /\ SizeOf(queue, i) = SizeOf(queue, i - 1) + queue[i].len
                                 /\ SizeOf(queue, i) \in Nat /\ SizeOf(queue, i - 1) \in Nat
                                 /\ queue[i].len \in Nat
  <2>1. TAKE i \in 1 .. Len(queue)
  <2>2. queue[i] \in Piece
    BY ElementOfSeq
  <2>3. i \in 0 .. Len(queue) /\ i - 1 \in 0 .. Len(queue)
    OBVIOUS
  <2>4. QED
    BY <2>2, <2>3, SizeSteps, SizeType DEF Piece
<1>8. RoomAt(queue, room, 1) = room
  BY SizeSteps, LiBytesSteps DEF RoomAt
<1>9. ASSUME n > 1
      PROVE  RoomAt(queue, room, n) \in Nat \ {0}
  <2> DEFINE i == n - 1
  <2>1. i \in 1 .. Len(queue) /\ i \in 1 .. n - 1 /\ i - 1 \in Nat /\ (i - 1) + 1 = i
    BY <1>6, <1>9
  <2>2. ~EndsAt(queue, room, i)
    BY <1>6, <2>1
  <2> HIDE DEF i
  <2>3. /\ LiBytes(i) \in Nat /\ LiBytes(i - 1) \in Nat
        /\ LiBytes(i) <= LiBytes(i - 1) + 2
    <3>1. PICK j \in Nat : j = i - 1 /\ j + 1 = i /\ i \in Nat
      BY <2>1
    <3>2. QED
      BY <3>1, LiBytesSteps
  <2>4. /\ SizeOf(queue, i) = SizeOf(queue, i - 1) + queue[i].len
        /\ SizeOf(queue, i) \in Nat /\ SizeOf(queue, i - 1) \in Nat /\ queue[i].len \in Nat
    BY <1>7, <2>1
  <2>5. room - SizeOf(queue, i - 1) - LiBytes(i - 1) - queue[i].len > 2
    BY <2>2, <2>3, <2>4 DEF EndsAt, RoomAt
  <2>6. room - SizeOf(queue, i) - LiBytes(i) \in Nat \ {0}
    <3>1. \A a, b, c, d, e, x \in Nat :
             a - b - c - d > 2 /\ e = b + d /\ x <= c + 2 => a - e - x \in Nat \ {0}
      OBVIOUS
    <3>2. room \in Nat
      OBVIOUS
    <3>3. QED
      BY <2>3, <2>4, <2>5, <3>1, <3>2
  <2>7. QED
    BY <2>6 DEF i, RoomAt
<1>10. n \in 1 .. Len(queue) /\ RoomAt(queue, room, n) \in Nat \ {0}
  BY <1>6, <1>8, <1>9
<1>11. QED
  BY <1>10 DEF n

\* Cutting a piece gives two pieces.
LEMMA CutPieces ==
    ASSUME NEW p \in Piece, NEW size \in Nat \ {0}, p.len > size
    PROVE  LET cut == Cut(p, size)  rest == Rest(p, size)
           IN  /\ cut \in Piece /\ rest \in Piece
               /\ cut.sdu = p.sdu /\ cut.from = p.from /\ cut.len = size
               /\ cut.status = IF p.status = "FULL_SDU" THEN "FIRST_SEGMENT"
                               ELSE "MIDDLE_SEGMENT"
               /\ rest.sdu = p.sdu /\ rest.from = p.from + size
               /\ rest.len = p.len - size /\ rest.status = "LAST_SEGMENT"
<1>1. p.sdu \in Nat \ {0} /\ p.from \in Nat /\ p.len \in Nat \ {0}
  BY DEF Piece
<1>2. p.from + size \in Nat /\ p.len - size \in Nat \ {0}
  BY <1>1
<1>3. Cut(p, size) \in Piece
  BY DEF Cut, Piece, Tags
<1>4. Rest(p, size) \in Piece
  BY <1>2 DEF Rest, Piece, Tags
<1>5. /\ Cut(p, size).sdu = p.sdu /\ Cut(p, size).from = p.from /\ Cut(p, size).len = size
      /\ Cut(p, size).status = IF p.status = "FULL_SDU" THEN "FIRST_SEGMENT"
                               ELSE "MIDDLE_SEGMENT"
  BY DEF Cut, Piece
<1>6. /\ Rest(p, size).sdu = p.sdu /\ Rest(p, size).from = p.from + size
      /\ Rest(p, size).len = p.len - size /\ Rest(p, size).status = "LAST_SEGMENT"
  BY DEF Rest, Piece
<1>7. QED
  BY <1>3, <1>4, <1>5, <1>6

\* What is in the data field, and what is left of the queue: the last piece of the
\* field, the n-th of the queue, is cut after size bytes or it is not.
Fills(queue, n, size, field, after) ==
    /\ field \in Seq(Piece) /\ Len(field) = n
    /\ \A i \in 1 .. n - 1 : field[i] = queue[i]
    /\ after \in Seq(Piece)
    /\ \/ /\ queue[n].len > size
          /\ field[n] = Cut(queue[n], size)
          /\ Len(after) = Len(queue) - n + 1 /\ after[1] = Rest(queue[n], size)
          /\ \A i \in 2 .. Len(queue) - n + 1 : after[i] = queue[n + i - 1]
       \/ /\ queue[n].len <= size
          /\ field[n] = queue[n]
          /\ Len(after) = Len(queue) - n
          /\ \A i \in 1 .. Len(queue) - n : after[i] = queue[n + i]

LEMMA Filled ==
    ASSUME NEW queue \in Seq(Piece), queue # <<>>, NEW room \in Nat \ {0}
    PROVE  \E n \in 1 .. Len(queue), size \in Nat \ {0} :
              /\ size = RoomAt(queue, room, n)
              /\ Fills(queue, n, size, DataField(queue, room), QueueAfter(queue, room))
<1> DEFINE n == Taken(queue, room)
           size == RoomAt(queue, room, n)
           front == SubSeq(queue, 1, n - 1)
           back == SubSeq(queue, n + 1, Len(queue))
           last == IF queue[n].len > size THEN Cut(queue[n], size) ELSE queue[n]
           rest == IF queue[n].len > size THEN <<Rest(queue[n], size)>> ELSE <<>>
<1>1. n \in 1 .. Len(queue) /\ size \in Nat \ {0}
  BY TakenHasRoom
<1>2. DataField(queue, room) = front \o <<last>> /\ QueueAfter(queue, room) = rest \o back
  BY DEF DataField, QueueAfter
<1>3. size = RoomAt(queue, room, n)
  OBVIOUS
<1> HIDE DEF n, size
<1>4. queue[n] \in Piece /\ queue[n].len \in Nat
  <2>1. queue[n] \in Piece
    BY <1>1, ElementOfSeq
  <2>2. QED
    BY <2>1 DEF Piece
<1>5. /\ front \in Seq(Piece) /\ Len(front) = n - 1
      /\ \A i \in 1 .. n - 1 : front[i] = queue[i]
  BY <1>1
<1>6. /\ back \in Seq(Piece) /\ Len(back) = Len(queue) - n
      /\ \A i \in 1 .. Len(queue) - n : back[i] = queue[n + i]
  BY <1>1
<1>7. last \in Piece /\ rest \in Seq(Piece)
  BY <1>1, <1>4, CutPieces
<1> HIDE DEF front, back
<1>8. /\ front \o <<last>> \in Seq(Piece) /\ Len(front \o <<last>>) = n
      /\ \A i \in 1 .. n - 1 : (front \o <<last>>)[i] = queue[i]
      /\ (front \o <<last>>)[n] = last
  <2> HIDE DEF last
  <2>1. QED
    BY <1>1, <1>5, <1>7
<1>9. CASE queue[n].len > size
  <2>1. last = Cut(queue[n], size) /\ rest = <<Rest(queue[n], size)>>
    BY <1>9
  <2>2. Rest(queue[n], size) \in Piece
    BY <1>1, <1>4, <1>9, CutPieces
  <2>3. /\ rest \o back \in Seq(Piece) /\ Len(rest \o back) = Len(queue) - n + 1
        /\ (rest \o back)[1] = Rest(queue[n], size)
        /\ \A i \in 2 .. Len(queue) - n + 1 : (rest \o back)[i] = queue[n + i - 1]
    <3> DEFINE p == Rest(queue[n], size)
    <3> HIDE DEF p, rest
    <3>1. rest = <<p>> /\ p \in Piece
      BY <2>1, <2>2 DEF p
    <3>2. rest \in Seq(Piece) /\ Len(rest) = 1 /\ rest[1] = p
      BY <3>1
    <3>3. /\ rest \o back \in Seq(Piece) /\ Len(rest \o back) = Len(queue) - n + 1
          /\ (rest \o back)[1] = p
          /\ \A i \in 2 .. Len(queue) - n + 1 : (rest \o back)[i] = back[i - 1]
      <4>1. /\ rest \o back \in Seq(Piece) /\ Len(rest \o back) = 1 + (Len(queue) - n)
            /\ \A i \in 1 .. 1 + (Len(queue) - n) :
                  (rest \o back)[i] = IF i <= 1 THEN rest[i] ELSE back[i - 1]
        <5>1. back \in Seq(Piece) /\ rest \in Seq(Piece) /\ Len(rest) = 1
              /\ Len(back) = Len(queue) - n
          BY <1>6, <3>2
        <5>2. rest \o back \in Seq(Piece) /\ Len(rest \o back) = Len(rest) + Len(back)
          BY <5>1, ConcatProperties
        <5>3. \A i \in 1 .. Len(rest) + Len(back) :
                  (rest \o back)[i] = IF i <= Len(rest) THEN rest[i] ELSE back[i - Len(rest)]
          BY <5>1, ConcatProperties
        <5>4. QED
          BY <5>1, <5>2, <5>3
      <4>2. Len(queue) - n \in Nat
        BY <1>1
      <4>3. /\ Len(rest \o back) = Len(queue) - n + 1
            /\ 1 \in 1 .. 1 + (Len(queue) - n)
            /\ \A i \in 2 .. Len(queue) - n + 1 :
                  i \in 1 .. 1 + (Len(queue) - n) /\ ~(i <= 1)
        BY <4>1, <4>2
      <4>4. QED
        BY <3>2, <4>1, <4>3
    <3>4. \A i \in 2 .. Len(queue) - n + 1 :
             i - 1 \in 1 .. Len(queue) - n /\ n + (i - 1) = n + i - 1
      BY <1>1
    <3>5. QED
      BY <1>6, <3>3, <3>4 DEF p
  <2> HIDE DEF last, rest
  <2>4. QED
    <3>1. Fills(queue, n, size, DataField(queue, room), QueueAfter(queue, room))
      BY <1>2, <1>8, <1>9, <2>1, <2>3 DEF Fills
    <3>2. QED
      BY <1>1, <1>3, <3>1
<1>10. CASE queue[n].len <= size
  <2>1. last = queue[n] /\ rest = <<>>
    BY <1>1, <1>4, <1>10
  <2>2. rest \o back = back
    BY <1>6, <2>1, ConcatEmptySeq
  <2> HIDE DEF last, rest
  <2>3. Fills(queue, n, size, DataField(queue, room), QueueAfter(queue, room))
    <3> DEFINE field == front \o <<last>>
    <3>1. /\ field \in Seq(Piece) /\ Len(field) = n
          /\ \A i \in 1 .. n - 1 : field[i] = queue[i]
          /\ field[n] = queue[n]
      BY <1>8, <2>1
    <3>2. DataField(queue, room) = field /\ QueueAfter(queue, room) = back
      BY <1>2, <2>2
    <3> HIDE DEF field
    <3>3. Fills(queue, n, size, field, back)
      BY <1>6, <1>10, <3>1 DEF Fills
    <3>4. QED
      BY <3>2, <3>3
  <2>4. QED
    BY <1>1, <1>3, <2>3
<1>11. QED
  BY <1>1, <1>4, <1>9, <1>10

\* The two pieces of a cut SDU are tagged as they should be, and adjoin.
LEMMA CutPiecesOK ==
    ASSUME NEW all \in Seq(Nat \ {0}), NEW p \in Piece, PieceOK(p, all), Ends(p, all),
           NEW size \in Nat \ {0}, p.len > size
    PROVE  LET cut == Cut(p, size)  rest == Rest(p, size)
           IN  /\ PieceOK(cut, all) /\ ~Ends(cut, all)
               /\ PieceOK(rest, all) /\ Ends(rest, all)
               /\ Stop(cut, all) = Start(rest)
<1> DEFINE cut == Cut(p, size)
           rest == Rest(p, size)
<1>1. /\ p.sdu \in Nat \ {0} /\ p.from \in Nat /\ p.len \in Nat \ {0} /\ p.status \in Tags
      /\ p.sdu \in DOMAIN all
  BY DEF Piece, PieceOK
<1>2. all[p.sdu] \in Nat
  BY <1>1
<1>3. /\ cut.sdu = p.sdu /\ cut.from = p.from /\ cut.len = size
      /\ cut.status = IF p.status = "FULL_SDU" THEN "FIRST_SEGMENT" ELSE "MIDDLE_SEGMENT"
      /\ rest.sdu = p.sdu /\ rest.from = p.from + size
      /\ rest.len = p.len - size /\ rest.status = "LAST_SEGMENT"
  BY CutPieces
<1> HIDE DEF cut, rest
<1>4. p.from + p.len = all[p.sdu]
  BY DEF Ends
<1>5. ~Ends(cut, all) /\ Ends(rest, all)
  <2>1. /\ cut.from + cut.len = p.from + size
        /\ rest.from + rest.len = (p.from + size) + (p.len - size)
        /\ all[cut.sdu] = all[p.sdu] /\ all[rest.sdu] = all[p.sdu]
    BY <1>3
  <2>2. (p.from + size) + (p.len - size) = p.from + p.len /\ p.from + size # p.from + p.len
    BY <1>1
  <2>3. QED
    BY <1>4, <2>1, <2>2 DEF Ends
<1>6. p.status = "FULL_SDU" <=> p.from = 0
  BY <1>1 DEF PieceOK, Tags
<1>7. PieceOK(cut, all)
  BY <1>1, <1>3, <1>4, <1>5, <1>6 DEF PieceOK
<1>8. PieceOK(rest, all)
  BY <1>1, <1>3, <1>4, <1>5 DEF PieceOK
<1>9. Stop(cut, all) = Start(rest)
  BY <1>3, <1>5 DEF Stop, Start
<1>10. QED
  BY <1>5, <1>7, <1>8, <1>9 DEF cut, rest

\* A data field continues where the last one stopped, and the queue where it stops.
LEMMA FieldOfQueue ==
    ASSUME NEW all \in Seq(Nat \ {0}), NEW queue \in Seq(Piece), queue # <<>>,
           QueueOK(queue, all), NEW room \in Nat \ {0}
    PROVE  LET field == DataField(queue, room)
               after == QueueAfter(queue, room)
           IN  /\ field \in Seq(Piece) /\ after \in Seq(Piece)
               /\ FieldOK(field, all) /\ QueueOK(after, all)
               /\ Start(field[1]) = Start(queue[1])
               /\ Stop(field[Len(field)], all) = TxPosition(after, all)
<1> DEFINE field == DataField(queue, room)
           after == QueueAfter(queue, room)
<1>1. PICK n \in 1 .. Len(queue), size \in Nat \ {0} : Fills(queue, n, size, field, after)
  BY Filled
<1> HIDE DEF field, after
<1>2. \A i \in 1 .. Len(queue) : /\ queue[i] \in Piece
                                 /\ PieceOK(queue[i], all) /\ Ends(queue[i], all)
                                 /\ queue[i].sdu = Len(all) - Len(queue) + i
                                 /\ i > 1 => queue[i].from = 0
  BY DEF QueueOK
<1>3. /\ field \in Seq(Piece) /\ Len(field) = n /\ DOMAIN field = 1 .. n
      /\ \A i \in 1 .. n - 1 : field[i] = queue[i] /\ i \in 1 .. Len(queue)
      /\ after \in Seq(Piece)
  BY <1>1 DEF Fills
<1>4. /\ Len(all) \in Nat /\ Len(queue) \in Nat /\ n \in Nat \ {0}
      /\ n = 1 \/ 1 \in 1 .. n - 1
  OBVIOUS
<1>5. /\ field[n] \in Piece /\ PieceOK(field[n], all)
      /\ field[n].sdu = queue[n].sdu /\ field[n].from = queue[n].from
  <2>1. queue[n] \in Piece /\ PieceOK(queue[n], all) /\ Ends(queue[n], all)
    BY <1>2
  <2>2. CASE queue[n].len > size /\ field[n] = Cut(queue[n], size)
    BY <2>1, <2>2, CutPieces, CutPiecesOK
  <2>3. QED
    BY <1>1, <2>1, <2>2 DEF Fills
<1>6. /\ field[1].sdu = queue[1].sdu /\ field[1].from = queue[1].from
      /\ queue[1].sdu = Len(all) - Len(queue) + 1
  <2>1. CASE n = 1
    BY <1>2, <1>5, <2>1
  <2>2. CASE 1 \in 1 .. n - 1
    BY <1>2, <1>3, <2>2
  <2>3. QED
    BY <1>4, <2>1, <2>2
<1>7. \/ /\ queue[n].len > size
          /\ field[n] = Cut(queue[n], size)
          /\ Len(after) = Len(queue) - n + 1 /\ after[1] = Rest(queue[n], size)
          /\ \A i \in 2 .. Len(queue) - n + 1 : after[i] = queue[n + i - 1]
       \/ /\ ~(queue[n].len > size)
          /\ field[n] = queue[n]
          /\ Len(after) = Len(queue) - n
          /\ \A i \in 1 .. Len(queue) - n : after[i] = queue[n + i]
  <2>1. queue[n] \in Piece
    BY <1>2
  <2>2. queue[n].len <= size => ~(queue[n].len > size)
    BY <2>1 DEF Piece
  <2>3. QED
    BY <1>1, <2>2 DEF Fills
<1>8. FieldOK(field, all)
  <2>1. field # <<>>
    BY <1>3, <1>4
  <2>2. ASSUME NEW i \in 1 .. n
        PROVE  /\ PieceOK(field[i], all)
               /\ field[i].sdu = queue[i].sdu /\ field[i].from = queue[i].from
               /\ i < n => Ends(field[i], all)
    <3>1. CASE i = n
      BY <1>5, <3>1
    <3>2. CASE i \in 1 .. n - 1
      BY <1>2, <1>3, <3>2
    <3>3. QED
      BY <3>1, <3>2
  <2>3. ASSUME NEW i \in 1 .. n
        PROVE  /\ field[i].sdu = field[1].sdu + i - 1
               /\ i > 1 => field[i].from = 0
    <3>1. i \in 1 .. Len(queue)
      OBVIOUS
    <3>2. field[i].sdu = Len(all) - Len(queue) + i /\ (i > 1 => field[i].from = 0)
      BY <1>2, <2>2, <3>1
    <3>3. field[1].sdu = Len(all) - Len(queue) + 1
      BY <1>6
    <3>4. Len(all) - Len(queue) + i = (Len(all) - Len(queue) + 1) + i - 1
      BY <1>4
    <3>5. QED
      BY <3>2, <3>3, <3>4
  <2>4. QED
    BY <1>3, <2>1, <2>2, <2>3 DEF FieldOK
<1>9. Start(field[1]) = Start(queue[1])
  BY <1>6 DEF Start
<1>10. CASE queue[n].len > size
  <2>1. /\ field[n] = Cut(queue[n], size)
        /\ Len(after) = Len(queue) - n + 1 /\ after[1] = Rest(queue[n], size)
        /\ \A i \in 2 .. Len(queue) - n + 1 : after[i] = queue[n + i - 1]
    BY <1>10, <1>7
  <2>2. queue[n] \in Piece /\ PieceOK(queue[n], all) /\ Ends(queue[n], all)
    BY <1>2
  <2>3. /\ PieceOK(after[1], all) /\ Ends(after[1], all)
        /\ after[1].sdu = queue[n].sdu
        /\ Stop(field[n], all) = Start(after[1])
    BY <1>10, <2>1, <2>2, CutPieces, CutPiecesOK
  <2>4. ASSUME NEW i \in 1 .. Len(after)
        PROVE  /\ PieceOK(after[i], all) /\ Ends(after[i], all)
               /\ after[i].sdu = Len(all) - Len(after) + i
               /\ i > 1 => after[i].from = 0
    <3>1. CASE i = 1
      BY <1>2, <1>4, <2>1, <2>3, <3>1
    <3>2. CASE i > 1
      <4>1. n + i - 1 \in 1 .. Len(queue) /\ n + i - 1 > 1 /\ i \in 2 .. Len(queue) - n + 1
        BY <1>4, <2>1, <3>2
      <4>2. after[i] = queue[n + i - 1]
        BY <2>1, <4>1
      <4>3. PICK j \in 1 .. Len(queue) : j = n + i - 1 /\ j > 1
        BY <4>1
      <4>4. /\ PieceOK(queue[j], all) /\ Ends(queue[j], all) /\ queue[j].from = 0
            /\ queue[j].sdu = Len(all) - Len(queue) + j
        BY <1>2, <4>3
      <4>5. Len(all) - Len(queue) + j = Len(all) - Len(after) + i
        BY <1>4, <2>1, <4>3
      <4>6. QED
        BY <4>2, <4>3, <4>4, <4>5
    <3>3. QED
      BY <3>1, <3>2
  <2>5. QueueOK(after, all)
    BY <1>3, <2>4 DEF QueueOK
  <2>6. after # <<>>
    BY <1>3, <1>4, <2>1
  <2>7. QED
    BY <1>3, <1>8, <1>9, <2>3, <2>5, <2>6 DEF TxPosition, field, after
<1>11. CASE ~(queue[n].len > size)
  <2>1. /\ field[n] = queue[n] /\ Len(after) = Len(queue) - n
        /\ \A i \in 1 .. Len(queue) - n : after[i] = queue[n + i]
    BY <1>11, <1>7
  <2>2. ASSUME NEW i \in 1 .. Len(after)
        PROVE  /\ PieceOK(after[i], all) /\ Ends(after[i], all)
               /\ after[i].sdu = Len(all) - Len(after) + i
               /\ after[i].from = 0
    <3>1. PICK j \in 1 .. Len(queue) : j = n + i /\ j > 1
      BY <1>4, <2>1
    <3>2. after[i] = queue[j]
      BY <2>1, <3>1
    <3>3. /\ PieceOK(queue[j], all) /\ Ends(queue[j], all) /\ queue[j].from = 0
          /\ queue[j].sdu = Len(all) - Len(queue) + j
      BY <1>2, <3>1
    <3>4. Len(all) - Len(queue) + j = Len(all) - Len(after) + i
      BY <1>4, <2>1, <3>1
    <3>5. QED
      BY <3>2, <3>3, <3>4
  <2>3. QueueOK(after, all)
    BY <1>3, <2>2 DEF QueueOK
  <2>4. /\ Stop(field[n], all) = <<queue[n].sdu + 1, 0>>
        /\ queue[n].sdu = Len(all) - Len(queue) + n
    BY <1>2, <2>1 DEF Stop
  <2>5. TxPosition(after, all) = <<queue[n].sdu + 1, 0>>
    <3>1. CASE after = <<>>
      <4>1. Len(queue) = n
        BY <1>4, <2>1, <3>1
      <4>2. QED
        BY <1>4, <2>4, <3>1, <4>1 DEF TxPosition
    <3>2. CASE after # <<>>
      <4>1. 1 \in 1 .. Len(after)
        BY <1>3, <3>2
      <4>2. after[1].sdu = Len(all) - Len(after) + 1 /\ after[1].from = 0
        BY <2>2, <4>1
      <4>3. after[1].sdu = queue[n].sdu + 1
        BY <1>4, <2>1, <2>4, <4>2
      <4>4. QED
        BY <3>2, <4>2, <4>3 DEF TxPosition, Start
    <3>3. QED
      BY <3>1, <3>2
  <2>6. QED
    BY <1>3, <1>8, <1>9, <2>3, <2>4, <2>5 DEF field, after
<1>12. QED
  BY <1>10, <1>11

\* Another SDU changes nothing for the pieces of the others.
LEMMA PieceGrows ==
    ASSUME NEW all \in Seq(Nat \ {0}), NEW size \in Nat \ {0}, NEW p \in Piece,
           PieceOK(p, all)
    PROVE  /\ PieceOK(p, Append(all, size))
           /\ Ends(p, Append(all, size)) <=> Ends(p, all)
           /\ Stop(p, Append(all, size)) = Stop(p, all)
<1> DEFINE more == Append(all, size)
<1>1. p.sdu \in DOMAIN all /\ p.sdu \in DOMAIN more /\ more[p.sdu] = all[p.sdu]
  BY DEF PieceOK
<1> HIDE DEF more
<1>2. Ends(p, more) <=> Ends(p, all)
  BY <1>1 DEF Ends
<1>3. PieceOK(p, more)
  BY <1>1, <1>2 DEF PieceOK
<1>4. QED
  BY <1>2, <1>3 DEF Stop, more

\* An SDU accepted is put at the end of the queue, and changes no position.
LEMMA QueueAppend ==
    ASSUME NEW all \in Seq(Nat \ {0}), NEW size \in Nat \ {0},
           NEW queue \in Seq(Piece), QueueOK(queue, all)
    PROVE  LET more   == Append(all, size)
               longer == Append(queue, FullSdu(Len(all) + 1, size))
           IN  /\ more \in Seq(Nat \ {0}) /\ longer \in Seq(Piece)
               /\ QueueOK(longer, more)
               /\ TxPosition(longer, more) = TxPosition(queue, all)
<1> DEFINE new == FullSdu(Len(all) + 1, size)
           more == Append(all, size)
           longer == Append(queue, new)
<1>1. Len(all) \in Nat
  OBVIOUS
<1>2. /\ new.sdu = Len(all) + 1 /\ new.from = 0 /\ new.len = size /\ new.status = "FULL_SDU"
      /\ new \in Piece
  BY <1>1 DEF FullSdu, Piece, Tags
<1> HIDE DEF new
<1>3. /\ more \in Seq(Nat \ {0}) /\ Len(more) = Len(all) + 1
      /\ DOMAIN more = 1 .. Len(all) + 1
      /\ more[Len(all) + 1] = size
      /\ \A i \in 1 .. Len(all) : more[i] = all[i]
  BY <1>1
<1>4. /\ longer \in Seq(Piece) /\ Len(longer) = Len(queue) + 1
      /\ DOMAIN longer = 1 .. Len(queue) + 1 /\ Len(queue) \in Nat
      /\ longer[Len(queue) + 1] = new
      /\ \A i \in 1 .. Len(queue) : longer[i] = queue[i]
      /\ queue = <<>> \/ 1 \in 1 .. Len(queue)
      /\ longer # <<>>
  <2>1. /\ longer \in Seq(Piece) /\ Len(longer) = Len(queue) + 1
        /\ DOMAIN longer = 1 .. Len(queue) + 1 /\ Len(queue) \in Nat
        /\ longer[Len(queue) + 1] = new
        /\ \A i \in 1 .. Len(queue) : longer[i] = queue[i]
    BY <1>2
  <2>2. queue = <<>> \/ 1 \in 1 .. Len(queue)
    OBVIOUS
  <2> HIDE DEF longer
  <2>3. longer # <<>>
    BY <2>1
  <2>4. QED
    BY <2>1, <2>2, <2>3
<1>5. \A i \in 1 .. Len(queue) :
         /\ queue[i] \in Piece
         /\ PieceOK(queue[i], all) /\ Ends(queue[i], all)
         /\ queue[i].sdu = Len(all) - Len(queue) + i
         /\ i > 1 => queue[i].from = 0
  BY DEF QueueOK
<1>6. \A i \in 1 .. Len(queue) : PieceOK(queue[i], more) /\ Ends(queue[i], more)
  BY <1>5, PieceGrows
<1> HIDE DEF more, longer
<1>7. Ends(new, more) /\ PieceOK(new, more)
  <2>1. Len(all) + 1 \in 1 .. Len(all) + 1
    BY <1>1
  <2>2. Ends(new, more)
    BY <1>2, <1>3 DEF Ends
  <2>3. QED
    BY <1>2, <1>3, <2>1, <2>2 DEF PieceOK
<1>8. QueueOK(longer, more)
  <2>1. ASSUME NEW i \in 1 .. Len(queue) + 1
        PROVE  /\ PieceOK(longer[i], more) /\ Ends(longer[i], more)
               /\ longer[i].sdu = Len(more) - Len(longer) + i
               /\ i > 1 => longer[i].from = 0
    <3>1. Len(more) - Len(longer) + i = Len(all) - Len(queue) + i
      BY <1>1, <1>3, <1>4
    <3>2. CASE i \in 1 .. Len(queue)
      BY <1>4, <1>5, <1>6, <3>1, <3>2
    <3>3. CASE i = Len(queue) + 1
      <4>1. Len(all) - Len(queue) + i = Len(all) + 1
        BY <1>1, <1>4, <3>3
      <4>2. QED
        BY <1>2, <1>4, <1>7, <3>1, <3>3, <4>1
    <3>4. i \in 1 .. Len(queue) \/ i = Len(queue) + 1
      BY <1>4
    <3>5. QED
      BY <3>2, <3>3, <3>4
  <2>2. QED
    BY <1>4, <2>1 DEF QueueOK
<1>9. TxPosition(longer, more) = TxPosition(queue, all)
  <2>1. CASE queue = <<>>
    <3>1. Len(queue) = 0
      BY <2>1
    <3>2. longer[1] = new
      BY <1>4, <3>1
    <3>3. QED
      BY <1>2, <1>4, <2>1, <3>2 DEF TxPosition, Start
  <2>2. CASE 1 \in 1 .. Len(queue)
    <3>1. queue # <<>> /\ longer[1] = queue[1]
      BY <1>4, <2>2
    <3>2. QED
      BY <1>4, <3>1 DEF TxPosition
  <2>3. QED
    BY <1>4, <2>1, <2>2
<1>10. QED
  BY <1>3, <1>4, <1>8, <1>9 DEF new, more, longer

(***************************************************************************)
(* Joining pieces.                                                         *)
(***************************************************************************)

\* A piece that continues what is joined is joined to it.
LEMMA JoinedAppend ==
    ASSUME NEW packet \in Seq(Piece), NEW sdu, NEW p \in Piece, p.sdu = sdu,
           packet = <<>> \/ Joined(packet, sdu),
           p.from = SizeOf(packet, Len(packet))
    PROVE  LET longer == packet \o <<p>>
           IN  /\ longer \in Seq(Piece) /\ Joined(longer, sdu)
               /\ SizeOf(longer, Len(longer)) = p.from + p.len
<1> DEFINE longer == packet \o <<p>>
           n == Len(packet)
<1>1. /\ longer \in Seq(Piece) /\ Len(longer) = n + 1 /\ n \in Nat
      /\ DOMAIN longer = 1 .. n + 1
      /\ \A i \in 1 .. n : longer[i] = packet[i]
      /\ longer[n + 1] = p
  OBVIOUS
<1> HIDE DEF longer
<1>2. \A i \in 0 .. n : SizeOf(longer, i) = SizeOf(packet, i)
  <2>1. TAKE i \in 0 .. n
  <2>2. i \in Nat /\ i <= Len(longer) /\ i <= Len(packet)
    BY <1>1
  <2>3. \A j \in 1 .. i : longer[j] = packet[j]
    BY <1>1
  <2>4. QED
    BY <1>1, <2>2, <2>3, SizeAgrees
<1>3. ASSUME NEW i \in 1 .. n
      PROVE  packet[i].sdu = sdu /\ packet[i].from = SizeOf(packet, i - 1)
  <2>1. packet # <<>>
    BY <1>1
  <2>2. QED
    BY <2>1 DEF Joined
<1>4. ASSUME NEW i \in 1 .. n + 1
      PROVE  longer[i].sdu = sdu /\ longer[i].from = SizeOf(longer, i - 1)
  <2>1. i - 1 \in 0 .. n
    BY <1>1
  <2>2. SizeOf(longer, i - 1) = SizeOf(packet, i - 1)
    BY <1>2, <2>1
  <2>3. CASE i \in 1 .. n
    BY <1>1, <1>3, <2>2, <2>3
  <2>4. CASE i = n + 1
    <3>1. i - 1 = n /\ longer[i] = p
      BY <1>1, <2>4
    <3>2. QED
      BY <2>2, <3>1
  <2>5. QED
    BY <1>1, <2>3, <2>4
<1>5. longer # <<>>
  BY <1>1
<1>6. Joined(longer, sdu)
  BY <1>1, <1>4, <1>5 DEF Joined
<1>7. SizeOf(longer, n + 1) = p.from + p.len
  <2>1. n + 1 \in 1 .. Len(longer) /\ n \in 0 .. n /\ (n + 1) - 1 = n
    BY <1>1
  <2>2. SizeOf(longer, n + 1) = SizeOf(longer, (n + 1) - 1) + longer[n + 1].len
    BY <1>1, <2>1, SizeSteps
  <2>3. SizeOf(longer, n) = SizeOf(packet, n)
    BY <1>2, <2>1
  <2>4. QED
    BY <1>1, <2>1, <2>2, <2>3
<1>8. QED
  BY <1>1, <1>6, <1>7 DEF longer

\* A piece that begins an SDU is joined by itself.
LEMMA JoinedAlone ==
    ASSUME NEW p \in Piece, p.from = 0
    PROVE  /\ <<p>> \in Seq(Piece) /\ Joined(<<p>>, p.sdu)
           /\ SizeOf(<<p>>, Len(<<p>>)) = p.from + p.len
<1>1. <<>> \in Seq(Piece) /\ Len(<<>>) = 0
  OBVIOUS
<1>2. SizeOf(<<>>, 0) = 0
  BY <1>1, SizeSteps
<1>3. <<>> \o <<p>> = <<p>>
  <2>1. <<p>> \in Seq(Piece)
    OBVIOUS
  <2>2. QED
    BY <2>1, ConcatEmptySeq
<1>4. p.from = SizeOf(<<>>, Len(<<>>))
  BY <1>1, <1>2
<1> DEFINE longer == <<>> \o <<p>>
<1>5. /\ longer \in Seq(Piece) /\ Joined(longer, p.sdu)
      /\ SizeOf(longer, Len(longer)) = p.from + p.len
  BY <1>1, <1>4, JoinedAppend
<1>6. longer = <<p>>
  BY <1>3
<1> HIDE DEF longer
<1>7. QED
  BY <1>5, <1>6

\* An index of a concatenation is one of the first sequence or one of the second.
LEMMA SplitIndex ==
    ASSUME NEW m \in Nat, NEW k \in Nat, NEW i \in 1 .. m + k
    PROVE  i \in 1 .. m \/ \E j \in 1 .. k : i = m + j
<1>1. CASE i <= m
  BY <1>1
<1>2. CASE i > m
  <2>1. i - m \in 1 .. k /\ i = m + (i - m)
    BY <1>2
  <2>2. QED
    BY <2>1
<1>3. QED
  BY <1>1, <1>2

\* What a concatenation has at each index.
LEMMA Concatenation ==
    ASSUME NEW s \in Seq(Seq(Piece)), NEW t \in Seq(Seq(Piece))
    PROVE  /\ s \o t \in Seq(Seq(Piece)) /\ Len(s \o t) = Len(s) + Len(t)
           /\ DOMAIN (s \o t) = 1 .. Len(s) + Len(t)
           /\ \A i \in 1 .. Len(s) : (s \o t)[i] = s[i]
           /\ \A i \in 1 .. Len(t) : (s \o t)[Len(s) + i] = t[i]
<1> DEFINE S == Seq(Piece)
<1>1. s \in Seq(S) /\ t \in Seq(S)
  OBVIOUS
<1> HIDE DEF S
<1>2. s \o t \in Seq(S) /\ Len(s \o t) = Len(s) + Len(t)
      /\ DOMAIN (s \o t) = 1 .. Len(s) + Len(t) /\ Len(s) \in Nat /\ Len(t) \in Nat
  BY <1>1
<1>3. \A i \in 1 .. Len(s) + Len(t) :
         (s \o t)[i] = IF i <= Len(s) THEN s[i] ELSE t[i - Len(s)]
  BY <1>1, ConcatProperties
<1>4. ASSUME NEW i \in 1 .. Len(s) PROVE (s \o t)[i] = s[i]
  BY <1>2, <1>3
<1>5. ASSUME NEW i \in 1 .. Len(t) PROVE (s \o t)[Len(s) + i] = t[i]
  <2>1. /\ Len(s) + i \in 1 .. Len(s) + Len(t) /\ ~(Len(s) + i <= Len(s))
        /\ (Len(s) + i) - Len(s) = i
    BY <1>2
  <2>2. QED
    BY <1>3, <2>1
<1>6. QED
  BY <1>2, <1>4, <1>5 DEF S
=============================================================================
