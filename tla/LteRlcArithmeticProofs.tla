---------------------- MODULE LteRlcArithmeticProofs ----------------------
(***************************************************************************)
(* Proofs about the two places where RLC AM comes down to the arithmetic   *)
(* of the machine.                                                         *)
(*                                                                         *)
(* The operators of class SequenceNumber10, with the remainder of C++ and  *)
(* the conversion to uint16_t, are the conditional wraps of                *)
(* SequenceNumber10, for every modulus that divides the width of the       *)
(* integer.  The models of RLC, and the proofs about them, rest on it.     *)
(*                                                                         *)
(* The octets of a STATUS PDU are read back as the ACK and the NACKs that  *)
(* were written, however many, and are as many as PushNack has counted.    *)
(***************************************************************************)
EXTENDS LteRlcAmHeader, SequenceNumber10Proofs, SequenceTheorems

(*************************************************************************)
(* The operators of SequenceNumber10.                                    *)
(*************************************************************************)

\* Division with remainder.
LEMMA Division ==
    ASSUME NEW x \in Int, NEW m \in Nat \ {0}
    PROVE  /\ x % m \in 0 .. m - 1
           /\ x \div m \in Int
           /\ x = m * (x \div m) + (x % m)
OBVIOUS

\* A number below the modulus is its own remainder.
LEMMA RemainderOfSmall ==
    ASSUME NEW x \in Nat, NEW m \in Nat \ {0}, x < m
    PROVE  x % m = x
OBVIOUS

\* The remainder is unique.
LEMMA RemainderUnique ==
    ASSUME NEW m \in Nat \ {0}, NEW p \in Int, NEW q \in Int,
           NEW r \in 0 .. m - 1, NEW s \in 0 .. m - 1, m * p + r = m * q + s
    PROVE  r = s
<1>1. m * (p - q) = s - r OBVIOUS
<1> DEFINE d == p - q
<1>2. d \in Int /\ m * d = s - r BY <1>1
<1> HIDE DEF d
<1>3. d < 1 BY <1>2
<1>4. d > -1 BY <1>2
<1>5. d = 0 BY <1>2, <1>3, <1>4
<1>6. QED BY <1>2, <1>5

\* A uint16_t holds every sequence number, and a multiple of the modulus of them.
LEMMA WidthMultiple ==
    /\ Modulus \in Nat \ {0} /\ Width \in Nat \ {0} /\ Modulus <= Width
    /\ \E k \in Int : Width = Modulus * k
<1>1. /\ Modulus \in Nat \ {0} /\ Width \in Nat \ {0} /\ Width % Modulus = 0
  BY SequenceNumberAssumption, WidthAssumption
<1>2. Width \div Modulus \in Int /\ Width = Modulus * (Width \div Modulus)
  BY <1>1, Division
<1>3. ~(Width < Modulus) BY <1>1, RemainderOfSmall
<1>4. QED BY <1>1, <1>2, <1>3

\* The remainder of C++ has the sign of the dividend.
LEMMA CppRemainderValue ==
    ASSUME NEW a \in Int, -Modulus < a, a < 2 * Modulus
    PROVE  CppRemainder(a) = IF a < Modulus THEN a ELSE a - Modulus
<1>1. Modulus \in Nat \ {0} BY WidthMultiple
<1>2. CASE a < 0
  <2>1. -a \in Nat /\ -a < Modulus BY <1>1, <1>2
  <2>2. (-a) % Modulus = -a BY <1>1, <2>1, RemainderOfSmall
  <2>3. QED BY <1>1, <1>2, <2>2 DEF CppRemainder
<1>3. CASE 0 <= a /\ a < Modulus
  <2>1. a % Modulus = a BY <1>1, <1>3, RemainderOfSmall
  <2>2. QED BY <1>3, <2>1 DEF CppRemainder
<1>4. CASE Modulus <= a
  <2>1. /\ a % Modulus \in 0 .. Modulus - 1 /\ a \div Modulus \in Int
        /\ a = Modulus * (a \div Modulus) + (a % Modulus)
    BY <1>1, Division
  <2>2. a - Modulus \in 0 .. Modulus - 1 /\ a = Modulus * 1 + (a - Modulus)
    BY <1>1, <1>4
  <2> DEFINE q == a \div Modulus
             r == a % Modulus
             s == a - Modulus
  <2>3. /\ r \in 0 .. Modulus - 1 /\ s \in 0 .. Modulus - 1 /\ q \in Int
        /\ Modulus * q + r = Modulus * 1 + s
    BY <2>1, <2>2
  <2> HIDE DEF q, r, s
  <2>4. r = s BY <1>1, <2>3, RemainderUnique
  <2>5. QED BY <1>1, <1>4, <2>4 DEF CppRemainder, r, s
<1>5. QED BY <1>1, <1>2, <1>3, <1>4

\* The constructor takes a remainder, made unsigned, into the sequence numbers.
LEMMA ConstructValue ==
    ASSUME NEW a \in Int, -Modulus < a, a < Modulus
    PROVE  Construct(a) = IF a >= 0 THEN a ELSE a + Modulus
<1>1. /\ Modulus \in Nat \ {0} /\ Width \in Nat \ {0} /\ Modulus <= Width
  BY WidthMultiple
<1>2. CASE a >= 0
  <2>1. a % Width = a BY <1>1, <1>2, RemainderOfSmall
  <2>2. a % Modulus = a BY <1>1, <1>2, RemainderOfSmall
  <2>3. QED BY <1>2, <2>1, <2>2 DEF Construct
<1>3. CASE a < 0
  <2>1. PICK k \in Int : Width = Modulus * k BY WidthMultiple
  <2>2. a % Width = a + Width
    <3> DEFINE q == a \div Width
               r == a % Width
               s == a + Width
    <3>1. /\ r \in 0 .. Width - 1 /\ q \in Int /\ a = Width * q + r
      BY <1>1, Division
    <3>2. s \in 0 .. Width - 1 /\ a = Width * (-1) + s BY <1>1, <1>3
    <3> HIDE DEF q, r, s
    <3>3. Width * q + r = Width * (-1) + s BY <3>1, <3>2
    <3>4. r = s BY <1>1, <3>1, <3>2, <3>3, RemainderUnique
    <3>5. QED BY <3>4 DEF r, s
  <2>3. (a + Width) % Modulus = a + Modulus
    <3> DEFINE q == (a + Width) \div Modulus
               r == (a + Width) % Modulus
               s == a + Modulus
               j == k - 1
    <3>1. /\ r \in 0 .. Modulus - 1 /\ q \in Int /\ a + Width = Modulus * q + r
      <4>1. PICK sum \in Int : sum = a + Width BY <1>1
      <4>2. /\ sum % Modulus \in 0 .. Modulus - 1 /\ sum \div Modulus \in Int
            /\ sum = Modulus * (sum \div Modulus) + (sum % Modulus)
        BY <1>1, Division
      <4>3. QED BY <4>1, <4>2
    <3>2. s \in 0 .. Modulus - 1 /\ j \in Int BY <1>1, <1>3
    <3>3. a + Width = Modulus * j + s BY <1>1, <2>1
    <3> HIDE DEF q, r, s, j
    <3>4. Modulus * q + r = Modulus * j + s BY <3>1, <3>3
    <3>5. r = s BY <1>1, <3>1, <3>2, <3>4, RemainderUnique
    <3>6. QED BY <3>5 DEF r, s
  <2>4. QED BY <1>3, <2>2, <2>3 DEF Construct
<1>4. QED BY <1>2, <1>3

\* operator + is one step up with at most one wrap.
LEMMA AddedIsPlus ==
    ASSUME NEW v \in SN, NEW delta \in 0 .. Modulus
    PROVE  Added(v, delta) = Plus(v, delta)
<1>1. Modulus \in Nat \ {0} BY WidthMultiple
<1>2. v + delta \in Int /\ -Modulus < v + delta /\ v + delta < 2 * Modulus
  BY <1>1 DEF SN
<1> DEFINE sum  == v + delta
           rest == IF sum < Modulus THEN sum ELSE sum - Modulus
<1>3. sum \in Int /\ -Modulus < sum /\ sum < 2 * Modulus /\ sum >= 0
  BY <1>1 DEF SN
<1>4. rest \in Int /\ -Modulus < rest /\ rest < Modulus /\ rest >= 0
  BY <1>1, <1>3
<1>5. rest = Plus(v, delta) BY <1>1 DEF Plus, SN
<1>6. Added(v, delta) = Construct(CppRemainder(sum)) BY DEF Added
<1> HIDE DEF sum
<1>7. CppRemainder(sum) = rest BY <1>3, CppRemainderValue
<1> HIDE DEF rest
<1>8. Construct(rest) = rest BY <1>4, ConstructValue
<1>9. QED BY <1>5, <1>6, <1>7, <1>8

\* What the comparisons compute of an operand is its distance above the base,
\* and a difference is a distance.
LEMMA DifferenceIsRel ==
    ASSUME NEW v \in SN, NEW base \in SN
    PROVE  Construct(CppRemainder(v - base)) = Rel(v, base)
<1>1. Modulus \in Nat \ {0} BY WidthMultiple
<1> DEFINE diff == v - base
<1>2. diff \in Int /\ -Modulus < diff /\ diff < Modulus /\ diff < 2 * Modulus
  BY <1>1 DEF SN
<1>3. Rel(v, base) = IF diff >= 0 THEN diff ELSE diff + Modulus
  BY <1>1 DEF SN, Rel
<1> HIDE DEF diff
<1>4. CppRemainder(diff) = diff BY <1>2, CppRemainderValue
<1>5. Construct(diff) = IF diff >= 0 THEN diff ELSE diff + Modulus
  BY <1>2, ConstructValue
<1>6. QED BY <1>3, <1>4, <1>5 DEF diff

\* operator > compares distances above the base.
LEMMA GreaterIsRel ==
    ASSUME NEW u \in SN, NEW v \in SN, NEW base \in SN
    PROVE  Greater(u, v, base) <=> Rel(u, base) > Rel(v, base)
BY DifferenceIsRel DEF Greater

\* operator++ and - 1.
LEMMA StepsAgree ==
    ASSUME NEW v \in SN
    PROVE  /\ Inc(v) = Incremented(v)
           /\ Dec(v) = Subtracted(v, 1)
<1>1. /\ Modulus \in Nat /\ Modulus > 1 /\ 1 \in SN /\ v \in Nat /\ v < Modulus
  BY SequenceNumberAssumption DEF SN
<1>2. Inc(v) = (v + 1) % Modulus
  <2>1. CASE v = Modulus - 1
    <3>1. Modulus % Modulus = 0 BY <1>1
    <3>2. QED BY <1>1, <2>1, <3>1 DEF Inc
  <2>2. CASE v # Modulus - 1
    <3>1. (v + 1) % Modulus = v + 1 BY <1>1, <2>2, RemainderOfSmall
    <3>2. QED BY <2>2, <3>1 DEF Inc
  <2>3. QED BY <2>1, <2>2
<1>3. Dec(v) = Subtracted(v, 1)
  <2>1. Subtracted(v, 1) = Rel(v, 1) BY <1>1, DifferenceIsRel DEF Subtracted
  <2>2. Rel(v, 1) = Dec(v) BY <1>1 DEF Rel, Dec
  <2>3. QED BY <2>1, <2>2
<1>4. QED BY <1>2, <1>3 DEF Incremented

\* Setting the modulus base further up, past neither of two SNs, leaves operator >
\* between them as it was.
LEMMA RebaseKept ==
    ASSUME NEW u \in SN, NEW v \in SN, NEW base \in SN, NEW to \in SN,
           Rel(to, base) <= Rel(u, base), Rel(to, base) <= Rel(v, base)
    PROVE  Greater(u, v, to) <=> Greater(u, v, base)
<1>1. PICK k \in Nat : k = Rel(to, base) /\ Plus(base, k) = to
  BY RelType
<1>2. Rel(u, to) = Rel(u, base) - k /\ Rel(v, to) = Rel(v, base) - k
  BY <1>1, RelMoveBase
<1>3. Rel(u, base) \in Nat /\ Rel(v, base) \in Nat
  BY RelType
<1>4. Rel(u, to) > Rel(v, to) <=> Rel(u, base) > Rel(v, base)
  BY <1>1, <1>2, <1>3
<1>5. QED BY <1>4, GreaterIsRel

---------------------------------------------------------------------------
(*************************************************************************)
(* The octets of the STATUS PDU: how an octet splits a number.           *)
(*************************************************************************)

\* The octets of n NACKs: two for the first of a pair, one for the second.
NackOctets(n) == n + (n + 1) \div 2

\* Shifts by the numbers of bits that occur.
LEMMA Shifts ==
    ASSUME NEW x
    PROVE  /\ Right(x, 1) = x \div 2 /\ Right(x, 2) = x \div 4 /\ Right(x, 3) = x \div 8
           /\ Right(x, 5) = x \div 32 /\ Right(x, 6) = x \div 64 /\ Right(x, 7) = x \div 128
           /\ Right(x, 9) = x \div 512
           /\ Left(x, 2) = (x * 4) % 256 /\ Left(x, 3) = (x * 8) % 256
           /\ Left(x, 7) = (x * 128) % 256
<1>1. /\ 2^1 = 2 /\ 2^2 = 4 /\ 2^3 = 8 /\ 2^5 = 32 /\ 2^6 = 64 /\ 2^7 = 128 /\ 2^9 = 512
  OBVIOUS
<1>2. QED BY <1>1 DEF Right, Left

\* A NACK that is the first of a pair: its highest bit, eight bits, its lowest bit.
LEMMA OddBits ==
    ASSUME NEW x \in 0 .. 1023
    PROVE  x = ((x \div 512) % 2) * 512 + ((x \div 2) % 256) * 2 + (x % 2)
OBVIOUS

\* The second of a pair: five bits and five bits.
LEMMA EvenBits ==
    ASSUME NEW x \in 0 .. 1023
    PROVE  x = ((x \div 32) % 32) * 32 + (x % 32)
OBVIOUS

\* The lowest bit of the last NACK, in its octet.
LEMMA LowestBit ==
    ASSUME NEW x \in Nat, NEW last, last = (x * 128) % 256
    PROVE  last \div 128 = x % 2 /\ (last \div 64) % 2 = 0
OBVIOUS

\* The same with the beginning of another NACK.
LEMMA LowestBitMore ==
    ASSUME NEW x \in Nat, NEW r \in 0 .. 31, NEW more, more = ((x * 128) % 256) + 64 + r
    PROVE  more \div 128 = x % 2 /\ (more \div 64) % 2 = 1 /\ more % 32 = r
<1>1. (x * 128) % 256 = 128 * (x % 2) /\ (x % 2) \in 0 .. 1
  OBVIOUS
<1> DEFINE b == x % 2
<1> HIDE DEF b
<1>2. b \in 0 .. 1 /\ (x * 128) % 256 = 128 * b
  BY <1>1 DEF b
<1>3. QED BY <1>1, <1>2 DEF b

\* The five lowest bits of a NACK.
LEMMA LowFive ==
    ASSUME NEW x \in Nat, NEW r \in 0 .. 1
    PROVE  /\ ((x * 8) % 256) \div 8 = x % 32
           /\ (((x * 8) % 256) \div 4) % 2 = 0
           /\ (((x * 8) % 256) + 4 + r) \div 8 = x % 32
           /\ ((((x * 8) % 256) + 4 + r) \div 4) % 2 = 1
           /\ (((x * 8) % 256) + 4 + r) % 2 = r
<1>1. (x * 8) % 256 = 8 * (x % 32) /\ (x % 32) \in 0 .. 31
  OBVIOUS
<1> DEFINE b == x % 32
<1> HIDE DEF b
<1>2. b \in 0 .. 31 /\ (x * 8) % 256 = 8 * b
  BY <1>1 DEF b
<1>3. QED BY <1>1, <1>2 DEF b

(*************************************************************************)
(* The octets of the groups one after the other.                         *)
(*************************************************************************)

\* Groups of three octets, the last of which may have two.
InThrees(s, G) ==
    /\ s \in Seq(Seq(Int)) /\ Len(s) = G
    /\ \A g \in 1 .. G : Len(s[g]) = 3 \/ (g = G /\ Len(s[g]) = 2)

\* The first i of them as one sequence.
Joint(s, i) ==
    [k \in 1 .. 3 * (i - 1) + Len(s[i]) |-> s[(k - 1) \div 3 + 1][((k - 1) % 3) + 1]]

\* The k-th octet, when it is the j-th of the i-th group.
LEMMA InGroup ==
    ASSUME NEW i \in Nat, NEW j \in 1 .. 3
    PROVE  ((3 * i + j) - 1) \div 3 = i /\ ((3 * i + j) - 1) % 3 = j - 1
OBVIOUS

\* Where an octet after N others can be, when two or three follow them.
LEMMA WithinGroup ==
    ASSUME NEW N \in Nat, NEW L, L = 2 \/ L = 3, NEW k \in 1 .. N + L
    PROVE  k \in Nat /\ 1 <= k /\ k <= N + 3
<1>1. CASE L = 2 BY <1>1
<1>2. CASE L = 3 BY <1>2
<1>3. QED BY <1>1, <1>2

\* What the concatenation of two sequences is, whatever their elements are.
LEMMA Concatenated ==
    ASSUME NEW M \in Nat, NEW N \in Nat, NEW a, NEW b,
           a = [k \in 1 .. M |-> a[k]], b = [k \in 1 .. N |-> b[k]]
    PROVE  a \o b = [k \in 1 .. M + N |-> IF k <= M THEN a[k] ELSE b[k - M]]
<1> DEFINE S == {a[k] : k \in 1 .. M} \cup {b[k] : k \in 1 .. N}
<1>1. a \in [1 .. M -> S] /\ b \in [1 .. N -> S]
  <2>1. (\A k \in 1 .. M : a[k] \in S) /\ (\A k \in 1 .. N : b[k] \in S)
    OBVIOUS
  <2> HIDE DEF S
  <2>2. [k \in 1 .. M |-> a[k]] \in [1 .. M -> S] /\ [k \in 1 .. N |-> b[k]] \in [1 .. N -> S]
    BY <2>1
  <2>3. QED BY <2>2
<1> HIDE DEF S
<1>2. /\ a \in Seq(S) /\ Len(a) = M /\ b \in Seq(S) /\ Len(b) = N
  BY <1>1
<1>3. QED
  BY <1>2

\* One more group is appended.
LEMMA JointStep ==
    ASSUME NEW G \in Nat \ {0}, NEW s, InThrees(s, G), NEW i \in 2 .. G
    PROVE  Joint(s, i) = Joint(s, i - 1) \o s[i]
<1>1. /\ s[i] \in Seq(Int) /\ (Len(s[i]) = 2 \/ Len(s[i]) = 3) /\ Len(s[i - 1]) = 3
      /\ i \in Nat /\ i - 1 \in Nat /\ i >= 2
  <2>1. i \in 1 .. G /\ i - 1 \in 1 .. G /\ i - 1 # G /\ i \in Nat /\ i - 1 \in Nat /\ i >= 2
    OBVIOUS
  <2>2. QED BY <2>1 DEF InThrees
<1> DEFINE a == Joint(s, i - 1)
           b == s[i]
           N == 3 * (i - 1)
<1>2. N \in Nat /\ N = 3 * ((i - 1) - 1) + Len(s[i - 1])
  BY <1>1
<1>b. b = [k \in 1 .. Len(b) |-> b[k]] /\ Len(b) \in Nat /\ (Len(b) = 2 \/ Len(b) = 3)
  <2>1. b \in Seq(Int) /\ (Len(b) = 2 \/ Len(b) = 3)
    BY <1>1
  <2> HIDE DEF b
  <2>2. QED BY <2>1
<1>3. a = [k \in 1 .. N |-> s[(k - 1) \div 3 + 1][((k - 1) % 3) + 1]]
  BY <1>2 DEF Joint
<1>4. Len(a) = N /\ DOMAIN a = 1 .. N
  <2> HIDE DEF a, N
  <2>1. QED BY <1>2, <1>3
<1>5. a \o b = [k \in 1 .. N + Len(b) |-> IF k <= N THEN a[k] ELSE b[k - N]]
  <2> HIDE DEF a, b, N
  <2>1. a = [k \in 1 .. N |-> a[k]]
    BY <1>3
  <2> DEFINE L == Len(b)
  <2>2. b = [k \in 1 .. L |-> b[k]] /\ L \in Nat /\ N \in Nat
    BY <1>b, <1>2
  <2> HIDE DEF L
  <2>3. a \o b = [k \in 1 .. N + L |-> IF k <= N THEN a[k] ELSE b[k - N]]
    BY ONLY <2>1, <2>2, Concatenated
  <2>4. QED
    BY <2>3 DEF L
<1>6. ASSUME NEW k \in 1 .. N + Len(b)
      PROVE  s[(k - 1) \div 3 + 1][((k - 1) % 3) + 1] = IF k <= N THEN a[k] ELSE b[k - N]
  <2>0. k \in Nat /\ k >= 1 /\ k <= N + 3 /\ N \in Nat
    <3> HIDE DEF N, b
    <3>1. QED
      BY <1>b, <1>2, WithinGroup
  <2>1. CASE k <= N
    <3>1. k \in 1 .. N
      <4> HIDE DEF N
      <4>1. QED BY <2>0, <2>1
    <3>2. a[k] = s[(k - 1) \div 3 + 1][((k - 1) % 3) + 1]
      <4> HIDE DEF a
      <4>1. QED BY <1>3, <3>1
    <3>3. QED
      BY <3>2, <2>1
  <2>2. CASE ~ (k <= N)
    <3> DEFINE j == k - N
    <3>1. j \in 1 .. 3 /\ k = 3 * (i - 1) + j /\ i - 1 \in Nat
      BY <1>1, <2>2, <2>0
    <3>2. (k - 1) \div 3 = i - 1 /\ (k - 1) % 3 = j - 1
      <4> HIDE DEF j, N
      <4>1. QED BY <3>1, InGroup
    <3>3. (k - 1) \div 3 + 1 = i /\ ((k - 1) % 3) + 1 = j
      BY <3>1, <3>2, <1>1
    <3>4. QED
      BY <2>2, <3>3
  <2>3. QED
    BY <2>1, <2>2
<1>7. QED
  BY <1>5, <1>6 DEF Joint

\* FlattenSeq is all of them.
LEMMA FlattenIsJoint ==
    ASSUME NEW G \in Nat \ {0}, NEW s, InThrees(s, G)
    PROVE  FlattenSeq(s) = Joint(s, G)
<1> DEFINE Flat(f) == f = [i \in 1 .. G |-> IF i = 1 THEN s[i] ELSE f[i - 1] \o s[i]]
<1>1. Len(s) = G /\ G # 0
  BY DEF InThrees
<1>2. Flat([i \in 1 .. G |-> Joint(s, i)])
  <2>1. Joint(s, 1) = s[1]
    <3>1. 1 \in 1 .. G /\ s[1] \in Seq(Int) /\ (Len(s[1]) = 2 \/ Len(s[1]) = 3)
      BY DEF InThrees
    <3>2. \A k \in 1 .. Len(s[1]) : (k - 1) \div 3 + 1 = 1 /\ ((k - 1) % 3) + 1 = k
      <4>1. \A k \in 1 .. 3 : (k - 1) \div 3 = 0 /\ (k - 1) % 3 = k - 1
        OBVIOUS
      <4>2. \A k \in 1 .. Len(s[1]) : k \in 1 .. 3
        <5>1. SUFFICES ASSUME NEW k \in 1 .. 0 + Len(s[1]) PROVE k \in 1 .. 3
          BY <3>1
        <5>2. k \in Nat /\ 1 <= k /\ k <= 0 + 3
          BY <3>1, WithinGroup
        <5>3. QED
          BY <5>2
      <4>3. QED
        BY <4>1, <4>2
    <3>3. 3 * (1 - 1) + Len(s[1]) = Len(s[1])
      BY <3>1
    <3>4. Joint(s, 1) = [k \in 1 .. Len(s[1]) |-> s[1][k]]
      BY <3>2, <3>3 DEF Joint
    <3>5. QED
      BY <3>1, <3>4
  <2>2. \A i \in 1 .. G : i # 1 => i \in 2 .. G /\ i - 1 \in 1 .. G
    OBVIOUS
  <2>3. \A i \in 1 .. G : i # 1 => Joint(s, i) = Joint(s, i - 1) \o s[i]
    BY <2>2, JointStep
  <2>4. QED
    BY <2>1, <2>2, <2>3
<1>3. PICK f : Flat(f) /\ FlattenSeq(s) = f[G]
  <2>1. FlattenSeq(s) = (CHOOSE f : Flat(f))[G]
    BY <1>1 DEF FlattenSeq
  <2>2. Flat(CHOOSE f : Flat(f))
    <3> HIDE DEF Flat
    <3>1. QED BY <1>2
  <2>3. QED
    BY <2>1, <2>2
<1>4. \A i \in 1 .. G : f[i] = Joint(s, i)
  <2> DEFINE Bad == {i \in 1 .. G : f[i] # Joint(s, i)}
  <2>1. SUFFICES ASSUME Bad # {} PROVE FALSE
    OBVIOUS
  <2>2. Bad \in SUBSET Nat
    OBVIOUS
  <2>3. PICK i \in Bad : \A k \in Bad : i <= k
    <3> HIDE DEF Bad
    <3>1. QED BY <2>1, <2>2, LeastNat
  <2>4. i \in 1 .. G /\ f[i] # Joint(s, i)
    BY <2>3
  <2>5. f[i] = IF i = 1 THEN s[i] ELSE f[i - 1] \o s[i]
    BY <1>3, <2>4
  <2>6. Joint(s, i) = IF i = 1 THEN s[i] ELSE Joint(s, i - 1) \o s[i]
    <3> DEFINE h == [j \in 1 .. G |-> Joint(s, j)]
    <3>1. \A j \in 1 .. G : h[j] = IF j = 1 THEN s[j] ELSE h[j - 1] \o s[j]
      <4> HIDE DEF h
      <4>1. Flat(h) BY <1>2 DEF h
      <4>2. QED BY <4>1
    <3>2. h[i] = Joint(s, i) /\ (i # 1 => h[i - 1] = Joint(s, i - 1))
      BY <2>4
    <3> HIDE DEF h
    <3>3. QED
      BY <3>1, <3>2, <2>4
  <2>7. i # 1 => f[i - 1] = Joint(s, i - 1)
    <3>1. i # 1 => i - 1 \in 1 .. G /\ i - 1 < i
      BY <2>4
    <3>2. i - 1 \notin Bad
      <4> HIDE DEF Bad
      <4>1. QED BY <2>2, <2>3, <2>4
    <3>3. QED
      BY <3>1, <3>2
  <2>8. QED
    BY <2>4, <2>5, <2>6, <2>7
<1>5. G \in 1 .. G
  OBVIOUS
<1> HIDE DEF Flat
<1>6. QED
  BY <1>3, <1>4, <1>5


\* Where the j-th octet of the g-th group is.
AllPlaced(s, G) ==
    \A g \in 1 .. G : \A j \in 1 .. 3 : j <= Len(s[g]) =>
        /\ 3 * (g - 1) + j \in 1 .. 3 * (G - 1) + Len(s[G])
        /\ Joint(s, G)[3 * (g - 1) + j] = s[g][j]

\* The octets stand there.
LEMMA JointAt ==
    ASSUME NEW G \in Nat \ {0}, NEW s, InThrees(s, G)
    PROVE  AllPlaced(s, G)
<1> SUFFICES ASSUME NEW g \in 1 .. G, NEW j \in 1 .. 3, j <= Len(s[g])
             PROVE  /\ 3 * (g - 1) + j \in 1 .. 3 * (G - 1) + Len(s[G])
                    /\ Joint(s, G)[3 * (g - 1) + j] = s[g][j]
  BY DEF AllPlaced
<1>1. \A i \in 1 .. G : Len(s[i]) = 3 \/ (i = G /\ Len(s[i]) = 2)
  BY DEF InThrees
<1>2. j \in 1 .. 3 /\ (Len(s[g]) = 2 \/ Len(s[g]) = 3) /\ (Len(s[G]) = 2 \/ Len(s[G]) = 3)
  BY <1>1
<1> DEFINE k == 3 * (g - 1) + j
<1>3. (k - 1) \div 3 = g - 1 /\ (k - 1) % 3 = j - 1
  <2>1. g - 1 \in Nat
    OBVIOUS
  <2>2. QED
    BY <1>2, <2>1, InGroup
<1>4. k \in 1 .. 3 * (G - 1) + Len(s[G])
  <2>1. CASE g = G
    <3>1. j \in Nat /\ 1 <= j /\ j <= Len(s[G])
      BY <2>1, <1>2
    <3>2. QED
      BY <3>1, <2>1, <1>2
  <2>2. CASE g # G
    <3>1. g \in Nat /\ G \in Nat /\ g + 1 <= G /\ 1 <= g
      BY <2>2
    <3>2. k \in Nat /\ 1 <= k /\ k <= 3 * (G - 1)
      BY <1>2, <3>1
    <3> HIDE DEF k
    <3>3. CASE Len(s[G]) = 2
      BY <3>1, <3>2, <3>3
    <3>4. CASE Len(s[G]) = 3
      BY <3>1, <3>2, <3>4
    <3>5. QED
      BY <1>2, <3>3, <3>4
  <2>3. QED
    BY <2>1, <2>2
<1>5. (k - 1) \div 3 + 1 = g /\ ((k - 1) % 3) + 1 = j
  BY <1>2, <1>3
<1> HIDE DEF k
<1>6. Joint(s, G)[k] = s[(k - 1) \div 3 + 1][((k - 1) % 3) + 1]
  BY <1>4 DEF Joint
<1>7. QED
  BY <1>4, <1>5, <1>6 DEF k

(*************************************************************************)
(* The octets of a STATUS PDU.                                           *)
(*************************************************************************)

\* The parts of a NACK are numbers.
LEMMA PartsAreInts ==
    ASSUME NEW x \in 0 .. 1023
    PROVE  /\ x \in Nat /\ (x \div 2) % 256 \in Int /\ (x * 128) % 256 \in Int
           /\ (x \div 32) % 32 \in 0 .. 31 /\ (x * 8) % 256 \in Int
           /\ (x \div 512) % 2 \in 0 .. 1
OBVIOUS

\* NACKs of ten bits.
LEMMA TenBitNacks ==
    ASSUME Modulus <= 1024, NEW nacks \in Seq(SN)
    PROVE  \A k \in 1 .. Len(nacks) : nacks[k] \in 0 .. 1023
<1> DEFINE Ten == 0 .. 1023
<1>1. SN \subseteq Ten
  <2>1. Modulus <= 1024
    OBVIOUS
  <2>2. QED
    BY ONLY <2>1, SequenceNumberAssumption DEF SN
<1>2. \A k \in 1 .. Len(nacks) : nacks[k] \in SN
  OBVIOUS
<1> HIDE DEF Ten
<1>3. \A k \in 1 .. Len(nacks) : nacks[k] \in Ten
  BY ONLY <1>1, <1>2
<1>4. QED
  BY <1>3 DEF Ten

\* The octets of the group of the i-th NACK.
LEMMA GroupOctets ==
    ASSUME Modulus <= 1024, NEW nacks \in Seq(SN), NEW i \in 1 .. Len(nacks)
    PROVE  LET n == Len(nacks)
               x == nacks[i]
               y == nacks[i + 1]
               e == Group(nacks, i)
           IN  /\ e \in Seq(Int) /\ Len(e) = IF i = n THEN 2 ELSE 3
               /\ e[1] = (x \div 2) % 256
               /\ e[2] = IF i = n THEN (x * 128) % 256
                                  ELSE ((x * 128) % 256) + 64 + ((y \div 32) % 32)
               /\ i # n => e[3] = IF i + 1 = n THEN (y * 8) % 256
                                  ELSE ((y * 8) % 256) + 4 + ((nacks[i + 2] \div 512) % 2)
<1> DEFINE n == Len(nacks)
           x == nacks[i]
           y == nacks[i + 1]
           z == nacks[i + 2]
           a == (x \div 2) % 256
           b == (x * 128) % 256
           c == ((x * 128) % 256) + 64 + ((y \div 32) % 32)
           d == ((y * 8) % 256) + 4 + ((z \div 512) % 2)
           D == IF i + 1 = n THEN (y * 8) % 256 ELSE d
<1>1. n \in Nat /\ i \in Nat /\ i \in 1 .. n
  OBVIOUS
<1>2. x \in 0 .. 1023 /\ (i # n => y \in 0 .. 1023) /\ (i # n /\ i + 1 # n => z \in 0 .. 1023)
  <2>1. \A k \in 1 .. n : nacks[k] \in 0 .. 1023
    BY TenBitNacks
  <2> HIDE DEF n
  <2>2. i # n => i + 1 \in 1 .. n
    BY <1>1
  <2>3. i # n /\ i + 1 # n => i + 2 \in 1 .. n
    BY <1>1
  <2> DEFINE Ten == 0 .. 1023
  <2>4. \A k \in 1 .. n : nacks[k] \in Ten
    BY <2>1
  <2> HIDE DEF Ten
  <2>5. x \in Ten /\ (i # n => y \in Ten) /\ (i # n /\ i + 1 # n => z \in Ten)
    BY <2>2, <2>3, <2>4, <1>1
  <2>6. QED
    BY <2>5 DEF Ten
<1>3. CASE i = n
  <2>1. Group(nacks, i) = <<Right(x, 1) % 256, Left(x, 7)>>
    BY <1>3 DEF Group
  <2>2. Right(x, 1) = x \div 2 /\ Left(x, 7) = (x * 128) % 256
    BY Shifts
  <2>3. Group(nacks, i) = <<a, b>>
    BY <2>1, <2>2
  <2>4. a \in Int /\ b \in Int
    <3> HIDE DEF x
    <3>1. QED BY <1>2, PartsAreInts
  <2> HIDE DEF a, b
  <2>5. /\ Group(nacks, i) \in Seq(Int) /\ Len(Group(nacks, i)) = 2
        /\ Group(nacks, i)[1] = a /\ Group(nacks, i)[2] = b
    BY <2>3, <2>4
  <2>6. QED
    BY <2>5, <1>3 DEF a, b
<1>4. CASE i # n
  <2>1. Group(nacks, i) = <<Right(x, 1) % 256,
                            Left(x, 7) + 64 + (Right(y, 5) % 32),
                            Left(y, 3) + IF i + 1 = n THEN 0 ELSE 4 + (Right(z, 9) % 2)>>
    BY <1>4 DEF Group
  <2>2. /\ Right(x, 1) = x \div 2 /\ Left(x, 7) = (x * 128) % 256
        /\ Right(y, 5) = y \div 32 /\ Left(y, 3) = (y * 8) % 256 /\ Right(z, 9) = z \div 512
    BY Shifts
  <2>3. a \in Int /\ c \in Int
    <3>1. (x * 128) % 256 \in Int /\ (y \div 32) % 32 \in 0 .. 31 /\ a \in Int
      <4> HIDE DEF x, y
      <4>1. x \in 0 .. 1023 /\ y \in 0 .. 1023
        BY <1>2, <1>4
      <4>2. (x * 128) % 256 \in Int /\ (x \div 2) % 256 \in Int
        BY ONLY <4>1, PartsAreInts
      <4>3. (y \div 32) % 32 \in 0 .. 31
        BY ONLY <4>1, PartsAreInts
      <4>4. QED
        BY <4>2, <4>3
    <3> DEFINE p == (x * 128) % 256
               q == (y \div 32) % 32
    <3> HIDE DEF p, q
    <3>2. p + 64 + q \in Int
      <4>1. p \in Int /\ q \in 0 .. 31
        BY <3>1 DEF p, q
      <4>2. QED
        BY <4>1
    <3>3. QED
      BY <3>1, <3>2 DEF p, q
  <2> DEFINE E == ((y * 8) % 256) + IF i + 1 = n THEN 0 ELSE 4 + ((z \div 512) % 2)
  <2>4. E = D /\ D \in Int
    <3> HIDE DEF y, z, n
    <3>1. (y * 8) % 256 \in Int /\ (i + 1 # n => (z \div 512) % 2 \in 0 .. 1)
      <4>1. y \in 0 .. 1023 /\ (i + 1 # n => z \in 0 .. 1023)
        BY <1>2, <1>4
      <4>2. (y * 8) % 256 \in Int
        BY ONLY <4>1, PartsAreInts
      <4>3. ASSUME i + 1 # n PROVE (z \div 512) % 2 \in 0 .. 1
        <5>1. z \in 0 .. 1023
          BY <4>1, <4>3
        <5>2. QED
          BY ONLY <5>1, PartsAreInts
      <4>4. QED
        BY <4>2, <4>3
    <3> DEFINE p == (y * 8) % 256
               q == (z \div 512) % 2
    <3> HIDE DEF p, q
    <3>2. p \in Int /\ (i + 1 # n => q \in 0 .. 1)
      BY <3>1 DEF p, q
    <3>3. CASE i + 1 = n
      <4>1. p + 0 = p
        BY <3>2
      <4>2. QED
        BY <4>1, <3>2, <3>3 DEF p
    <3>4. CASE i + 1 # n
      <4>1. p + (4 + q) = p + 4 + q /\ p + 4 + q \in Int
        BY <3>2, <3>4
      <4>2. QED
        BY <4>1, <3>4 DEF p, q
    <3>5. QED
      BY <3>3, <3>4
  <2>5. Group(nacks, i) = <<a, c, E>>
    <3> HIDE DEF x, y, z, n
    <3>1. QED BY <2>1, <2>2
  <2> HIDE DEF a, c, D, E
  <2>6. /\ Group(nacks, i) \in Seq(Int) /\ Len(Group(nacks, i)) = 3
        /\ Group(nacks, i)[1] = a /\ Group(nacks, i)[2] = c /\ Group(nacks, i)[3] = D
    BY <2>3, <2>4, <2>5
  <2>7. QED
    BY <2>6, <1>4 DEF a, c, D
<1>5. QED
  BY <1>3, <1>4

\* The groups of all NACKs.
Groups(nacks) == [g \in 1 .. (Len(nacks) + 1) \div 2 |-> Group(nacks, 2 * g - 1)]

\* A pair of NACKs makes three octets, the last without a second makes two.
LEMMA GroupsInThrees ==
    ASSUME Modulus <= 1024, NEW nacks \in Seq(SN), nacks # <<>>
    PROVE  LET n == Len(nacks)
               G == (n + 1) \div 2
           IN  /\ G \in Nat \ {0} /\ InThrees(Groups(nacks), G)
               /\ 3 * (G - 1) + Len(Groups(nacks)[G]) = NackOctets(n)
<1> DEFINE n == Len(nacks)
           G == (n + 1) \div 2
<1>1. n \in Nat \ {0}
  OBVIOUS
<1>2. /\ G \in Nat \ {0} /\ (n = 2 * G \/ n = 2 * G - 1)
      /\ NackOctets(n) = n + G
  <2> HIDE DEF n
  <2>1. QED BY <1>1 DEF NackOctets
<1>3. ASSUME NEW g \in 1 .. G
      PROVE  /\ 2 * g - 1 \in 1 .. n
             /\ 2 * g - 1 = n <=> g = G /\ n = 2 * G - 1
             /\ Group(nacks, 2 * g - 1) \in Seq(Int)
             /\ Len(Group(nacks, 2 * g - 1)) = IF g = G /\ n = 2 * G - 1 THEN 2 ELSE 3
  <2>1. /\ 2 * g - 1 \in 1 .. n
        /\ 2 * g - 1 = n <=> g = G /\ n = 2 * G - 1
    <3> HIDE DEF n, G
    <3>1. QED BY <1>1, <1>2
  <2> DEFINE i == 2 * g - 1
  <2> HIDE DEF i
  <2>2. i \in 1 .. Len(nacks) /\ (i = n <=> g = G /\ n = 2 * G - 1)
    BY <2>1 DEF i
  <2>3. Group(nacks, i) \in Seq(Int) /\ Len(Group(nacks, i)) = IF i = n THEN 2 ELSE 3
    BY <2>2, GroupOctets
  <2>4. QED
    BY <2>1, <2>2, <2>3 DEF i
<1> DEFINE s == Groups(nacks)
<1>4. s = [g \in 1 .. G |-> Group(nacks, 2 * g - 1)]
  BY DEF Groups
<1>5. s \in Seq(Seq(Int)) /\ Len(s) = G
  <2> HIDE DEF s, n, G
  <2>1. s \in [1 .. G -> Seq(Int)] /\ G \in Nat
    BY <1>2, <1>3, <1>4
  <2>2. QED BY <2>1
<1>6. \A g \in 1 .. G : Len(s[g]) = IF g = G /\ n = 2 * G - 1 THEN 2 ELSE 3
  <2> HIDE DEF s, n, G
  <2>1. \A g \in 1 .. G : s[g] = Group(nacks, 2 * g - 1)
    BY <1>4
  <2>2. QED BY <1>3, <2>1
<1>7. InThrees(s, G)
  <2> HIDE DEF s, n, G
  <2>1. QED BY <1>5, <1>6 DEF InThrees
<1>8. 3 * (G - 1) + Len(s[G]) = NackOctets(n)
  <2> HIDE DEF s, n, G
  <2>1. G \in 1 .. G
    BY <1>2
  <2>2. CASE n = 2 * G - 1
    <3>1. Len(s[G]) = 2
      BY <1>6, <2>1, <2>2
    <3>2. QED
      BY <3>1, <2>2, <1>2
  <2>3. CASE n = 2 * G
    <3>1. n # 2 * G - 1
      BY <2>3, <1>2
    <3>2. Len(s[G]) = 3
      BY <1>6, <2>1, <3>1
    <3>3. QED
      BY <3>2, <2>3, <1>2
  <2>4. QED
    BY <1>2, <2>2, <2>3
<1>9. QED
  BY <1>2, <1>7, <1>8

\* The octets o of a STATUS PDU, which begins with the ACK.
Written(o, ack, nacks) ==
    LET n == Len(nacks)
    IN  /\ o = [k \in 1 .. 2 + NackOctets(n) |-> o[k]]
        /\ o[1] = (ack \div 64) % 16
        /\ o[2] = IF n = 0 THEN (ack * 4) % 256
                           ELSE ((ack * 4) % 256) + 2 + ((nacks[1] \div 512) % 2)
        /\ \A g \in 1 .. (n + 1) \div 2 : \A j \in 1 .. 3 :
              j <= Len(Group(nacks, 2 * g - 1)) =>
                 o[3 * (g - 1) + j + 2] = Group(nacks, 2 * g - 1)[j]

\* Serialize writes them.
LEMMA SerializeWrites ==
    ASSUME Modulus <= 1024, NEW ack \in SN, NEW nacks \in Seq(SN)
    PROVE  Written(Serialize(ack, nacks), ack, nacks)
<1> DEFINE n == Len(nacks)
           G == (n + 1) \div 2
           s == Groups(nacks)
           N == NackOctets(n)
           f == FlattenSeq(s)
           p == (ack \div 64) % 16
           q == IF n = 0 THEN (ack * 4) % 256
                         ELSE ((ack * 4) % 256) + 2 + ((nacks[1] \div 512) % 2)
           o == Serialize(ack, nacks)
<1>0. SN \subseteq 0 .. 1023
  <2>1. Modulus <= 1024
    OBVIOUS
  <2>2. QED
    BY ONLY <2>1, SequenceNumberAssumption DEF SN
<1>1. n \in Nat /\ (nacks = <<>> <=> n = 0)
  OBVIOUS
<1>2. o = <<p, q>> \o f
  <2>1. /\ Right(ack, 6) = ack \div 64 /\ Left(ack, 2) = (ack * 4) % 256
        /\ Right(nacks[1], 9) = nacks[1] \div 512
    BY Shifts
  <2>2. o = <<Right(ack, 6) % 16,
              Left(ack, 2) + IF nacks = <<>> THEN 0 ELSE 2 + (Right(nacks[1], 9) % 2)>> \o f
    BY DEF Serialize, Groups
  <2>3. Left(ack, 2) + (IF nacks = <<>> THEN 0 ELSE 2 + (Right(nacks[1], 9) % 2)) = q
    <3> DEFINE u == (ack * 4) % 256
               v == (nacks[1] \div 512) % 2
    <3>1. u \in Int
      <4>1. ack \in 0 .. 1023
        BY <1>0
      <4>2. QED BY <4>1
    <3>2. nacks # <<>> => v \in Int
      <4>1. ASSUME nacks # <<>> PROVE v \in Int
        <5> DEFINE x == nacks[1]
        <5>1. x \in SN
          BY <4>1
        <5> HIDE DEF x
        <5>a. x \in 0 .. 1023
          BY ONLY <5>1, <1>0
        <5>2. (x \div 512) % 2 \in 0 .. 1
          BY ONLY <5>a, PartsAreInts
        <5>3. QED BY <5>2 DEF x
      <4>2. QED BY <4>1
    <3> HIDE DEF u, v, n
    <3>3. u + (IF nacks = <<>> THEN 0 ELSE 2 + v) = IF n = 0 THEN u ELSE u + 2 + v
      <4>1. CASE nacks = <<>>
        BY <4>1, <1>1, <3>1
      <4>2. CASE nacks # <<>>
        BY <4>2, <1>1, <3>1, <3>2
      <4>3. QED BY <4>1, <4>2
    <3>4. QED
      BY <2>1, <3>3 DEF u, v
  <2> HIDE DEF o, f, q, n
  <2>4. QED
    BY <2>1, <2>2, <2>3
<1>3. /\ N \in Nat /\ f = [k \in 1 .. N |-> f[k]]
      /\ \A g \in 1 .. G : \A j \in 1 .. 3 : j <= Len(Group(nacks, 2 * g - 1)) =>
            /\ 3 * (g - 1) + j \in 1 .. N
            /\ f[3 * (g - 1) + j] = Group(nacks, 2 * g - 1)[j]
  <2>1. CASE n = 0
    <3>1. N = 0 /\ G = 0
      <4> HIDE DEF n
      <4>1. QED BY <2>1 DEF NackOctets
    <3>2. s = <<>>
      <4>1. s = [g \in 1 .. G |-> Group(nacks, 2 * g - 1)]
        BY DEF Groups
      <4> HIDE DEF s, G
      <4>2. QED BY <4>1, <3>1
    <3>3. f = <<>>
      <4> HIDE DEF s
      <4>1. QED BY <3>2 DEF FlattenSeq
    <3> HIDE DEF f, N, G
    <3>4. QED
      BY <3>1, <3>3
  <2>2. CASE n # 0
    <3>1. /\ G \in Nat \ {0} /\ InThrees(s, G)
          /\ 3 * (G - 1) + Len(s[G]) = N
      <4>1. nacks # <<>>
        BY <1>1, <2>2
      <4>2. QED
        BY <4>1, GroupsInThrees
    <3>2. N \in Nat
      <4> HIDE DEF n
      <4>1. QED BY <1>1 DEF NackOctets
    <3>3. f = Joint(s, G)
      <4> HIDE DEF G, s
      <4>1. QED BY <3>1, FlattenIsJoint
    <3>4. f = [k \in 1 .. N |-> f[k]]
      <4> HIDE DEF G, s, N, f
      <4>1. QED BY <3>1, <3>3 DEF Joint
    <3>5. ASSUME NEW g \in 1 .. G, NEW j \in 1 .. 3, j <= Len(Group(nacks, 2 * g - 1))
          PROVE  /\ 3 * (g - 1) + j \in 1 .. N
                 /\ f[3 * (g - 1) + j] = Group(nacks, 2 * g - 1)[j]
      <4>1. s[g] = Group(nacks, 2 * g - 1)
        BY DEF Groups
      <4>3. j <= Len(s[g])
        <5> HIDE DEF s
        <5>1. QED BY <3>5, <4>1
      <4> HIDE DEF G, s, N, f
      <4>a. G \in Nat \ {0} /\ InThrees(s, G) /\ g \in 1 .. G
        BY <3>1
      <4>4. /\ 3 * (g - 1) + j \in 1 .. 3 * (G - 1) + Len(s[G])
            /\ Joint(s, G)[3 * (g - 1) + j] = s[g][j]
        <5>1. AllPlaced(s, G)
          BY <4>a, JointAt
        <5>2. QED BY <5>1, <4>3 DEF AllPlaced
      <4>5. QED
        BY <4>4, <4>1, <3>1, <3>3
    <3>6. QED
      BY <3>2, <3>4, <3>5
  <2>3. QED
    BY <2>1, <2>2
<1>4. o = [k \in 1 .. 2 + N |-> IF k <= 2 THEN <<p, q>>[k] ELSE f[k - 2]]
  <2> HIDE DEF p, q, f, N, o
  <2> DEFINE a == <<p, q>>
  <2>1. a = [k \in 1 .. 2 |-> a[k]]
    OBVIOUS
  <2> HIDE DEF a
  <2>2. a \o f = [k \in 1 .. 2 + N |-> IF k <= 2 THEN a[k] ELSE f[k - 2]]
    BY <1>3, <2>1, Concatenated
  <2>3. QED
    BY <1>2, <2>2 DEF a
<1>5. o = [k \in 1 .. 2 + N |-> o[k]] /\ o[1] = p /\ o[2] = q
  <2> HIDE DEF p, q, f, N, o
  <2>1. o = [k \in 1 .. 2 + N |-> o[k]]
    BY <1>4
  <2>2. 1 \in 1 .. 2 + N /\ 2 \in 1 .. 2 + N
    BY <1>3
  <2>3. QED BY <2>1, <2>2, <1>4
<1>6. ASSUME NEW g \in 1 .. G, NEW j \in 1 .. 3, j <= Len(Group(nacks, 2 * g - 1))
      PROVE  o[3 * (g - 1) + j + 2] = Group(nacks, 2 * g - 1)[j]
  <2> DEFINE m == 3 * (g - 1) + j
  <2>1. m \in 1 .. N /\ f[m] = Group(nacks, 2 * g - 1)[j]
    BY <1>3, <1>6
  <2> HIDE DEF p, q, f, N, o, m
  <2>2. m + 2 \in 1 .. 2 + N /\ ~ (m + 2 <= 2) /\ (m + 2) - 2 = m
    BY <2>1, <1>3
  <2>3. o[m + 2] = f[m]
    BY <2>2, <1>4
  <2>4. QED
    BY <2>1, <2>3 DEF m
<1>7. Written(o, ack, nacks)
  <2> HIDE DEF o
  <2>1. QED
    BY <1>5, <1>6 DEF Written
<1>8. QED
  BY <1>7

(*************************************************************************)
(* Reading them.                                                         *)
(*************************************************************************)

\* The NACKs x, y and z of a pair and the next, the n-th of which is the last, in
\* three octets from b on; x is the i-th.
PairAt(o, b, i, n, x, y, z) ==
    /\ o[b + 1] = (x \div 2) % 256
    /\ o[b + 2] = IF i = n THEN (x * 128) % 256
                           ELSE ((x * 128) % 256) + 64 + ((y \div 32) % 32)
    /\ i # n => o[b + 3] = IF i + 1 = n THEN (y * 8) % 256
                                        ELSE ((y * 8) % 256) + 4 + ((z \div 512) % 2)

\* Where the pairs are.
LEMMA PairsWritten ==
    ASSUME Modulus <= 1024, NEW nacks \in Seq(SN), NEW ack, NEW o, Written(o, ack, nacks),
           NEW g \in Nat \ {0}, 2 * g - 1 <= Len(nacks)
    PROVE  PairAt(o, 3 * (g - 1) + 2, 2 * g - 1, Len(nacks),
                  nacks[2 * g - 1], nacks[2 * g], nacks[2 * g + 1])
<1> DEFINE n == Len(nacks)
           i == 2 * g - 1
           e == Group(nacks, i)
<1>1. n \in Nat /\ i \in 1 .. n /\ g \in 1 .. (n + 1) \div 2 /\ i + 1 = 2 * g /\ i + 2 = 2 * g + 1
  <2>1. n \in Nat
    OBVIOUS
  <2> HIDE DEF n
  <2>2. 2 * g - 1 <= n BY DEF n
  <2>3. QED BY <2>1, <2>2
<1> HIDE DEF i
<1>2. /\ e[1] = (nacks[i] \div 2) % 256
      /\ e[2] = IF i = n THEN (nacks[i] * 128) % 256
                ELSE ((nacks[i] * 128) % 256) + 64 + ((nacks[i + 1] \div 32) % 32)
      /\ i # n => e[3] = IF i + 1 = n THEN (nacks[i + 1] * 8) % 256
                ELSE ((nacks[i + 1] * 8) % 256) + 4 + ((nacks[i + 2] \div 512) % 2)
      /\ Len(e) = IF i = n THEN 2 ELSE 3
  BY <1>1, GroupOctets
<1>3. \A j \in 1 .. 3 : j <= Len(e) => o[3 * (g - 1) + j + 2] = e[j]
  <2>1. \A h \in 1 .. (n + 1) \div 2 : \A j \in 1 .. 3 :
           j <= Len(Group(nacks, 2 * h - 1)) =>
              o[3 * (h - 1) + j + 2] = Group(nacks, 2 * h - 1)[j]
    BY Zenon DEF Written
  <2> HIDE DEF n
  <2>2. \A j \in 1 .. 3 : j <= Len(Group(nacks, 2 * g - 1)) =>
              o[3 * (g - 1) + j + 2] = Group(nacks, 2 * g - 1)[j]
    BY ONLY <1>1, <2>1, Zenon
  <2>3. QED
    BY <2>2 DEF i
<1> DEFINE b == 3 * (g - 1) + 2
<1>4. /\ 3 * (g - 1) + 1 + 2 = b + 1 /\ 3 * (g - 1) + 2 + 2 = b + 2
      /\ 3 * (g - 1) + 3 + 2 = b + 3
  OBVIOUS
<1> HIDE DEF b, e, n
<1>5. o[b + 1] = e[1] /\ o[b + 2] = e[2] /\ (i # n => o[b + 3] = e[3])
  <2>1. 1 <= Len(e) /\ 2 <= Len(e) /\ (i # n => 3 <= Len(e))
    BY <1>2
  <2>2. 1 \in 1 .. 3 /\ 2 \in 1 .. 3 /\ 3 \in 1 .. 3
    OBVIOUS
  <2>3. o[3 * (g - 1) + 1 + 2] = e[1] /\ o[3 * (g - 1) + 2 + 2] = e[2]
    BY <1>3, <2>1, <2>2
  <2>4. i # n => o[3 * (g - 1) + 3 + 2] = e[3]
    BY <1>3, <2>1, <2>2
  <2>5. QED
    BY <1>4, <2>3, <2>4
<1>6. PairAt(o, b, i, n, nacks[i], nacks[i + 1], nacks[i + 2])
  BY <1>2, <1>5 DEF PairAt
<1>7. QED
  BY <1>1, <1>6 DEF b, i, n

\* Those that exist have ten bits.
AreNacks(i, n, x, y, z) ==
    /\ i \in Nat /\ n \in Nat /\ i <= n /\ x \in 0 .. 1023
    /\ i # n => y \in 0 .. 1023
    /\ i # n /\ i + 1 # n => z \in 0 .. 1023

\* What is read there.
IsRead(o, b, i, n, x, y, z) ==
    /\ ((x \div 512) % 2) * 512 + o[b + 1] * 2 + (o[b + 2] \div 128) = x
    /\ ((o[b + 2] \div 64) % 2 = 1) <=> (i # n)
    /\ i # n => /\ (o[b + 2] % 32) * 32 + (o[b + 3] \div 8) = y
                /\ ((o[b + 3] \div 4) % 2 = 1) <=> (i + 1 # n)
                /\ i + 1 # n => o[b + 3] % 2 = (z \div 512) % 2

\* A pair is read back.
LEMMA PairRead ==
    ASSUME NEW o, NEW b, NEW i, NEW n, NEW x, NEW y, NEW z,
           AreNacks(i, n, x, y, z), PairAt(o, b, i, n, x, y, z)
    PROVE  IsRead(o, b, i, n, x, y, z)
<1>0. /\ i \in Nat /\ n \in Nat /\ i <= n /\ x \in 0 .. 1023
      /\ i # n => y \in 0 .. 1023
      /\ i # n /\ i + 1 # n => z \in 0 .. 1023
  BY DEF AreNacks
<1> DEFINE p == o[b + 1]
           q == o[b + 2]
           r == o[b + 3]
<1>1. /\ p = (x \div 2) % 256
      /\ q = IF i = n THEN (x * 128) % 256 ELSE ((x * 128) % 256) + 64 + ((y \div 32) % 32)
      /\ i # n => r = IF i + 1 = n THEN (y * 8) % 256
                      ELSE ((y * 8) % 256) + 4 + ((z \div 512) % 2)
  BY DEF PairAt
<1> HIDE DEF p, q, r
<1>2. x \in Nat
  BY <1>0
<1>3. q \div 128 = x % 2 /\ ((q \div 64) % 2 = 1 <=> i # n)
  <2>1. CASE i = n
    <3>1. q = (x * 128) % 256
      BY <1>1, <2>1
    <3>2. q \div 128 = x % 2 /\ (q \div 64) % 2 = 0
      BY ONLY <1>2, <3>1, LowestBit
    <3>3. QED
      BY <2>1, <3>2
  <2>2. CASE i # n
    <3> DEFINE s == (y \div 32) % 32
    <3>1. s \in 0 .. 31
      <4>1. y \in 0 .. 1023 BY <1>0, <2>2
      <4>2. QED BY ONLY <4>1, PartsAreInts
    <3>2. q = ((x * 128) % 256) + 64 + s
      BY <1>1, <2>2
    <3> HIDE DEF s
    <3>3. q \div 128 = x % 2 /\ (q \div 64) % 2 = 1
      <4>1. x \in Nat
        BY <1>2
      <4>2. QED
        <5>1. q \div 128 = x % 2
          BY ONLY <4>1, <3>1, <3>2, LowestBitMore
        <5>2. (q \div 64) % 2 = 1
          <6> DEFINE w == (x * 128) % 256
          <6>1. w = 0 \/ w = 128
            BY ONLY <4>1
          <6> HIDE DEF w
          <6>2. q = w + 64 + s
            BY <3>2 DEF w
          <6>3. QED
            BY ONLY <3>1, <6>1, <6>2
        <5>3. QED
          BY <5>1, <5>2
    <3>4. QED
      BY <2>2, <3>3
  <2>3. QED
    BY <2>1, <2>2
<1>4. ((x \div 512) % 2) * 512 + p * 2 + (q \div 128) = x
  <2>1. x = ((x \div 512) % 2) * 512 + ((x \div 2) % 256) * 2 + (x % 2)
    BY <1>0, OddBits
  <2>2. QED
    BY <2>1, <1>1, <1>3
<1>5. ASSUME i # n
      PROVE  /\ (q % 32) * 32 + (r \div 8) = y
             /\ ((r \div 4) % 2 = 1) <=> (i + 1 # n)
             /\ i + 1 # n => r % 2 = (z \div 512) % 2
  <2>0. y \in 0 .. 1023 /\ y \in Nat /\ 0 \in 0 .. 1
    BY <1>0, <1>5
  <2>1. q % 32 = (y \div 32) % 32
    <3> DEFINE s == (y \div 32) % 32
    <3>1. s \in 0 .. 31
      BY ONLY <2>0, PartsAreInts
    <3>2. q = ((x * 128) % 256) + 64 + s
      BY <1>1, <1>5
    <3> HIDE DEF s
    <3>3. q % 32 = s
      BY ONLY <1>2, <3>1, <3>2, LowestBitMore
    <3>4. QED
      BY <3>3 DEF s
  <2>2. /\ r \div 8 = y % 32 /\ ((r \div 4) % 2 = 1 <=> i + 1 # n)
        /\ i + 1 # n => r % 2 = (z \div 512) % 2
    <3>1. CASE i + 1 = n
      <4>1. ((y * 8) % 256) \div 8 = y % 32 /\ (((y * 8) % 256) \div 4) % 2 = 0
        BY ONLY <2>0, LowFive
      <4>2. r = (y * 8) % 256
        BY <1>1, <1>5, <3>1
      <4>3. QED
        BY <3>1, <4>1, <4>2
    <3>2. CASE i + 1 # n
      <4> DEFINE s == (z \div 512) % 2
      <4>1. s \in 0 .. 1
        <5>1. z \in 0 .. 1023 BY <1>0, <3>2, <1>5
        <5>2. QED BY ONLY <5>1, PartsAreInts
      <4>2. r = ((y * 8) % 256) + 4 + s
        BY <1>1, <1>5, <3>2
      <4> HIDE DEF s
      <4>3. /\ (((y * 8) % 256) + 4 + s) \div 8 = y % 32
            /\ ((((y * 8) % 256) + 4 + s) \div 4) % 2 = 1
            /\ (((y * 8) % 256) + 4 + s) % 2 = s
        BY ONLY <2>0, <4>1, LowFive
      <4>4. QED
        BY <3>2, <4>2, <4>3 DEF s
    <3>3. QED
      BY <3>1, <3>2
  <2>3. y = ((y \div 32) % 32) * 32 + (y % 32)
    BY ONLY <2>0, EvenBits
  <2>4. QED
    BY <2>1, <2>2, <2>3
<1>6. QED
  BY <1>3, <1>4, <1>5 DEF IsRead, p, q, r

\* The NACKs of the g-th pair, whose first is the i-th NACK.
LEMMA PairIsRead ==
    ASSUME Modulus <= 1024, NEW nacks \in Seq(SN), NEW ack, NEW o, Written(o, ack, nacks),
           NEW g \in Nat \ {0}, NEW i, i = 2 * g - 1, i <= Len(nacks)
    PROVE  IsRead(o, 3 * (g - 1) + 2, i, Len(nacks), nacks[i], nacks[i + 1], nacks[i + 2])
<1> DEFINE n == Len(nacks)
           x == nacks[i]
           y == nacks[i + 1]
           z == nacks[i + 2]
           b == 3 * (g - 1) + 2
<1>1. /\ i \in Nat /\ n \in Nat /\ i <= n /\ i \in 1 .. n
      /\ i # n => i + 1 \in 1 .. n
      /\ i # n /\ i + 1 # n => i + 2 \in 1 .. n
  <2>1. n \in Nat
    OBVIOUS
  <2>2. i \in Nat /\ 1 <= i /\ i <= n
    OBVIOUS
  <2> HIDE DEF n
  <2>3. QED BY <2>1, <2>2
<1>2. \A k \in 1 .. n : nacks[k] \in 0 .. 1023
  BY TenBitNacks
<1>3. x \in 0 .. 1023 /\ (i # n => y \in 0 .. 1023) /\ (i # n /\ i + 1 # n => z \in 0 .. 1023)
  <2> HIDE DEF n
  <2>1. QED BY <1>1, <1>2
<1>4. PairAt(o, b, i, n, x, y, z)
  <2>1. /\ 2 * g - 1 = i /\ 2 * g = i + 1 /\ 2 * g + 1 = i + 2
        /\ 2 * g - 1 <= Len(nacks)
    OBVIOUS
  <2>2. PairAt(o, 3 * (g - 1) + 2, 2 * g - 1, Len(nacks),
               nacks[2 * g - 1], nacks[2 * g], nacks[2 * g + 1])
    BY <2>1, PairsWritten
  <2>3. QED
    BY <2>1, <2>2
<1> HIDE DEF n, x, y, z, b
<1>5. IsRead(o, b, i, n, x, y, z)
  <2>1. AreNacks(i, n, x, y, z)
    BY <1>1, <1>3 DEF AreNacks
  <2>2. QED
    BY <2>1, <1>4, PairRead
<1>6. QED
  BY <1>5 DEF n, x, y, z, b

\* The ACK, whether a NACK follows it, and the highest bit of that.
LEMMA AckIsRead ==
    ASSUME Modulus <= 1024, NEW nacks \in Seq(SN), NEW ack \in SN, NEW o, Written(o, ack, nacks)
    PROVE  /\ (o[1] % 16) * 64 + (o[2] \div 4) = ack
           /\ ((o[2] \div 2) % 2 = 1) <=> (Len(nacks) # 0)
           /\ Len(nacks) # 0 => o[2] % 2 = (nacks[1] \div 512) % 2
<1> DEFINE n == Len(nacks)
           p == o[1]
           q == o[2]
           s == (nacks[1] \div 512) % 2
           w == (ack * 4) % 256
<1>1. p = (ack \div 64) % 16 /\ q = IF n = 0 THEN w ELSE w + 2 + s
  BY DEF Written
<1>0. SN \subseteq 0 .. 1023
  <2>1. Modulus <= 1024
    OBVIOUS
  <2>2. QED
    BY ONLY <2>1, SequenceNumberAssumption DEF SN
<1>2. ack \in 0 .. 1023 /\ ack \in Nat
  <2>1. ack \in 0 .. 1023
    BY <1>0
  <2>2. QED BY <2>1
<1>3. n # 0 => s \in 0 .. 1
  <2>1. SUFFICES ASSUME n # 0 PROVE s \in 0 .. 1
    OBVIOUS
  <2> DEFINE x == nacks[1]
  <2>2. x \in SN
    BY <2>1
  <2> HIDE DEF x
  <2>3. x \in 0 .. 1023
    BY ONLY <2>2, <1>0
  <2>4. (x \div 512) % 2 \in 0 .. 1
    BY ONLY <2>3, PartsAreInts
  <2>5. QED BY <2>4 DEF x
<1> HIDE DEF n, p, q, s
<1>4. w = 4 * (ack % 64) /\ (ack % 64) \in 0 .. 63
  BY <1>2
<1>5. ack = ((ack \div 64) % 16) * 64 + (ack % 64) /\ ((ack \div 64) % 16) % 16 = (ack \div 64) % 16
  BY <1>2
<1> DEFINE c == ack % 64
           d == (ack \div 64) % 16
<1> HIDE DEF w, c, d
<1>6. w = 4 * c /\ c \in 0 .. 63 /\ ack = d * 64 + c /\ d % 16 = d /\ p = d
  BY <1>1, <1>4, <1>5 DEF c, d
<1>7. q \div 4 = c /\ ((q \div 2) % 2 = 1 <=> n # 0) /\ (n # 0 => q % 2 = s)
  <2>1. CASE n = 0
    BY <2>1, <1>1, <1>6
  <2>2. CASE n # 0
    <3>1. q = 4 * c + 2 + s /\ s \in 0 .. 1
      BY <2>2, <1>1, <1>3, <1>6
    <3>2. QED
      BY <2>2, <3>1, <1>6
  <2>3. QED BY <2>1, <2>2
<1>8. QED
  BY <1>6, <1>7 DEF n, p, q, s

\* The highest bit of the first NACK of the g-th pair is in the octet before.
LEMMA HighestBit ==
    ASSUME Modulus <= 1024, NEW nacks \in Seq(SN), NEW ack \in SN, NEW o, Written(o, ack, nacks),
           NEW g \in Nat \ {0}, NEW i, i = 2 * g - 1, i <= Len(nacks)
    PROVE  o[3 * (g - 1) + 2] % 2 = (nacks[i] \div 512) % 2
<1>0. Len(nacks) \in Nat
  OBVIOUS
<1>1. CASE g = 1
  <2>1. i = 1 /\ 3 * (g - 1) + 2 = 2 /\ Len(nacks) # 0
    BY <1>0, <1>1
  <2>2. o[2] % 2 = (nacks[1] \div 512) % 2
    BY <2>1, AckIsRead
  <2>3. QED BY <2>1, <2>2
<1>2. CASE g # 1
  <2> DEFINE h == g - 1
             j == i - 2
             b == 3 * (h - 1) + 2
  <2>1. /\ h \in Nat \ {0} /\ j = 2 * h - 1 /\ j <= Len(nacks)
        /\ j # Len(nacks) /\ j + 1 # Len(nacks) /\ j + 2 = i /\ b + 3 = 3 * (g - 1) + 2
    BY <1>0, <1>2
  <2> HIDE DEF h, j, b
  <2>2. IsRead(o, b, j, Len(nacks), nacks[j], nacks[j + 1], nacks[j + 2])
    BY <2>1, PairIsRead DEF b
  <2>3. o[b + 3] % 2 = (nacks[j + 2] \div 512) % 2
    BY <2>1, <2>2 DEF IsRead
  <2>4. QED BY <2>1, <2>3
<1>3. QED BY <1>1, <1>2

\* The peer reads what was written.
LEMMA ReadsNacks ==
    ASSUME Modulus <= 1024, NEW nacks \in Seq(SN), NEW ack \in SN, NEW o, Written(o, ack, nacks),
           NEW k \in 1 .. Len(nacks)
    PROVE  ReadNack(o, k) = nacks[k] /\ (MoreNacks(o, k) <=> k # Len(nacks))
<1> DEFINE n == Len(nacks)
<1>0. n \in Nat /\ k \in Nat /\ 1 <= k /\ k <= n
  OBVIOUS
<1> HIDE DEF n
<1>1. CASE k % 2 = 1
  <2>1. PICK g \in Nat \ {0} : k = 2 * g - 1 /\ (k - 1) \div 2 = g - 1
    <3>1. (k + 1) \div 2 \in Nat \ {0} /\ k = 2 * ((k + 1) \div 2) - 1
          /\ (k - 1) \div 2 = ((k + 1) \div 2) - 1
      BY <1>0, <1>1
    <3>2. QED BY <3>1
  <2> DEFINE b == 3 * (g - 1) + 2
             x == nacks[k]
  <2>2. From(k) = b
    BY <2>1, <1>1 DEF From
  <2>3. k <= Len(nacks)
    BY <1>0 DEF n
  <2>4. /\ ((x \div 512) % 2) * 512 + o[b + 1] * 2 + (o[b + 2] \div 128) = x
        /\ ((o[b + 2] \div 64) % 2 = 1) <=> (k # n)
    <3>1. IsRead(o, b, k, Len(nacks), x, nacks[k + 1], nacks[k + 2])
      BY <2>1, <2>3, PairIsRead
    <3>2. QED
      BY <3>1 DEF IsRead, n
  <2>5. o[b] % 2 = (x \div 512) % 2
    BY <2>1, <2>3, HighestBit
  <2>6. ReadNack(o, k) = (o[b] % 2) * 512 + o[b + 1] * 2 + (o[b + 2] \div 128)
    <3> HIDE DEF b
    <3>1. Right(o[b + 2], 7) = o[b + 2] \div 128
      BY Shifts
    <3>2. QED
      BY <1>1, <2>2, <3>1 DEF ReadNack
  <2>7. MoreNacks(o, k) <=> (o[b + 2] \div 64) % 2 = 1
    <3> HIDE DEF b
    <3>1. Right(o[b + 2], 6) = o[b + 2] \div 64
      BY Shifts
    <3>2. k # 0
      BY <1>0
    <3>3. QED
      BY <1>1, <2>2, <3>1, <3>2 DEF MoreNacks
  <2>8. QED
    BY <2>4, <2>5, <2>6, <2>7 DEF n
<1>2. CASE k % 2 # 1
  <2>1. PICK g \in Nat \ {0} : k = 2 * g /\ (k - 1) \div 2 = g - 1
    <3>1. k \div 2 \in Nat \ {0} /\ k = 2 * (k \div 2) /\ (k - 1) \div 2 = (k \div 2) - 1
      BY <1>0, <1>2
    <3>2. QED BY <3>1
  <2> DEFINE b == 3 * (g - 1) + 2
             i == 2 * g - 1
  <2>2. From(k) = b + 2 /\ From(k) + 1 = b + 3
    BY <2>1, <1>2 DEF From
  <2>3. i <= Len(nacks) /\ i # Len(nacks) /\ i + 1 = k
    BY <1>0, <2>1 DEF n
  <2>4. /\ (o[b + 2] % 32) * 32 + (o[b + 3] \div 8) = nacks[k]
        /\ ((o[b + 3] \div 4) % 2 = 1) <=> (k # n)
    <3> HIDE DEF i
    <3>1. i = 2 * g - 1 BY DEF i
    <3>2. IsRead(o, b, i, Len(nacks), nacks[i], nacks[i + 1], nacks[i + 2])
      BY <2>3, <3>1, PairIsRead
    <3> HIDE DEF b
    <3>3. QED
      BY <2>3, <3>2 DEF IsRead, n
  <2>5. ReadNack(o, k) = (o[b + 2] % 32) * 32 + (o[b + 3] \div 8)
    <3> HIDE DEF b
    <3>1. Right(o[b + 3], 3) = o[b + 3] \div 8
      BY Shifts
    <3>2. QED
      BY <1>2, <2>2, <3>1 DEF ReadNack
  <2>6. MoreNacks(o, k) <=> (o[b + 3] \div 4) % 2 = 1
    <3> HIDE DEF b
    <3>1. Right(o[b + 3], 2) = o[b + 3] \div 4
      BY Shifts
    <3>2. k # 0
      BY <1>0
    <3>3. QED
      BY <1>2, <2>2, <3>1, <3>2 DEF MoreNacks
  <2>7. QED
    BY <2>4, <2>5, <2>6 DEF n
<1>3. QED BY <1>1, <1>2

\* The peer counts the NACKs by the bit after each.
LEMMA CountsNacks ==
    ASSUME Modulus <= 1024, NEW nacks \in Seq(SN), NEW ack \in SN, NEW o, Written(o, ack, nacks)
    PROVE  NackCount(o) = Len(nacks)
<1> DEFINE n == Len(nacks)
           Ends(m) == ~ MoreNacks(o, m) /\ \A k \in 0 .. m - 1 : MoreNacks(o, k)
<1>1. n \in Nat
  OBVIOUS
<1>2. Len(o) \in Nat /\ n <= Len(o)
  <2>1. o = [k \in 1 .. 2 + NackOctets(n) |-> o[k]]
    BY DEF Written
  <2>2. NackOctets(n) \in Nat /\ n <= 2 + NackOctets(n)
    <3> HIDE DEF n
    <3>1. QED BY <1>1 DEF NackOctets
  <2> DEFINE N == 2 + NackOctets(n)
  <2>3. N \in Nat /\ n <= N
    <3> HIDE DEF n
    <3>1. QED BY <1>1, <2>2
  <2> HIDE DEF N
  <2>4. o = [k \in 1 .. N |-> o[k]]
    BY <2>1 DEF N
  <2>5. Len(o) = N
    BY <2>3, <2>4
  <2>6. QED BY <2>3, <2>5
<1>3. \A k \in 0 .. n : MoreNacks(o, k) <=> k # n
  <2>1. MoreNacks(o, 0) <=> n # 0
    <3>1. Right(o[2], 1) = o[2] \div 2
      BY Shifts
    <3>2. MoreNacks(o, 0) <=> (o[2] \div 2) % 2 = 1
      BY <3>1 DEF MoreNacks
    <3>3. QED BY <3>2, AckIsRead
  <2>2. \A k \in 1 .. Len(nacks) : MoreNacks(o, k) <=> k # Len(nacks)
    BY ReadsNacks
  <2>3. \A k \in 0 .. n : k = 0 \/ k \in 1 .. Len(nacks)
    OBVIOUS
  <2>4. QED
    BY <2>1, <2>2, <2>3
<1> HIDE DEF n
<1>4. n \in 0 .. Len(o) /\ Ends(n)
  BY <1>1, <1>2, <1>3
<1>5. ASSUME NEW m \in 0 .. Len(o), Ends(m) PROVE m = n
  <2>1. CASE m < n
    <3>1. m \in 0 .. n /\ m # n
      BY <1>1, <1>2, <2>1
    <3>2. QED BY <3>1, <1>3, <1>5
  <2>2. CASE n < m
    <3>1. n \in 0 .. m - 1 /\ n \in 0 .. n
      BY <1>1, <1>2, <2>2
    <3>2. QED BY <3>1, <1>3, <1>5
  <2>3. QED BY <1>1, <1>2, <2>1, <2>2
<1>6. NackCount(o) = CHOOSE m \in 0 .. Len(o) : Ends(m)
  BY DEF NackCount
<1> HIDE DEF Ends
<1>7. QED
  BY <1>4, <1>5, <1>6 DEF n

\* Reading is the inverse of writing.
LEMMA DeserializeSerialize ==
    ASSUME Modulus <= 1024, NEW ack \in SN, NEW nacks \in Seq(SN)
    PROVE  /\ Deserialize(Serialize(ack, nacks)) = [ack |-> ack, nacks |-> nacks]
           /\ Len(Serialize(ack, nacks)) = 2 + NackOctets(Len(nacks))
<1> DEFINE o == Serialize(ack, nacks)
           n == Len(nacks)
<1>1. Written(o, ack, nacks)
  BY SerializeWrites
<1>2. NackCount(o) = n
  <2> HIDE DEF o
  <2>1. QED BY <1>1, CountsNacks
<1>3. [k \in 1 .. n |-> ReadNack(o, k)] = nacks
  <2> HIDE DEF o
  <2>1. \A k \in 1 .. n : ReadNack(o, k) = nacks[k]
    BY <1>1, ReadsNacks
  <2>2. nacks = [k \in 1 .. n |-> nacks[k]]
    OBVIOUS
  <2> HIDE DEF n
  <2>3. QED BY <2>1, <2>2
<1>4. (o[1] % 16) * 64 + Right(o[2], 2) = ack
  <2> HIDE DEF o
  <2>1. Right(o[2], 2) = o[2] \div 4
    BY Shifts
  <2>2. QED BY <1>1, <2>1, AckIsRead
<1>5. Len(o) = 2 + NackOctets(n)
  <2> HIDE DEF o
  <2> DEFINE N == 2 + NackOctets(n)
  <2>1. N \in Nat
    <3>1. n \in Nat OBVIOUS
    <3> HIDE DEF n
    <3>2. QED BY <3>1 DEF NackOctets
  <2>2. o = [k \in 1 .. N |-> o[k]]
    BY <1>1 DEF Written
  <2> HIDE DEF N
  <2>3. Len(o) = N BY <2>1, <2>2
  <2>4. QED BY <2>3 DEF N
<1>6. Deserialize(o) = [ack |-> ack, nacks |-> nacks]
  <2> HIDE DEF o, n
  <2>1. QED BY <1>2, <1>3, <1>4 DEF Deserialize
<1>7. QED
  BY <1>5, <1>6

(*************************************************************************)
(* The construction of a STATUS PDU.                                     *)
(*************************************************************************)

\* The types, the length as PushNack keeps it, and what was written.
HeaderInv ==
    /\ bytes \in Nat /\ bytes >= 4
    /\ vrR \in SN /\ m_ackSn \in SN /\ m_nackSnList \in Seq(SN)
    /\ m_headerLength = 2 + NackOctets(Len(m_nackSnList))
    /\ m_headerLength <= bytes + IF bytes % 3 = 0 THEN 1 ELSE 0
    /\ octets # <<>> => octets = Serialize(m_ackSn, m_nackSnList)

\* No NACK, and room for the ACK.
LEMMA HeaderInit == Init => HeaderInv
<1> SUFFICES ASSUME Init PROVE HeaderInv
  OBVIOUS
<1>1. /\ bytes \in Nat /\ bytes >= 4 /\ vrR \in SN /\ m_ackSn \in SN
      /\ m_nackSnList = <<>> /\ m_headerLength = 2 /\ octets = <<>>
  BY HeaderAssumption DEF Init
<1>2. m_nackSnList \in Seq(SN) /\ Len(m_nackSnList) = 0
  BY <1>1
<1>3. NackOctets(0) = 0
  BY DEF NackOctets
<1>4. m_headerLength <= bytes + IF bytes % 3 = 0 THEN 1 ELSE 0
  BY <1>1
<1>5. QED
  BY <1>1, <1>2, <1>3, <1>4 DEF HeaderInv

\* The first NACK of a pair takes two octets and may exceed the opportunity by one,
\* when the pairs before it and the ACK leave one octet of it.
LEMMA HeaderPush == HeaderInv /\ (\E sn \in SomeSNs : PushNack(sn)) => HeaderInv'
<1> SUFFICES ASSUME HeaderInv, NEW sn \in SomeSNs, PushNack(sn) PROVE HeaderInv'
  OBVIOUS
<1> DEFINE n == Len(m_nackSnList)
<1>1. /\ bytes \in Nat /\ bytes >= 4 /\ vrR \in SN /\ m_nackSnList \in Seq(SN)
      /\ m_headerLength = 2 + NackOctets(n)
      /\ m_headerLength <= bytes + IF bytes % 3 = 0 THEN 1 ELSE 0
  BY DEF HeaderInv
<1>2. sn \in SN /\ Inc(sn) \in SN
  BY HeaderAssumption, IncDecType
<1>3. /\ octets' = <<>> /\ bytes' = bytes /\ vrR' = vrR /\ m_ackSn' = Inc(sn)
      /\ m_nackSnList' = Append(m_nackSnList, sn)
      /\ m_headerLength' = m_headerLength + Growth(n + 1)
      /\ OneMoreNackWouldFitIn
  BY DEF PushNack
<1>4. n \in Nat /\ m_nackSnList' \in Seq(SN) /\ Len(m_nackSnList') = n + 1
  BY <1>1, <1>2, <1>3
<1>5. IF n % 2 = 0 THEN m_headerLength < bytes ELSE m_headerLength < bytes - 1
  BY <1>3 DEF OneMoreNackWouldFitIn
<1> HIDE DEF n
<1>6. NackOctets(n + 1) = NackOctets(n) + Growth(n + 1) /\ NackOctets(n) \in Nat
  BY <1>4 DEF NackOctets, Growth
<1>7. m_headerLength' = 2 + NackOctets(n + 1)
  <2>1. Growth(n + 1) \in Nat
    BY DEF Growth
  <2>2. QED BY <1>1, <1>3, <1>6, <2>1
<1>8. m_headerLength' <= bytes + IF bytes % 3 = 0 THEN 1 ELSE 0
  <2>1. CASE n % 2 = 0
    <3>1. PICK m \in Nat : n = 2 * m
      <4>1. n = 2 * (n \div 2) /\ n \div 2 \in Nat
        BY <1>4, <2>1
      <4>2. QED BY <4>1
    <3>2. m_headerLength = 2 + 3 * m
      <4>1. (2 * m + 1) \div 2 = m
        OBVIOUS
      <4>2. QED BY <1>1, <3>1, <4>1 DEF NackOctets
    <3>3. m_headerLength' = m_headerLength + 2
      <4>1. Growth(n + 1) = 2
        BY <1>4, <2>1 DEF Growth
      <4>2. QED BY <1>3, <4>1
    <3>4. m_headerLength < bytes
      BY <1>5, <2>1
    <3>5. CASE bytes = 3 + 3 * m
      <4>1. bytes % 3 = 0
        BY <3>5
      <4>2. QED BY <3>2, <3>3, <3>5, <4>1
    <3>6. CASE bytes # 3 + 3 * m
      <4>1. m_headerLength' <= bytes
        BY <1>1, <3>2, <3>3, <3>4, <3>6
      <4>2. QED BY <4>1, <1>1, <3>2, <3>3
    <3>7. QED BY <3>5, <3>6
  <2>2. CASE n % 2 # 0
    <3>1. m_headerLength < bytes - 1 /\ m_headerLength \in Nat
      BY <1>1, <1>5, <1>6, <2>2
    <3>2. Growth(n + 1) = 1
      BY <1>4, <2>2 DEF Growth
    <3>3. m_headerLength' <= bytes /\ m_headerLength' \in Nat
      BY <1>1, <1>3, <3>1, <3>2
    <3>4. QED BY <1>1, <3>3
  <2>3. QED BY <2>1, <2>2
<1>9. QED
  BY <1>1, <1>2, <1>3, <1>4, <1>7, <1>8 DEF HeaderInv

\* The STATUS PDU is made, with the NACKs there are.
LEMMA HeaderTransmit ==
    HeaderInv /\ (\E ack \in SomeSNs \cup {m_ackSn} : Transmit(ack)) => HeaderInv'
<1> SUFFICES ASSUME HeaderInv, NEW ack \in SomeSNs \cup {m_ackSn}, Transmit(ack)
             PROVE  HeaderInv'
  OBVIOUS
<1>1. ack \in SN
  BY HeaderAssumption DEF HeaderInv
<1>2. QED
  BY <1>1 DEF HeaderInv, Transmit

\* The invariant holds.
LEMMA HeaderInvHolds == Spec => []HeaderInv
<1>1. HeaderInv /\ UNCHANGED vars => HeaderInv'
  BY DEF HeaderInv, vars
<1>2. HeaderInv /\ [Next]_vars => HeaderInv'
  BY <1>1, HeaderPush, HeaderTransmit DEF Next
<1>3. QED
  BY <1>2, HeaderInit, PTL DEF Spec

\* What the operators of SequenceNumber10 compute, negative dividends, unsigned
\* conversion and wraps included, is what the models of RLC take them to compute.
THEOREM OperatorsAgreeAlways == Spec => []OperatorsAgree
<1>1. HeaderInv => OperatorsAgree
  BY GreaterIsRel, StepsAgree, AddedIsPlus DEF HeaderInv, OperatorsAgree
<1>2. QED
  BY <1>1, HeaderInvHolds, PTL

\* Setting the modulus base further up, past neither of two SNs, leaves operator >
\* between them as it was: the loops of LteRlcAm that call SetModulusBase at every
\* turn do not change what they compare.
THEOREM OrderSurvivesRebase == Spec => []RebaseKeepsOrder
<1>1. HeaderInv => RebaseKeepsOrder
  BY RebaseKept, HeaderAssumption DEF HeaderInv, RebaseKeepsOrder
<1>2. QED
  BY <1>1, HeaderInvHolds, PTL

\* However many NACKs go into a STATUS PDU and wherever its octets split them, the
\* peer reads the ACK and the NACKs that Serialize wrote, and no others.
THEOREM StatusIsReadBack ==
    ASSUME Modulus <= 1024
    PROVE  Spec => []RoundTrip
<1>1. HeaderInv => RoundTrip
  BY DeserializeSerialize DEF HeaderInv, RoundTrip
<1>2. QED
  BY <1>1, HeaderInvHolds, PTL

\* For every opportunity, a STATUS PDU is as long as PushNack has counted, and the
\* length that OneMoreNackWouldFitIn lets pass exceeds the opportunity by an octet
\* at most, and only when the opportunity is a multiple of three octets.
THEOREM StatusOverrunsByOne ==
    ASSUME Modulus <= 1024
    PROVE  Spec => []OverrunIsOneOctet
<1>1. HeaderInv => OverrunIsOneOctet
  BY DeserializeSerialize DEF HeaderInv, OverrunIsOneOctet
<1>2. QED
  BY <1>1, HeaderInvHolds, PTL

=============================================================================
