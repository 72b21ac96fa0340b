----------------------- MODULE SequenceNumber10Proofs -----------------------
(***************************************************************************)
(* Arithmetic of sequence numbers, for every Modulus and WindowSize.       *)
(***************************************************************************)
EXTENDS SequenceNumber10, WellFoundedInduction, TLAPS

\* A distance is a number of SNs, and Plus undoes it.
LEMMA RelType ==
    ASSUME NEW v \in SN, NEW b \in SN
    PROVE  Rel(v, b) \in Nat /\ Rel(v, b) < Modulus /\ Plus(b, Rel(v, b)) = v
BY SequenceNumberAssumption DEF SN, Rel, Plus

\* Moving up by less than the modulus gives an SN at that distance.
LEMMA RelPlus ==
    ASSUME NEW b \in SN, NEW k \in Nat, k < Modulus
    PROVE  Plus(b, k) \in SN /\ Rel(Plus(b, k), b) = k
BY SequenceNumberAssumption DEF SN, Rel, Plus

\* operator++ and - 1 stay among the SNs.
LEMMA IncDecType ==
    ASSUME NEW v \in SN
    PROVE  Inc(v) \in SN /\ Dec(v) \in SN
BY SequenceNumberAssumption DEF SN, Inc, Dec

\* operator++ is one step up from any base, short of the wrap.
LEMMA RelInc ==
    ASSUME NEW v \in SN, NEW b \in SN, Rel(v, b) < WindowSize
    PROVE  Rel(Inc(v), b) = Rel(v, b) + 1
BY SequenceNumberAssumption DEF SN, Rel, Inc

\* SNs at the same distance from a base are the same.
LEMMA RelInjective ==
    ASSUME NEW u \in SN, NEW v \in SN, NEW b \in SN, Rel(u, b) = Rel(v, b)
    PROVE  u = v
BY SequenceNumberAssumption DEF SN, Rel

\* Moving the base up by k, not beyond v, takes k from the distance of v.
LEMMA RelMoveBase ==
    ASSUME NEW v \in SN, NEW b \in SN, NEW k \in Nat, k <= Rel(v, b)
    PROVE  Rel(v, Plus(b, k)) = Rel(v, b) - k
BY SequenceNumberAssumption DEF SN, Rel, Plus

\* After the base moved up by k, beyond v, the distance of v has wrapped.
LEMMA RelMoveBaseBeyond ==
    ASSUME NEW v \in SN, NEW b \in SN, NEW k \in Nat, k < Modulus, Rel(v, b) < k
    PROVE  Rel(v, Plus(b, k)) = Rel(v, b) - k + Modulus
BY SequenceNumberAssumption DEF SN, Rel, Plus

\* Moving up twice adds the distances, short of the wrap.
LEMMA RelPlusPlus ==
    ASSUME NEW v \in SN, NEW b \in SN, NEW k \in Nat, Rel(v, b) + k < Modulus
    PROVE  Plus(v, k) \in SN /\ Rel(Plus(v, k), b) = Rel(v, b) + k
BY SequenceNumberAssumption DEF SN, Rel, Plus

\* The distance between two SNs, from their distances below a third.
LEMMA RelFromTop ==
    ASSUME NEW t \in SN, NEW u \in SN, NEW v \in SN
    PROVE  /\ Rel(t, v) <= Rel(t, u) => Rel(v, u) = Rel(t, u) - Rel(t, v)
           /\ Rel(t, u) < Rel(t, v) => Rel(v, u) = Rel(t, u) - Rel(t, v) + Modulus
BY SequenceNumberAssumption DEF SN, Rel

\* An SN is at distance 0 of itself only.
LEMMA RelZero ==
    ASSUME NEW u \in SN, NEW v \in SN
    PROVE  Rel(v, u) = 0 <=> u = v
BY SequenceNumberAssumption DEF SN, Rel

\* The SNs from a up to below t are those at most as far below t as a.
LEMMA RelBetween ==
    ASSUME NEW t \in SN, NEW a \in SN, NEW v \in SN
    PROVE  Rel(v, a) < Rel(t, a) <=> 1 <= Rel(t, v) /\ Rel(t, v) <= Rel(t, a)
BY SequenceNumberAssumption DEF SN, Rel

\* The SNs below v are at most those up to v - 1.
LEMMA RelDec ==
    ASSUME NEW u \in SN, NEW v \in SN, NEW b \in SN, Rel(u, b) < Rel(v, b)
    PROVE  Rel(u, b) <= Rel(Dec(v), b)
BY SequenceNumberAssumption DEF SN, Rel, Dec

\* A set of natural numbers has a least element.
LEMMA LeastNat ==
    ASSUME NEW T \in SUBSET Nat, T # {}
    PROVE  \E n \in T : \A m \in T : n <= m
<1> DEFINE Less == {ss \in Nat \X Nat : ss[1] < ss[2]}
<1>1. IsWellFoundedOn(Less, Nat) BY NatLessThanWellFounded DEF OpToRel
<1> HIDE DEF Less
<1>2. PICK n \in T : \A m \in T : ~ (<<m, n>> \in Less)
  BY <1>1, WFMin
<1>3. ASSUME NEW m \in T PROVE n <= m
  <2>1. m \in Nat /\ n \in Nat OBVIOUS
  <2>2. m < n => <<m, n>> \in Less BY <2>1 DEF Less
  <2>3. QED BY <1>2, <2>1, <2>2
<1>4. QED BY <1>3

=============================================================================
