-------------------------- MODULE SequenceNumber10 --------------------------
(***************************************************************************)
(* The sequence numbers of RLC AM: class SequenceNumber10, a counter       *)
(* modulo 1024 whose comparisons are made relative to a modulus base.      *)
(*                                                                         *)
(* Both operands of every comparison in LteRlcAm carry the same base       *)
(* (VT(A) at the transmitting side, VR(R) at the receiving side), so a     *)
(* comparison v1 < v2 of the code is  Rel(v1, base) < Rel(v2, base) here.  *)
(*                                                                         *)
(* The sums and differences are written with one conditional wrap instead  *)
(* of the remainder of the code, because their operands are at most one    *)
(* Modulus apart; SequenceNumber10Code compares them with the remainders.  *)
(***************************************************************************)
EXTENDS Integers

CONSTANTS
    Modulus,       \* 1024 in the code: the number of sequence numbers
    WindowSize     \* m_windowSize, 512 in the code

ASSUME SequenceNumberAssumption ==
    /\ Modulus \in Nat
    /\ WindowSize \in Nat \ {0}
    /\ 2 * WindowSize <= Modulus

SN == 0 .. Modulus - 1

\* operator + : v plus delta, for a delta of at most Modulus.
Plus(v, delta) == IF v + delta < Modulus THEN v + delta ELSE v + delta - Modulus

\* operator++ 
Inc(v) == IF v = Modulus - 1 THEN 0 ELSE v + 1

\* Faulty variant: no wrap below 0.
DecUnwrapped(v) == v - 1

\* v - 1
Dec(v) == IF v = 0 THEN Modulus - 1 ELSE v - 1

\* The distance of v above the modulus base, which the comparisons compare.
Rel(v, base) == IF v >= base THEN v - base ELSE v - base + Modulus

=============================================================================
