------------------------ MODULE SequenceNumber10Code ------------------------
(***************************************************************************)
(* The arithmetic of class SequenceNumber10 as the code does it: the C++   *)
(* remainder of a possibly negative int, converted to uint16_t by the      *)
(* constructor, and comparisons relative to a modulus base.  Compared with *)
(* the distances of SequenceNumber10 that the models of RLC AM use.        *)
(***************************************************************************)
EXTENDS SequenceNumber10

CONSTANT Width     \* 2^16: the values of a uint16_t

ASSUME WidthAssumption == Width \in Nat \ {0} /\ Width % Modulus = 0

\* Faulty variant: the sign is lost.
CppRemainderUnsigned(a) == (IF a >= 0 THEN a ELSE -a) % Modulus

\* The remainder of C++, which has the sign of the dividend.
CppRemainder(a) == IF a >= 0 THEN a % Modulus ELSE -((-a) % Modulus)

\* SequenceNumber10 (uint16_t value), called with an int.
Construct(a) == (a % Width) % Modulus

\* operator + and operator -
Added(v, delta)      == Construct(CppRemainder(v + delta))
Subtracted(v, delta) == Construct(CppRemainder(v - delta))

\* Faulty variant: the base is forgotten.
GreaterUnbased(u, v, base) == u > v

\* operator >, from which <, <= and >= are made.
Greater(u, v, base) ==
    Construct(CppRemainder(u - base)) > Construct(CppRemainder(v - base))

\* operator++
Incremented(v) == (v + 1) % Modulus

=============================================================================
