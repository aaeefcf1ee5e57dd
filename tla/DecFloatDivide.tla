--------------------------- MODULE DecFloatDivide ---------------------------
(***************************************************************************)
(* The division of decFloats (decDivide, decBasic.c) in its four uses: the *)
(* special cases, how many digits of the quotient are collected, and the   *)
(* rounding of the quotient to an integer.                                 *)
(***************************************************************************)
EXTENDS DecFloatArith

CONSTANT DIVUNIT    \* digits in a unit of the quotient (9 in this build)

ASSUME DivUnitAssumption == DIVUNIT \in Nat \ {0}

IsRemainder(op) == op \in {"Remainder", "RemainderNear"}

SignedZero(neg, exp) == Datum(neg, "fin", 0, exp)
-----------------------------------------------------------------------------
(***************************************************************************)
(* Infinities and zeros.                                                   *)
(***************************************************************************)
DivideInfinity(op, dfl, dfr) ==
  IF DFISINF(dfr) \/ IsRemainder(op) THEN decInvalid
  ELSE Quietly(InfinityDatum(DiffSign(dfl, dfr)))

\* A divide sets only the sign word, which makes the exponent the lowest one.
DivideByInfinity(op, dfl, dfr) ==
  Quietly(CASE IsRemainder(op) -> decCanonical(dfl)
            [] op = "DivideInteger" -> SignedZero(DiffSign(dfl, dfr), 0)
            [] OTHER -> SignedZero(DiffSign(dfl, dfr), DECQTINY))

DivideByZero(op, dfl, dfr) ==
  IF DFISZERO(dfl) THEN Returns(NaNDatum, {"Division_undefined"})
  ELSE IF IsRemainder(op) THEN decInvalid
  ELSE Returns(InfinityDatum(DiffSign(dfl, dfr)), {"Division_by_zero"})

\* A remainder is a zero of the dividend's sign at the lower exponent.
DivideZero(op, dfl, dfr, set) ==
  CASE op = "DivideInteger" -> Quietly(SignedZero(DiffSign(dfl, dfr), 0))
    [] IsRemainder(op) ->
         decFinalize(bcdnum(dfl.neg, 0, Least(dfl.exp, dfr.exp)), set)
    [] OTHER -> decFinalize(bcdnum(DiffSign(dfl, dfr), 0, dfl.exp - dfr.exp), set)
-----------------------------------------------------------------------------
(***************************************************************************)
(* The quotient of finite numbers that are not zero: collected a unit at a *)
(* time, down to the last digit of the dividend and then beyond it until   *)
(* it is exact or has more than DECPMAX + 1 digits.                        *)
(***************************************************************************)
\* Digits beyond the dividend's, in whole units.
Extra(k) == k * DIVUNIT

Enough(k, lc, rc) == \/ (lc * Power(10, Extra(k))) % rc = 0
                     \/ CoefLength((lc * Power(10, Extra(k))) \div rc) > DECPMAX + 1

UnitsBeyond(lc, rc) ==
  CHOOSE k \in 0 .. 2 * DECPMAX + 2 :
    Enough(k, lc, rc) /\ \A j \in 0 .. k - 1 : ~Enough(j, lc, rc)

\* (mutant) The remainder leaves no trace.
CutQuotient(q, rem) == q

\* An inexact quotient has its last digit made odd (the sticky bit).
StickyQuotient(q, rem) == IF rem = 0 \/ q % 2 = 1 THEN q ELSE q + 1

TrailingZeros(q) == CHOOSE z \in 0 .. CoefLength(q) - 1 :
                      q % Power(10, z) = 0 /\ (q \div Power(10, z)) % 10 # 0

WithoutZeros(num, z) == [num EXCEPT !.coef = @ \div Power(10, z), !.exp = @ + z]

\* Digits beyond the dividend's that turn out to be zeros go again.
Tidied(num, rem, extra) ==
  IF extra > 0 /\ rem = 0 THEN WithoutZeros(num, TrailingZeros(num.coef)) ELSE num

QuotientOf(neg, lc, rc, exp, extra) ==
  Tidied(bcdnum(neg, StickyQuotient(lc \div rc, lc % rc), exp - extra), lc % rc, extra)

QuotientTo(dfl, dfr, extra) ==
  QuotientOf(DiffSign(dfl, dfr), dfl.coef * Power(10, extra), dfr.coef, dfl.exp - dfr.exp, extra)

Quotient(dfl, dfr) == QuotientTo(dfl, dfr, Extra(UnitsBeyond(dfl.coef, dfr.coef)))
-----------------------------------------------------------------------------
(***************************************************************************)
(* The integer part of the quotient; remainder-near rounds it half-even.   *)
(***************************************************************************)
Truncated(num, drop) == [num EXCEPT !.coef = Kept(@, drop), !.exp = 0]

NearestInteger(num, reround) ==
  IF Bumps("HALF_EVEN", num.neg, reround, num.coef % 10)
  THEN [num EXCEPT !.coef = @ + 1] ELSE num

IntegerPart(op, num) ==
  CASE num.exp >= 0 -> PaddedTo(num, 0)
    [] num.exp < 0 /\ op = "RemainderNear" ->
         NearestInteger(Truncated(num, -num.exp), Reround(num.coef, -num.exp))
    [] OTHER -> Truncated(num, -num.exp)

\* dfl - quotient * dfr, with a zero remainder signed as the dividend.
RemainderOf(quotient, dfl, dfr, set) ==
  LET rem == decFloatFMA([quotient EXCEPT !.neg = ~@], dfr, dfl, set)
  IN  IF DFISZERO(rem.n) THEN Returns([rem.n EXCEPT !.neg = dfl.neg], rem.status) ELSE rem

FinishDivide(op, num, dfl, dfr, set) ==
  IF op = "Divide" THEN decFinalize(num, set)
  ELSE IF CoefLength(num.coef) + num.exp > DECPMAX
    THEN Returns(NaNDatum, {"Division_impossible"})
  ELSE IF op = "DivideInteger" THEN decFinalize(IntegerPart(op, num), set)
  ELSE RemainderOf(decFinalize(IntegerPart(op, num), set).n, dfl, dfr, set)

decDivide(op, dfl, dfr, set) ==
  IF AnyNaN(dfl, dfr) THEN decNaNs(dfl, dfr)
  ELSE IF DFISINF(dfl) THEN DivideInfinity(op, dfl, dfr)
  ELSE IF DFISINF(dfr) THEN DivideByInfinity(op, dfl, dfr)
  ELSE IF DFISZERO(dfr) THEN DivideByZero(op, dfl, dfr)
  ELSE IF DFISZERO(dfl) THEN DivideZero(op, dfl, dfr, set)
  ELSE FinishDivide(op, Quotient(dfl, dfr), dfl, dfr, set)

decFloatDivide(dfl, dfr, set) == decDivide("Divide", dfl, dfr, set)
decFloatDivideInteger(dfl, dfr, set) == decDivide("DivideInteger", dfl, dfr, set)
decFloatRemainder(dfl, dfr, set) == decDivide("Remainder", dfl, dfr, set)
decFloatRemainderNear(dfl, dfr, set) == decDivide("RemainderNear", dfl, dfr, set)
=============================================================================
