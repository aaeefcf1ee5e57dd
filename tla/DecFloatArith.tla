--------------------------- MODULE DecFloatArith ---------------------------
(***************************************************************************)
(* The arithmetic of decFloats (decBasic.c, included by decDouble.c and    *)
(* decQuad.c): add, subtract, multiply, fused multiply-add, the four       *)
(* divisions, and quantize.  All but quantize end in decFinalize, which    *)
(* gets the exact result, or one that rounds as the exact result does.     *)
(***************************************************************************)
EXTENDS DecFloat
-----------------------------------------------------------------------------
(***************************************************************************)
(* Special values.                                                         *)
(***************************************************************************)
decInvalid == Returns(NaNDatum, {"Invalid_operation"})
decInfinity(df) == InfinityDatum(df.neg)

\* The result is the first signalling NaN, quiet, or else the first NaN.
QuietNaN(df) ==
  Returns([decCanonical(df) EXCEPT !.kind = "nan"],
          IF df.kind = "snan" THEN {"Invalid_operation"} ELSE {})

decNaNs(dfl, dfr) ==
  QuietNaN(IF dfl.kind = "snan" THEN dfl
           ELSE IF dfr.kind = "snan" THEN dfr
           ELSE IF DFISNAN(dfl) THEN dfl
           ELSE dfr)

decNaN(df) == decNaNs(df, df)

AnyNaN(dfl, dfr) == DFISNAN(dfl) \/ DFISNAN(dfr)
AnySpecial(dfl, dfr) == DFISSPECIAL(dfl) \/ DFISSPECIAL(dfr)
DiffSign(dfl, dfr) == dfl.neg # dfr.neg

\* The finite number of a decFloat, ready for decFinalize.
Num(df) == bcdnum(df.neg, df.coef, df.exp)
-----------------------------------------------------------------------------
(***************************************************************************)
(* Addition.  A sum of zero is positive, but for FLOOR, when signs differ. *)
(***************************************************************************)
ZeroSum(set, exp) == bcdnum(set.round = "FLOOR", 0, exp)

Sum(a, b, set) ==    \* two numbers of one exponent
  IF a.neg = b.neg THEN [a EXCEPT !.coef = @ + b.coef]
  ELSE IF a.coef > b.coef THEN [a EXCEPT !.coef = @ - b.coef]
  ELSE IF a.coef < b.coef THEN [b EXCEPT !.coef = @ - a.coef]
  ELSE ZeroSum(set, a.exp)

PaddedTo(num, exp) == [num EXCEPT !.coef = @ * Power(10, num.exp - exp), !.exp = exp]

AlignedSum(hi, lo, set) == Sum(PaddedTo(hi, lo.exp), lo, set)

\* An addend more than DECPMAX digits below the other one's digits becomes a
\* sticky digit, DECPMAX zeros below them.
Brought(hi, lo) ==
  IF hi.exp - lo.exp > 2 * DECPMAX
  THEN [lo EXCEPT !.coef = (IF @ = 0 THEN 0 ELSE 1), !.exp = hi.exp - DECPMAX - 1]
  ELSE lo

\* A zero of the higher exponent leaves the other addend as it is, except
\* that a zero may get another sign.
AddZero(lo, diffsign, set) ==
  IF diffsign /\ DFISZERO(lo)
  THEN [decCanonical(lo) EXCEPT !.neg = (set.round = "FLOOR")]
  ELSE decCanonical(lo)

AddOrdered(hi, lo, set) ==
  IF DFISZERO(hi) THEN Quietly(AddZero(lo, DiffSign(hi, lo), set))
  ELSE decFinalize(AlignedSum(Num(hi), Brought(Num(hi), Num(lo)), set), set)

\* The fast path: same sign and exponent, and no carry out of the first digits.
MSD(df) == df.coef \div Power(10, DECPMAX - 1)

SimpleSum(dfl, dfr) == /\ MSD(dfl) + MSD(dfr) <= 8
                       /\ dfl.exp = dfr.exp
                       /\ ~DiffSign(dfl, dfr)

AddSpecial(dfl, dfr) ==
  IF AnyNaN(dfl, dfr) THEN decNaNs(dfl, dfr)
  ELSE IF DFISINF(dfl) /\ DFISINF(dfr) /\ DiffSign(dfl, dfr) THEN decInvalid
  ELSE IF DFISINF(dfl) THEN Quietly(decInfinity(dfl))
  ELSE Quietly(decInfinity(dfr))

decFloatAdd(dfl, dfr, set) ==
  IF AnySpecial(dfl, dfr) THEN AddSpecial(dfl, dfr)
  ELSE IF SimpleSum(dfl, dfr)
    THEN Quietly(Datum(dfl.neg, "fin", dfl.coef + dfr.coef, dfl.exp))
  ELSE IF dfl.exp >= dfr.exp THEN AddOrdered(dfl, dfr, set)
  ELSE AddOrdered(dfr, dfl, set)

\* A NaN keeps its sign.
decFloatSubtract(dfl, dfr, set) ==
  decFloatAdd(dfl, IF DFISNAN(dfr) THEN dfr ELSE [dfr EXCEPT !.neg = ~@], set)
-----------------------------------------------------------------------------
(***************************************************************************)
(* Multiplication.                                                         *)
(***************************************************************************)
\* The exact product of finite numbers.
decFiniteMultiply(dfl, dfr) ==
  bcdnum(DiffSign(dfl, dfr), dfl.coef * dfr.coef, dfl.exp + dfr.exp)

InfinityTimesZero(dfl, dfr) == \/ DFISINF(dfl) /\ DFISZERO(dfr)
                               \/ DFISINF(dfr) /\ DFISZERO(dfl)

decFloatMultiply(dfl, dfr, set) ==
  IF AnyNaN(dfl, dfr) THEN decNaNs(dfl, dfr)
  ELSE IF InfinityTimesZero(dfl, dfr) THEN decInvalid
  ELSE IF AnySpecial(dfl, dfr) THEN Quietly(InfinityDatum(DiffSign(dfl, dfr)))
  ELSE decFinalize(decFiniteMultiply(dfl, dfr), set)
-----------------------------------------------------------------------------
(***************************************************************************)
(* Fused multiply-add: dfl * dfr + dff.                                    *)
(***************************************************************************)
\* A lower addend that ends far to the right of what the result can keep is
\* reduced to its first digit, placed clear of the rounding digit.
FirstDigit(coef) == coef \div Power(10, CoefLength(coef) - 1)

Least(a, b) == IF a <= b THEN a ELSE b

ReducedExp(hi) == Least(hi.exp, hi.exp + CoefLength(hi.coef) - DECPMAX) - 3

Reduced(hi, lo) ==
  IF CoefLength(hi.coef) + hi.exp - lo.exp - CoefLength(lo.coef) > DECPMAX + 2
  THEN [lo EXCEPT !.coef = FirstDigit(@), !.exp = ReducedExp(hi)] ELSE lo

\* A zero of the higher exponent leaves the lower addend to be rounded.
FuseZero(lo, diffsign, set) ==
  IF diffsign /\ lo.coef = 0 THEN ZeroSum(set, lo.exp) ELSE lo

Fused(hi, lo, set) ==
  IF hi.coef = 0 THEN FuseZero(lo, DiffSign(hi, lo), set)
  ELSE AlignedSum(hi, IF hi.exp = lo.exp THEN lo ELSE Reduced(hi, lo), set)

FMAFinite(mul, fin, set) ==
  IF mul.exp >= fin.exp THEN Fused(mul, fin, set) ELSE Fused(fin, mul, set)

\* Signalling NaNs go first, those of the multiplication before the addend's.
FMANaN(dfl, dfr, dff) ==
  IF dfl.kind = "snan" \/ dfr.kind = "snan" THEN decNaNs(dfl, dfr)
  ELSE IF dff.kind = "snan" THEN decNaN(dff)
  ELSE IF AnyNaN(dfl, dfr) THEN decNaNs(dfl, dfr)
  ELSE decNaN(dff)

\* The product is infinite, or the addend is and the product only has a sign.
FMAInfinite(dfl, dfr, dff) ==
  IF InfinityTimesZero(dfl, dfr) THEN decInvalid
  ELSE IF ~AnySpecial(dfl, dfr) THEN Quietly(decInfinity(dff))
  ELSE IF DFISINF(dff) /\ dff.neg # DiffSign(dfl, dfr) THEN decInvalid
  ELSE Quietly(InfinityDatum(DiffSign(dfl, dfr)))

decFloatFMA(dfl, dfr, dff, set) ==
  IF AnyNaN(dfl, dfr) \/ DFISNAN(dff) THEN FMANaN(dfl, dfr, dff)
  ELSE IF AnySpecial(dfl, dfr) \/ DFISSPECIAL(dff) THEN FMAInfinite(dfl, dfr, dff)
  ELSE decFinalize(FMAFinite(decFiniteMultiply(dfl, dfr), Num(dff), set), set)
=============================================================================
