----------------------------- MODULE DecFloatOps -----------------------------
(***************************************************************************)
(* The operations of decFloats other than arithmetic (decBasic.c):         *)
(* quantize and rounding to integers, comparisons, copies, neighbours,     *)
(* reduce, shift, rotate, scaleB, logB, the logical operations and         *)
(* classification.                                                         *)
(***************************************************************************)
EXTENDS DecFloatDivide

CONSTANT INT32MAX   \* the largest integer of type Int (2147483647)

\* Whatever is an integer of that type has no more digits than the format: the
\* formats with these conversions have 16 and 34.
ASSUME IntAssumption == /\ INT32MAX \in Nat \ {0}
                        /\ 2 * INT32MAX + 1 < Power(10, DECPMAX)

\* An adjusted exponent is itself a number of the format.
ASSUME LogBAssumption == 2 * DECEMAX < Power(10, DECPMAX)
-----------------------------------------------------------------------------
(***************************************************************************)
(* Quantize: the value of dfl with the exponent of dfr, or invalid.        *)
(***************************************************************************)
\* Dropped digits are rounded as in decFinalize, but never underflow.
QuantizeDrop(neg, kept, exp, reround, set) ==
  IF reround = 0 THEN Quietly(Datum(neg, "fin", kept, exp))
  ELSE Returns(Datum(neg, "fin", IF Bumps(set.round, neg, reround, kept % 10)
                                 THEN kept + 1 ELSE kept, exp), {"Inexact"})

QuantizePad(dfl, exp, pad) ==
  IF pad > DECPMAX - CoefLength(dfl.coef) /\ dfl.coef # 0 THEN decInvalid
  ELSE Quietly(Datum(dfl.neg, "fin", IF dfl.coef = 0 THEN 0 ELSE dfl.coef * Power(10, pad), exp))

QuantizeFinite(dfl, exp, set) ==
  CASE exp = dfl.exp -> Quietly(decCanonical(dfl))
    [] exp > dfl.exp ->
         QuantizeDrop(dfl.neg, Kept(dfl.coef, exp - dfl.exp), exp,
                      Reround(dfl.coef, exp - dfl.exp), set)
    [] exp < dfl.exp -> QuantizePad(dfl, exp, dfl.exp - exp)

decFloatQuantize(dfl, dfr, set) ==
  IF AnyNaN(dfl, dfr) THEN decNaNs(dfl, dfr)
  ELSE IF DFISINF(dfl) # DFISINF(dfr) THEN decInvalid
  ELSE IF DFISINF(dfl) THEN Quietly(decInfinity(dfl))
  ELSE QuantizeFinite(dfl, dfr.exp, set)
-----------------------------------------------------------------------------
(***************************************************************************)
(* To integers.                                                            *)
(***************************************************************************)
\* Only the exact form tells that it rounded.
Silent(exact, out) == IF exact THEN out ELSE Quietly(out.n)

decToIntegral(df, set, rmode, exact) ==
  IF DFISNAN(df) THEN decNaN(df)
  ELSE IF DFISINF(df) THEN Quietly(decInfinity(df))
  ELSE IF df.exp >= 0 THEN Quietly(decCanonical(df))
  ELSE Silent(exact, decFloatQuantize(df, decFloatZero, [set EXCEPT !.round = rmode]))

decFloatToIntegralValue(df, set, rmode) == decToIntegral(df, set, rmode, FALSE)
decFloatToIntegralExact(df, set) == decToIntegral(df, set, set.round, TRUE)

\* (mutant) The most negative integer is refused.
SymmetricResult(df, unsign) ==
  IF df.coef > (IF unsign THEN 2 * INT32MAX + 1 ELSE INT32MAX)
  THEN Returns(0, {"Invalid_operation"})
  ELSE Quietly(IF df.neg THEN -df.coef ELSE df.coef)

\* The binary integer, and the flags.
IntResult(df, unsign) ==
  CASE unsign -> IF df.coef > 2 * INT32MAX + 1 \/ (df.neg /\ df.coef # 0)
                 THEN Returns(0, {"Invalid_operation"}) ELSE Quietly(df.coef)
    [] ~unsign -> IF df.coef > INT32MAX /\ ~(df.neg /\ df.coef = INT32MAX + 1)
                  THEN Returns(0, {"Invalid_operation"})
                  ELSE Quietly(IF df.neg THEN -df.coef ELSE df.coef)

\* A number that quantize refuses is a NaN, which does not look like an integer.
ToInt32Of(r, unsign) ==
  IF DFISSPECIAL(r.n) THEN Returns(0, r.status \cup {"Invalid_operation"})
  ELSE Flagging(IntResult(r.n, unsign), r.status)

decToInt32(df, set, rmode, exact, unsign) ==
  IF DFISSPECIAL(df) THEN Returns(0, {"Invalid_operation"})
  ELSE IF df.exp = 0 THEN ToInt32Of(Quietly(df), unsign)
  ELSE ToInt32Of(Silent(exact, decFloatQuantize(df, decFloatZero,
                                                [set EXCEPT !.round = rmode])), unsign)

decFloatFromInt32(n) == Datum(n < 0, "fin", IF n < 0 THEN -n ELSE n, 0)
-----------------------------------------------------------------------------
(***************************************************************************)
(* Comparisons.                                                            *)
(***************************************************************************)
Signum(x) == IF x < 0 THEN -1 ELSE IF x > 0 THEN 1 ELSE 0

\* Coefficients a shift apart, of which none is zero; for the total order, equal
\* numbers are ordered by their exponents.  The sign is that of both numbers.
CompareMagnitude(lc, rc, shift, tot) ==
  IF shift >= DECPMAX THEN 1
  ELSE IF shift <= -DECPMAX THEN -1
  ELSE LET c == IF shift >= 0 THEN Signum(lc * Power(10, shift) - rc)
                              ELSE Signum(lc - rc * Power(10, -shift))
       IN  IF c = 0 /\ tot THEN Signum(shift) ELSE c

CompareSameSign(dfl, dfr, tot) ==
  IF DFISINF(dfl) /\ DFISINF(dfr) THEN 0
  ELSE IF DFISINF(dfl) THEN 1
  ELSE IF DFISINF(dfr) THEN -1
  ELSE IF dfl.coef = 0 /\ dfr.coef = 0
    THEN IF tot THEN Signum(dfl.exp - dfr.exp) ELSE 0
  ELSE IF dfl.coef = 0 THEN -1
  ELSE IF dfr.coef = 0 THEN 1
  ELSE CompareMagnitude(dfl.coef, dfr.coef, dfl.exp - dfr.exp, tot)

decNumCompare(dfl, dfr, tot) ==
  IF DiffSign(dfl, dfr)
  THEN IF DFISZERO(dfl) /\ DFISZERO(dfr) /\ ~tot THEN 0 ELSE IF dfl.neg THEN -1 ELSE 1
  ELSE IF dfl.neg THEN -CompareSameSign(dfl, dfr, tot) ELSE CompareSameSign(dfl, dfr, tot)

\* The decFloat of an integer that an operation returns.
Small(n) == Quietly(decFloatFromInt32(n))

decFloatCompare(dfl, dfr, set) ==
  IF AnyNaN(dfl, dfr) THEN decNaNs(dfl, dfr) ELSE Small(decNumCompare(dfl, dfr, FALSE))

decFloatCompareSignal(dfl, dfr, set) ==
  IF AnyNaN(dfl, dfr) THEN Flagging(decNaNs(dfl, dfr), {"Invalid_operation"})
  ELSE Small(decNumCompare(dfl, dfr, FALSE))

\* NaNs lie beyond the numbers on their side, the quiet ones beyond the
\* signalling ones, ordered by payload.
NaNRank(df) == LET rank == CASE df.kind = "snan" -> 1 [] df.kind = "nan" -> 2 [] OTHER -> 0
               IN  IF df.neg THEN -rank ELSE rank

\* Bytes of the words (uInt) by which payloads are compared, one byte a digit.
WORD == 4

\* The place, from the right, of the first of the digits that differ.
FirstDifference(lc, rc) ==
  CHOOSE k \in 1 .. DECPMAX : /\ lc \div Power(10, k) = rc \div Power(10, k)
                              /\ lc \div Power(10, k - 1) # rc \div Power(10, k - 1)

\* The digits are compared as bytes of a buffer, word by word, and a number with
\* the sign of the difference found is returned.  The loop does not stop there:
\* with m digits left, it goes on four bytes beyond a difference, also in the
\* middle of a word, and a later difference counts instead.  The last word may
\* then reach into the foot of the buffers, where nothing was written: foot is
\* the outcome of comparing that.
PayloadDifference(lc, rc, foot) ==
  LET found[m \in 0 .. DECPMAX] ==
        LET l == lc % Power(10, m)
            r == rc % Power(10, m)
            k == FirstDifference(l, r)
        IN  CASE l = r -> IF m % WORD = 0 THEN 0 ELSE foot
              [] l # r -> IF k > WORD /\ found[k - WORD] # 0 THEN found[k - WORD] ELSE l - r
  IN  IF lc \div Power(10, WORD) = rc \div Power(10, WORD) THEN lc - rc ELSE found[DECPMAX]

ComparePayload(dfl, dfr, foot) ==
  LET comp == Signum(PayloadDifference(dfl.coef, dfr.coef, foot))
  IN  IF dfl.neg THEN -comp ELSE comp

CompareTotalNaN(dfl, dfr, foot) ==
  IF NaNRank(dfl) # NaNRank(dfr) THEN Signum(NaNRank(dfl) - NaNRank(dfr))
  ELSE ComparePayload(dfl, dfr, foot)

decFloatCompareTotal(dfl, dfr, foot) ==
  Small(IF AnyNaN(dfl, dfr) THEN CompareTotalNaN(dfl, dfr, foot)
        ELSE decNumCompare(dfl, dfr, TRUE))

decFloatCopyAbs(df) == Quietly([df EXCEPT !.neg = FALSE])
decFloatCopyNegate(df) == Quietly([df EXCEPT !.neg = ~@])
decFloatCopySign(dfl, dfr) == Quietly([dfl EXCEPT !.neg = dfr.neg])

decFloatCompareTotalMag(dfl, dfr, foot) ==
  decFloatCompareTotal(decFloatCopyAbs(dfl).n, decFloatCopyAbs(dfr).n, foot)
-----------------------------------------------------------------------------
(***************************************************************************)
(* Maximum and minimum: a number beats a quiet NaN.                        *)
(***************************************************************************)
Beats(dfl, dfr) == dfl.kind \notin {"nan", "snan"} /\ dfr.kind = "nan"

decFloatMax(dfl, dfr, set) ==
  IF Beats(dfl, dfr) THEN Quietly(decCanonical(dfl))
  ELSE IF Beats(dfr, dfl) THEN Quietly(decCanonical(dfr))
  ELSE IF AnyNaN(dfl, dfr) THEN decNaNs(dfl, dfr)
  ELSE Quietly(decCanonical(IF decNumCompare(dfl, dfr, TRUE) >= 0 THEN dfl ELSE dfr))

decFloatMin(dfl, dfr, set) ==
  IF Beats(dfl, dfr) THEN Quietly(decCanonical(dfl))
  ELSE IF Beats(dfr, dfl) THEN Quietly(decCanonical(dfr))
  ELSE IF AnyNaN(dfl, dfr) THEN decNaNs(dfl, dfr)
  ELSE Quietly(decCanonical(IF decNumCompare(dfl, dfr, TRUE) <= 0 THEN dfl ELSE dfr))

CompareAbs(dfl, dfr) ==
  decNumCompare(decFloatCopyAbs(dfl).n, decFloatCopyAbs(dfr).n, FALSE)

decFloatMaxMag(dfl, dfr, set) ==
  IF AnyNaN(dfl, dfr) \/ CompareAbs(dfl, dfr) = 0 THEN decFloatMax(dfl, dfr, set)
  ELSE Quietly(decCanonical(IF CompareAbs(dfl, dfr) > 0 THEN dfl ELSE dfr))

decFloatMinMag(dfl, dfr, set) ==
  IF AnyNaN(dfl, dfr) \/ CompareAbs(dfl, dfr) = 0 THEN decFloatMin(dfl, dfr, set)
  ELSE Quietly(decCanonical(IF CompareAbs(dfl, dfr) < 0 THEN dfl ELSE dfr))
-----------------------------------------------------------------------------
(***************************************************************************)
(* Signs, trailing zeros and neighbours.                                   *)
(***************************************************************************)
decFloatAbs(df, set) ==
  IF DFISNAN(df) THEN decNaN(df) ELSE Quietly([decCanonical(df) EXCEPT !.neg = FALSE])

\* A zero becomes positive, whatever the rounding mode.
decFloatPlus(df, set) ==
  IF DFISNAN(df) THEN decNaN(df)
  ELSE Quietly([decCanonical(df) EXCEPT !.neg = @ /\ ~DFISZERO(df)])

decFloatMinus(df, set) ==
  IF DFISNAN(df) THEN decNaN(df)
  ELSE Quietly([decCanonical(df) EXCEPT !.neg = ~@ /\ ~DFISZERO(df)])

\* A number without trailing zeros is returned as it came.
decFloatReduce(df, set) ==
  IF DFISNAN(df) THEN decNaN(df)
  ELSE IF DFISINF(df) THEN Quietly(decInfinity(df))
  ELSE IF DFISZERO(df) THEN Quietly(SignedZero(df.neg, 0))
  ELSE IF df.coef % 10 # 0 THEN Quietly(df)
  ELSE decFinalize(WithoutZeros(Num(df), TrailingZeros(df.coef)), set)

Delta(neg, exp) == Datum(neg, "fin", 1, exp)

\* Of the flags of the addition only that of a signalling NaN is kept, and
\* a step to zero comes from the other side than the sum's sign says.
Stepped(out) ==
  [n |-> IF DFISZERO(out.n) THEN [out.n EXCEPT !.neg = ~@] ELSE out.n,
   status |-> out.status \cap {"Invalid_operation"}]

decFloatNextMinus(df, set) ==
  IF df.kind = "inf" /\ ~df.neg THEN Quietly(Nmax(FALSE))
  ELSE Stepped(decFloatAdd(df, Delta(TRUE, DECQTINY), [set EXCEPT !.round = "FLOOR"]))

decFloatNextPlus(df, set) ==
  IF df.kind = "inf" /\ df.neg THEN Quietly(Nmax(TRUE))
  ELSE Stepped(decFloatAdd(df, Delta(FALSE, DECQTINY), [set EXCEPT !.round = "CEILING"]))

decFloatIsNormal(df) == /\ df.kind = "fin" /\ df.coef # 0
                        /\ df.exp + decFloatDigits(df) - 1 >= DECEMIN
decFloatIsSubnormal(df) == df.kind = "fin" /\ df.coef # 0 /\ ~decFloatIsNormal(df)

\* The flags of a step that ends in a normal number are dropped.
Arrived(out) == IF decFloatIsNormal(out.n) THEN Quietly(out.n) ELSE out

StepToward(dfl, up, set) ==
  IF DFISINF(dfl) THEN Quietly(Nmax(dfl.neg))
  ELSE Arrived(decFloatFMA(Delta(~up, DECQTINY), Delta(FALSE, -1), dfl,
                           [set EXCEPT !.round = IF up THEN "CEILING" ELSE "FLOOR"]))

decFloatNextToward(dfl, dfr, set) ==
  IF AnyNaN(dfl, dfr) THEN decNaNs(dfl, dfr)
  ELSE IF decNumCompare(dfl, dfr, FALSE) = 0 THEN decFloatCopySign(dfl, dfr)
  ELSE StepToward(dfl, decNumCompare(dfl, dfr, FALSE) < 0, set)
-----------------------------------------------------------------------------
(***************************************************************************)
(* Moving digits and exponents.                                            *)
(***************************************************************************)
\* dfr counts something: an integer with exponent zero, within a limit.
Counts(dfr, limit) == DFISINT(dfr) /\ dfr.coef <= limit

\* decFinalize, with the status restored.
LayOut(num, set) == Quietly(decFinalize(num, set).n)

ShiftedCoef(coef, by, right) ==
  IF right THEN coef \div Power(10, by) ELSE (coef * Power(10, by)) % Power(10, DECPMAX)

decFloatShift(dfl, dfr, set) ==
  IF AnyNaN(dfl, dfr) THEN decNaNs(dfl, dfr)
  ELSE IF ~Counts(dfr, DECPMAX) THEN decInvalid
  ELSE IF DFISINF(dfl) THEN Quietly(decInfinity(dfl))
  ELSE IF dfr.coef = 0 THEN Quietly(decCanonical(dfl))
  ELSE IF dfr.coef = DECPMAX THEN Quietly(SignedZero(dfl.neg, 0))
  ELSE LayOut([Num(dfl) EXCEPT !.coef = ShiftedCoef(@, dfr.coef, dfr.neg)], set)

\* To the left by count places, of a coefficient of DECPMAX digits.
RotatedCoef(coef, count) ==
  ((coef * Power(10, count)) % Power(10, DECPMAX)) + coef \div Power(10, DECPMAX - count)

decFloatRotate(dfl, dfr, set) ==
  IF AnyNaN(dfl, dfr) THEN decNaNs(dfl, dfr)
  ELSE IF ~Counts(dfr, DECPMAX) THEN decInvalid
  ELSE IF DFISINF(dfl) THEN Quietly(decInfinity(dfl))
  ELSE IF dfr.coef \in {0, DECPMAX} THEN Quietly(decCanonical(dfl))
  ELSE LayOut([Num(dfl) EXCEPT !.coef =
                 RotatedCoef(@, IF dfr.neg THEN DECPMAX - dfr.coef ELSE dfr.coef)], set)

SCALEBMAX == 2 * (DECEMAX + DECPMAX)

decFloatScaleB(dfl, dfr, set) ==
  IF AnyNaN(dfl, dfr) THEN decNaNs(dfl, dfr)
  ELSE IF ~Counts(dfr, SCALEBMAX) THEN decInvalid
  ELSE IF DFISINF(dfl) THEN Quietly(decInfinity(dfl))
  ELSE decFloatSetExponent(dfl, set, "fin",
                           IF dfr.neg THEN dfl.exp - dfr.coef ELSE dfl.exp + dfr.coef)

decFloatLogB(df, set) ==
  IF DFISNAN(df) THEN decNaN(df)
  ELSE IF DFISINF(df) THEN Quietly(InfinityDatum(FALSE))
  ELSE IF DFISZERO(df) THEN Returns(InfinityDatum(TRUE), {"Division_by_zero"})
  ELSE Small(df.exp + decFloatDigits(df) - 1)
-----------------------------------------------------------------------------
(***************************************************************************)
(* Logical operations, on digits that are all 0 or 1.                      *)
(***************************************************************************)
Digit(coef, i) == (coef \div Power(10, i)) % 10

DigitPlaces == 0 .. DECPMAX - 1

decFloatIsLogical(df) == /\ df.kind = "fin" /\ df.exp = 0 /\ ~df.neg
                         /\ \A i \in DigitPlaces : Digit(df.coef, i) \in {0, 1}

Ones(df) == {i \in DigitPlaces : Digit(df.coef, i) = 1}

\* The coefficient with a 1 at these places.
OnesAt(places) ==
  LET ones[i \in 0 .. DECPMAX] ==
        IF i = 0 THEN 0 ELSE ones[i - 1] + IF i - 1 \in places THEN Power(10, i - 1) ELSE 0
  IN  ones[DECPMAX]

LogicalResult(valid, places) ==
  IF valid THEN Quietly(Datum(FALSE, "fin", OnesAt(places), 0)) ELSE decInvalid

BothLogical(dfl, dfr) == decFloatIsLogical(dfl) /\ decFloatIsLogical(dfr)

decFloatAnd(dfl, dfr, set) ==
  LogicalResult(BothLogical(dfl, dfr), Ones(dfl) \cap Ones(dfr))
decFloatOr(dfl, dfr, set) ==
  LogicalResult(BothLogical(dfl, dfr), Ones(dfl) \cup Ones(dfr))
decFloatXor(dfl, dfr, set) ==
  LogicalResult(BothLogical(dfl, dfr),
                (Ones(dfl) \cup Ones(dfr)) \ (Ones(dfl) \cap Ones(dfr)))
decFloatInvert(df, set) == LogicalResult(decFloatIsLogical(df), DigitPlaces \ Ones(df))
-----------------------------------------------------------------------------
(***************************************************************************)
(* Classification.                                                         *)
(***************************************************************************)
decFloatClass(df) ==
  LET magnitude == IF DFISINF(df) THEN "INF"
                   ELSE IF DFISZERO(df) THEN "ZERO"
                   ELSE IF decFloatIsNormal(df) THEN "NORMAL" ELSE "SUBNORMAL"
  IN  CASE df.kind = "nan" -> <<"", "QNAN">>
        [] df.kind = "snan" -> <<"", "SNAN">>
        [] OTHER -> <<IF df.neg THEN "NEG" ELSE "POS", magnitude>>

decFloatSameQuantum(dfl, dfr) ==
  \/ DFISNAN(dfl) /\ DFISNAN(dfr)
  \/ DFISINF(dfl) /\ DFISINF(dfr)
  \/ dfl.kind = "fin" /\ dfr.kind = "fin" /\ dfl.exp = dfr.exp
=============================================================================
