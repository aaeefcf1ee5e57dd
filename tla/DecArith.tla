------------------------------ MODULE DecArith ------------------------------
(***************************************************************************)
(* The arithmetic routines decAddOp, decMultiplyOp and decQuantizeOp on    *)
(* values.  Each maps its operands, the settings of the context and the    *)
(* status accumulator to the work record of DecRounding; the number in it  *)
(* is arbitrary when the status holds an error without sNaN, as decStatus  *)
(* replaces it.                                                            *)
(***************************************************************************)
EXTENDS DecRounding

Lesser(x, y) == IF x < y THEN x ELSE y
Greater(x, y) == IF x < y THEN y ELSE x

Invalid(status) == Work(decNumberZero, 0, status \cup {"Invalid_operation"})
Infinity(neg) == [decNumberZero EXCEPT !.kind = "inf", !.neg = neg]
Negate(n) == [n EXCEPT !.neg = ~@]

(***************************************************************************)
(* decAddOp: lhs + rhs, or lhs - rhs when negate.                          *)
(***************************************************************************)
AddInfinite(lhs, rhs, negate, status) ==
  LET diffsign == (lhs.neg # rhs.neg) # negate
  IN  CASE lhs.kind = "inf" /\ rhs.kind = "inf" /\ diffsign -> Invalid(status)
        [] lhs.kind = "inf" /\ ~(rhs.kind = "inf" /\ diffsign) ->
             Work(Infinity(lhs.neg), 0, status)
        [] OTHER -> Work(Infinity(rhs.neg # negate), 0, status)

\* Pad w.n with zeros down to exponent `exp', as far as the precision allows.
PadDown(w, exp, set) ==
  LET room == set.digits - w.n.digits
      pad == Lesser(w.n.exp - exp, room)
  IN  IF exp >= w.n.exp THEN w
      ELSE Flagged(Holding(w, [decShiftToMost(w.n, pad) EXCEPT !.exp = @ - pad]),
                   When(w.n.exp - exp > room, {"Rounded"}))

\* lhs is zero; w is rhs (with its effective sign, maybe zero too), copied.
AddToZero(lhs, w, set) ==
  LET zero == [w.n EXCEPT !.exp = Lesser(@, lhs.exp),
                          !.neg = IF lhs.neg # @ THEN set.round = "FLOOR" ELSE @]
  IN  CASE ~set.extended -> w
        [] set.extended /\ ISZERO(w.n) -> Holding(w, zero)
        [] OTHER -> PadDown(w, lhs.exp, set)

\* rhs is zero; w is lhs, which is not, copied.
AddZero(w, rhs, set) == IF set.extended THEN PadDown(w, rhs.exp, set) ELSE w

\* (mutant) A high exponent, which might have to be folded down, stays.
OneUnitUnclamped(lhs, rhs, diffsign, set) ==
  LET sum == (lhs.coef % TenTo[DECDPUN]) + rhs.coef
  IN  /\ lhs.exp = rhs.exp
      /\ rhs.exp >= set.emin
      /\ rhs.digits <= Lesser(DECDPUN, set.digits)
      /\ lhs.digits <= set.digits
      /\ ~diffsign
      /\ sum < TenTo[Lesser(DECDPUN, lhs.digits)]

\* Aligned operands, and a sum or difference that stays in the lowest Unit:
\* the result is lhs with that Unit replaced, and nothing is finished.
InOneUnit(lhs, rhs, diffsign, set) ==
  LET unit == lhs.coef % TenTo[DECDPUN]
      partial == IF diffsign THEN unit - rhs.coef ELSE unit + rhs.coef
  IN  /\ lhs.exp = rhs.exp
      /\ rhs.digits <= DECDPUN
      /\ rhs.exp >= set.emin
      /\ rhs.exp <= Etop(set)
      /\ rhs.digits <= set.digits
      /\ lhs.digits <= set.digits
      /\ IF diffsign THEN partial > 0
         ELSE partial < TenTo[Lesser(DECDPUN, lhs.digits)]

AddFast(lhs, rhs, diffsign, status) ==
  LET coef == IF diffsign THEN lhs.coef - rhs.coef ELSE lhs.coef + rhs.coef
  IN  Work([lhs EXCEPT !.coef = coef,
                       !.digits = IF diffsign THEN decGetDigits(coef, @)
                                              ELSE @],
           0, status)

\* high (the operand with the higher exponent, with its effective sign)
\* alone gives the digits, padded to the precision; the other one is a residue.
PadToPrecision(w, shift) ==
  IF shift > 0 THEN Holding(w, [decShiftToMost(w.n, shift) EXCEPT !.exp = @ - shift])
               ELSE w

AddResidue(high, diffsign, set, status) ==
  PadToPrecision(decCopyFit(high, set.digits, IF diffsign THEN -1 ELSE 1, status),
                 set.digits - high.digits)

NoResidue(w) == Work(w.n, 0, w.status)

\* Subset arithmetic rounds once more before the end.
RoundSubset(w, set) == IF set.extended THEN w ELSE NoResidue(decApplyRound(w, set))

\* The digits are counted again.
Counted(w) == Holding(w, [w.n EXCEPT !.digits = decGetDigits(w.n.coef, @)])

\* The sign of an exact zero.
SignZero(w, diffsign, set) ==
  IF ISZERO(w.n) /\ diffsign /\ set.extended /\ "Inexact" \notin w.status
  THEN Holding(w, [w.n EXCEPT !.neg = (set.round = "FLOOR")]) ELSE w

\* The end of a sum, cut to the precision.
AddEnd(cut, diffsign, set) ==
  SignZero(decFinish(Counted(RoundSubset(cut, set)), set), diffsign, set)

\* The careful sum: low keeps its exponent, high is padded to it.
AddAligned(low, high, diffsign, set, status) ==
  LET pad == high.exp - low.exp
      maxdigits == Greater(high.digits + pad, low.digits)
      sum == IF diffsign THEN low.coef - high.coef * TenTo[pad]
                         ELSE low.coef + high.coef * TenTo[pad]
      borrowed == sum < 0
      coef == IF borrowed THEN -sum ELSE sum
      len == decGetDigits(coef, maxdigits + 1)
      n == [low EXCEPT !.neg = @ # borrowed]
  IN  AddEnd(\* subset arithmetic rounds from the original most significant digit
             decSetCoeff(Work(n, 0, status), set.digits, coef,
                         IF set.extended THEN len ELSE Greater(len, maxdigits)),
             diffsign, set)

\* One operand is zero; w is the other one, copied.
AddWithZero(lhs, rhs, w, set) ==
  IF ISZERO(lhs) THEN AddToZero(lhs, w, set) ELSE AddZero(w, rhs, set)

AddFinite(lhs, rhs, negate, set, status) ==
  LET diffsign == (lhs.neg # rhs.neg) # negate
      right == IF negate THEN Negate(rhs) ELSE rhs
      low == IF lhs.exp > rhs.exp THEN right ELSE lhs
      high == IF lhs.exp > rhs.exp THEN lhs ELSE right
      pad == high.exp - low.exp
      other == IF ISZERO(lhs) THEN right ELSE lhs
  IN  CASE ISZERO(lhs) \/ ISZERO(rhs) ->
             decFinish(AddWithZero(lhs, rhs, decCopyFit(other, set.digits, 0, status), set),
                       set)
        [] OTHER ->
             IF InOneUnit(lhs, rhs, diffsign, set)
             THEN AddFast(lhs, rhs, diffsign, status)
             ELSE IF pad # 0 /\ high.digits + pad > low.digits + set.digits + 1
                  THEN decFinish(AddResidue(high, diffsign, set, status), set)
                  ELSE AddAligned(low, high, diffsign, set, status)

\* o is both operands, with the status of rounding them.
AddOperands(o, set, negate) ==
  CASE IsNaN(o.lhs) \/ IsNaN(o.rhs) -> decNaNs(o.lhs, o.rhs, set, o.status)
    [] ~IsNaN(o.lhs) /\ ~IsNaN(o.rhs)
         /\ (IsSpecial(o.lhs) \/ IsSpecial(o.rhs)) ->
         AddInfinite(o.lhs, o.rhs, negate, o.status)
    [] OTHER -> AddFinite(o.lhs, o.rhs, negate, set, o.status)

decAddOp(l, r, set, negate, st) ==
  AddOperands(SubsetOperands(l, r, set, st), set, negate)

(***************************************************************************)
(* decMultiplyOp.  The special cases come before the operand rounding of   *)
(* subset arithmetic; the sum of the exponents is taken in the C integers  *)
(* -IntMax-1 .. IntMax, where a wrap forces an underflow.                  *)
(***************************************************************************)
CONSTANTS IntMax,       \* largest Int
          DECNUMMAXE    \* largest exponent the library supports
ASSUME IntegerAssumption == IntMax \in Nat /\ DECNUMMAXE \in Nat

WrappedSum(x, y) ==
  IF x + y < -IntMax - 1 THEN x + y + IntMax + 1 + IntMax + 1 ELSE x + y

\* (mutant) The sum is taken as it comes.
UncheckedExponent(x, y) == WrappedSum(x, y)

ProductExponent(x, y) ==
  IF x < 0 /\ y < 0 /\ WrappedSum(x, y) > 0 THEN -2 * DECNUMMAXE
                                            ELSE WrappedSum(x, y)

\* (An operand may have been rounded to an infinity: the bits are reset.)
MultiplyFinite(o, neg, set) ==
  LET coef == o.lhs.coef * o.rhs.coef
      n == [o.lhs EXCEPT !.neg = neg, !.kind = "fin",
                         !.exp = ProductExponent(o.lhs.exp, o.rhs.exp)]
  IN  decFinish(decSetCoeff(Work(n, 0, o.status), set.digits, coef,
                      decGetDigits(coef, o.lhs.digits + o.rhs.digits)), set)

\* The shorter number is the multiplier, and is rounded second.
decMultiplyOp(l, r, set, st) ==
  LET neg == l.neg # r.neg
      long == IF l.digits < r.digits THEN r ELSE l
      short == IF l.digits < r.digits THEN l ELSE r
  IN  CASE IsNaN(l) \/ IsNaN(r) -> decNaNs(l, r, set, st)
        [] ~IsNaN(l) /\ ~IsNaN(r) /\ (IsSpecial(l) \/ IsSpecial(r)) ->
             IF ISZERO(l) \/ ISZERO(r) THEN Invalid(st)
                                       ELSE Work(Infinity(neg), 0, st)
        [] OTHER -> MultiplyFinite(SubsetOperands(long, short, set, st), neg, set)

(***************************************************************************)
(* decQuantizeOp: reqexp is the exponent requested, or BADINT.             *)
(***************************************************************************)
BADINT == -IntMax - 1

\* decGetInt: the value of an integer; BADINT when it has a fraction, and
\* (for the C values BIGODD and BIGEVEN too) when it is beyond any exponent.
decGetInt(n) ==
  LET limit == IF n.neg THEN 2 * DECNUMMAXE - 1 ELSE DECNUMMAXE
      fraction == n.exp < 0 /\ n.coef % TenTo[-n.exp] # 0
      value == IF n.exp < 0 THEN n.coef \div TenTo[-n.exp] ELSE n.coef * TenTo[n.exp]
  IN  CASE ISZERO(n) -> 0
        [] ~ISZERO(n) /\ fraction -> BADINT
        [] OTHER -> IF n.digits + n.exp > 10 \/ value > limit THEN BADINT
                    ELSE IF n.neg THEN -value ELSE value

\* Rounding carried into one more digit than there is room for.
NoRoom(n, reqexp, set) == n.exp > reqexp /\ n.digits = set.digits

\* What rounding to the requested exponent leaves.
QuantizeRounded(r, reqexp, set) ==
  LET n == ShiftBack(r.n, reqexp)
  IN  IF NoRoom(r.n, reqexp, set) THEN Invalid(r.status \ {"Inexact", "Rounded"})
      ELSE Work(IF ISZERO(n) /\ ~set.extended
                THEN [n EXCEPT !.neg = FALSE, !.kind = "fin"] ELSE n,
                0, r.status)

\* Raise the exponent of n to reqexp, rounding.
QuantizeUp(n, reqexp, set, st) ==
  LET length == n.digits - (reqexp - n.exp)
  IN  QuantizeRounded(decApplyRound(decCopyFit(n, length, 0, st),
                                    [set EXCEPT !.digits = length]),
                      reqexp, set)

QuantizeTo(n, reqexp, set, st) ==
  LET adjust == reqexp - n.exp
      zero == [n EXCEPT !.exp = reqexp, !.neg = @ /\ set.extended]
      padded == IF adjust < 0
                THEN [decShiftToMost(n, -adjust) EXCEPT !.exp = reqexp] ELSE n
  IN  CASE ISZERO(n) -> Work(zero, 0, st)
        [] ~ISZERO(n) /\ n.digits - adjust > set.digits -> Invalid(st)
        [] ~ISZERO(n) /\ n.digits - adjust <= set.digits /\ adjust > 0 ->
             QuantizeUp(n, reqexp, set, st)
        [] OTHER -> Work(padded, 0, st)

\* Quantize reports no underflow.
NoUnderflow(w) == Work(w.n, w.residue, w.status \ {"Underflow"})

\* The checks at the end.
QuantizeEnd(w, set) ==
  IF "Invalid_operation" \in w.status THEN w
  ELSE IF TooBig(w.n, set) THEN Invalid(w.status)
  ELSE NoUnderflow(decFinalize(w, set))

QuantizeOperands(o, reqexp, set) ==
  LET lowest == IF set.extended THEN Etiny(set) ELSE set.emin
      usable == reqexp # BADINT /\ reqexp >= lowest /\ reqexp <= set.emax
  IN  CASE IsNaN(o.lhs) \/ IsNaN(o.rhs) -> decNaNs(o.lhs, o.rhs, set, o.status)
        [] ~IsNaN(o.lhs) /\ ~IsNaN(o.rhs)
             /\ (IsSpecial(o.lhs) \/ IsSpecial(o.rhs)) ->
             IF o.lhs.kind # o.rhs.kind THEN Invalid(o.status)
                                        ELSE Work(o.lhs, 0, o.status)
        [] OTHER ->
             IF usable THEN QuantizeEnd(QuantizeTo(o.lhs, reqexp, set, o.status), set)
                       ELSE Invalid(o.status)

\* The exponent comes from the operand as given, not as rounded.
decQuantizeOp(l, r, set, quant, st) ==
  QuantizeOperands(SubsetOperands(l, r, set, st),
                   IF quant THEN r.exp ELSE decGetInt(r), set)
=============================================================================
