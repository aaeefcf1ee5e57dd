------------------------------ MODULE DecDigits ------------------------------
(***************************************************************************)
(* Operations on the digits and the exponent of a number: the logical      *)
(* operations, shift, rotate, scaleB, logB; fused multiply-add; and the    *)
(* class of a number.                                                      *)
(***************************************************************************)
EXTENDS DecDivide
LOCAL INSTANCE FiniteSetsExt

(***************************************************************************)
(* Logical operations: digit by digit, over the digits of the context.     *)
(***************************************************************************)
Digit(coef, i) == (coef \div TenTo[i]) % 10

Logical(n) == n.kind = "fin" /\ n.exp = 0 /\ ~n.neg

\* Every digit the context looks at is 0 or 1.
Bitwise(coef, set) == \A i \in 0 .. set.digits - 1 : Digit(coef, i) \in {0, 1}

\* The coefficient with the digit 1 at each of the given places.
Ones(places) == MapThenSumSet(LAMBDA i : TenTo[i], places)

OnesAt(coef, set) == {i \in 0 .. set.digits - 1 : Digit(coef, i) = 1}

Integer(coef) == [decNumberZero EXCEPT !.coef = coef, !.digits = CountDigits(coef)]

LogicalResult(valid, places) ==
  Done(IF valid THEN Work(Integer(Ones(places)), 0, {}) ELSE Invalid({}))

BothLogical(l, r, set) ==
  Logical(l) /\ Logical(r) /\ Bitwise(l.coef, set) /\ Bitwise(r.coef, set)

decNumberAnd(l, r, set) ==
  LogicalResult(BothLogical(l, r, set), OnesAt(l.coef, set) \cap OnesAt(r.coef, set))
decNumberOr(l, r, set) ==
  LogicalResult(BothLogical(l, r, set), OnesAt(l.coef, set) \cup OnesAt(r.coef, set))
decNumberXor(l, r, set) ==
  LogicalResult(BothLogical(l, r, set),
                (OnesAt(l.coef, set) \cup OnesAt(r.coef, set))
                  \ (OnesAt(l.coef, set) \cap OnesAt(r.coef, set)))
decNumberInvert(n, set) ==
  LogicalResult(Logical(n) /\ Bitwise(n.coef, set),
                (0 .. set.digits - 1) \ OnesAt(n.coef, set))

(***************************************************************************)
(* Shift and rotate.  The second operand must be an integer with exponent  *)
(* zero, not beyond the precision.                                         *)
(***************************************************************************)
\* The checks shift, rotate and scaleB share; by is decGetInt(r).
DigitCount(r, limit) ==
  LET by == decGetInt(r)
  IN  r.kind = "fin" /\ r.exp = 0 /\ by # BADINT /\ by \in -limit .. limit

\* decDecap: only the lowest digits are kept.
decDecap(n, drop) ==
  IF drop >= n.digits THEN [n EXCEPT !.coef = 0, !.digits = 1]
  ELSE [n EXCEPT !.coef = @ % TenTo[n.digits - drop],
                 !.digits = decGetDigits(n.coef % TenTo[n.digits - drop], @ - drop)]

\* A zero keeps its single digit.
ShiftLeft(n, by) == IF n.coef = 0 THEN n ELSE decShiftToMost(n, by)

\* (mutant) No leading digit goes.
ShiftLeftUncut(n, by, set) == ShiftLeft(n, by)

\* Leading digits go, as many as there is no room for.
ShiftLeftCut(n, by, set) ==
  ShiftLeft(IF n.digits + by > set.digits THEN decDecap(n, n.digits + by - set.digits)
                                          ELSE n, by)

ShiftBy(n, by, set) ==
  CASE by = 0 \/ n.kind = "inf" -> n
    [] by # 0 /\ n.kind # "inf" /\ (by = set.digits \/ -by >= n.digits) ->
         [n EXCEPT !.coef = 0, !.digits = 1]
    [] OTHER -> IF by > 0 THEN ShiftLeftCut(n, by, set)
                ELSE [n EXCEPT !.coef = @ \div TenTo[-by], !.digits = @ + by]

decNumberShift(l, r, set) ==
  Done(IF IsNaN(l) \/ IsNaN(r) THEN decNaNs(l, r, set, {})
       ELSE IF DigitCount(r, set.digits) THEN Work(ShiftBy(l, decGetInt(r), set), 0, {})
       ELSE Invalid({}))

\* A right rotation within the Units of the precision.
RotateRight(coef, by, digits) ==
  (coef \div TenTo[by]) + (coef % TenTo[by]) * TenTo[digits - by]

\* First the digits short of a Unit, then whole Units.
RotateSteps(coef, by, set) ==
  RotateRight(RotateRight(coef, by % DECDPUN, set.digits),
              (by \div DECDPUN) * DECDPUN, set.digits)

\* (Of an operand longer than the precision only the Units of the precision
\* take part.)
RotateBy(n, by, set) ==
  LET left == IF by < 0 THEN set.digits + by ELSE by
      coef == RotateSteps(n.coef % TenTo[UnitDigits(set.digits)], set.digits - left, set)
  IN  IF left \in {0, set.digits} \/ n.kind = "inf" THEN n
      ELSE [n EXCEPT !.coef = coef, !.digits = CountDigits(coef)]

decNumberRotate(l, r, set) ==
  Done(IF IsNaN(l) \/ IsNaN(r) THEN decNaNs(l, r, set, {})
       ELSE IF DigitCount(r, set.digits) THEN Work(RotateBy(l, decGetInt(r), set), 0, {})
       ELSE Invalid({}))

(***************************************************************************)
(* Exponents.                                                              *)
(***************************************************************************)
\* A sum of exponents below the C integers would come out positive.
ScaledExponent(exp, by) ==
  IF exp < 0 /\ by < 0 /\ WrappedSum(exp, by) >= 0 THEN -2 * DECNUMMAXE
                                                   ELSE WrappedSum(exp, by)

\* (The operand is copied whole: only its range is checked.)
ScaleBy(n, by, set) ==
  IF n.kind = "inf" THEN Work(n, 0, {})
  ELSE decFinalize(Work([n EXCEPT !.exp = ScaledExponent(@, by)], 0, {}), set)

decNumberScaleB(l, r, set) ==
  Done(IF IsNaN(l) \/ IsNaN(r) THEN decNaNs(l, r, set, {})
       ELSE IF DigitCount(r, 2 * (set.digits + set.emax))
            THEN ScaleBy(l, decGetInt(r), set) ELSE Invalid({}))

decNumberFromInt32(i) ==
  [Integer(IF i < 0 THEN -i ELSE i) EXCEPT !.neg = i < 0]

\* The adjusted exponent, rounded when the precision may be too short for it.
decNumberLogB(n, set) ==
  LET adjusted == decNumberFromInt32(n.exp + n.digits - 1)
  IN  CASE IsNaN(n) -> Done(decNaNs(n, n, set, {}))
        [] n.kind = "inf" -> Quiet([n EXCEPT !.neg = FALSE])
        [] OTHER -> IF ISZERO(n) THEN Done(Work(Infinity(TRUE), 0, {"Division_by_zero"}))
                    ELSE IF set.digits >= 10 THEN Quiet(adjusted)
                    ELSE decNumberPlus(adjusted, set)

(***************************************************************************)
(* Fused multiply-add.                                                     *)
(***************************************************************************)
DEC_MAX_MATH == 999999

\* decCheckMath: the restrictions of the mathematical functions.
decCheckMath(n, set) ==
  LET top == n.exp + n.digits
  IN  IF set.digits > DEC_MAX_MATH \/ set.emax > DEC_MAX_MATH \/ -set.emin > DEC_MAX_MATH
      THEN {"Invalid_context"}
      ELSE When(/\ ~ISZERO(n)
                /\ \/ n.digits > DEC_MAX_MATH
                   \/ top > DEC_MAX_MATH + 1
                   \/ top < 2 * (1 - DEC_MAX_MATH), {"Invalid_operation"})

\* The first restriction an operand breaks.
MathStatus(args, set) ==
  LET broken == {i \in 1 .. 3 : ~IsSpecial(args[i]) /\ decCheckMath(args[i], set) # {}}
  IN  IF broken = {} THEN {}
      ELSE decCheckMath(args[CHOOSE i \in broken : \A j \in broken : i <= j], set)

\* p is the product, exact but for a signalling NaN or an invalid operation.
AddProduct(p, f, set) ==
  CASE "Invalid_operation" \notin p.status -> decAddOp(p.n, f, set, FALSE, p.status)
    [] "Invalid_operation" \in p.status /\ "sNaN" \in p.status ->
         decAddOp(p.n, decNumberZero, set, FALSE, p.status)
    [] OTHER -> Work([decNumberZero EXCEPT !.kind = "nan"], 0, p.status)

ExactProduct(l, r, set) ==
  decMultiplyOp(l, r, [set EXCEPT !.digits = l.digits + r.digits,
                                  !.emax = DECNUMMAXE, !.emin = -DECNUMMAXE], {})

decNumberFMA(l, r, f, set) ==
  LET broken == IF set.extended THEN MathStatus(<<l, r, f>>, set)
                                ELSE {"Invalid_operation"}
  IN  Done(IF broken = {} THEN AddProduct(ExactProduct(l, r, set), f, set)
           ELSE Work(decNumberZero, 0, broken))

(***************************************************************************)
(* Classes, from the most negative to the most positive; NaNs apart.       *)
(***************************************************************************)
decNumberIsSubnormal(n, set) ==
  ~IsSpecial(n) /\ ~ISZERO(n) /\ n.exp + n.digits - 1 < set.emin

decNumberClass(n, set) ==
  LET magnitude == CASE n.kind = "inf" -> "INF"
                     [] decNumberIsNormal(n, set) -> "NORMAL"
                     [] ISZERO(n) -> "ZERO"
                     [] OTHER -> "SUBNORMAL"
  IN  CASE n.kind = "nan" -> <<"", "QNAN">>
        [] n.kind = "snan" -> <<"", "SNAN">>
        [] OTHER -> <<IF n.neg THEN "NEG" ELSE "POS", magnitude>>
=============================================================================
