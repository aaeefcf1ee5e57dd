------------------------------- MODULE DecOps -------------------------------
(***************************************************************************)
(* The public operations of decNumber.c that rest on the rounding chain    *)
(* and on DecArith.  Each maps its operands and the context to [n: the     *)
(* result, status: the flags or-ed into the context].                      *)
(***************************************************************************)
EXTENDS DecArith

\* The end of a public operation: decStatus, when there is any status.
Done(w) == decStatus(w.n, w.status)

\* Operations without a context set no flags.
Quiet(n) == [n |-> n, status |-> {}]

decNumberAdd(l, r, set) == Done(decAddOp(l, r, set, FALSE, {}))
decNumberSubtract(l, r, set) == Done(decAddOp(l, r, set, TRUE, {}))
decNumberMultiply(l, r, set) == Done(decMultiplyOp(l, r, set, {}))
decNumberQuantize(l, r, set) == Done(decQuantizeOp(l, r, set, TRUE, {}))
decNumberRescale(l, r, set) == Done(decQuantizeOp(l, r, set, FALSE, {}))

(***************************************************************************)
(* Comparison.                                                             *)
(***************************************************************************)
Sign(x) == IF x < 0 THEN -1 ELSE IF x > 0 THEN 1 ELSE 0

\* Units that d digits take.
D2U(d) == (d + DECDPUN - 1) \div DECDPUN

\* (mutant) The padding is not counted in Units.
FarApart(a, b, e) == IF a > b + e THEN 1 ELSE IF a + 1 < b + e THEN -1 ELSE 0

\* a Units against b Units moved by e digits: what their number alone tells.
ByLength(a, b, e) ==
  CASE e = 0 -> Sign(a - b)
    [] a > b + D2U(e) -> 1
    [] OTHER -> IF a + 1 < b + D2U(e) THEN -1 ELSE 0

\* decUnitCompare: A ? B * 10^e of two coefficients.
decUnitCompare(a, b, e) ==
  LET far == ByLength(D2U(Places(a, 10)), D2U(Places(b, 10)), e)
  IN  IF far # 0 THEN far ELSE Sign(a - b * TenTo[e])

Signum(n, abs) == CASE ISZERO(n) -> 0
                    [] ~ISZERO(n) /\ n.neg /\ ~abs -> -1
                    [] OTHER -> 1

\* (mutant) Two infinities differ.
InfinitiesDiffer(lhs, rhs, sign) == IF rhs.kind = "inf" THEN -sign ELSE sign

\* An infinity and a number of the same sign, or two infinities.
CompareInfinite(lhs, rhs, sign) ==
  CASE lhs.kind = "inf" /\ rhs.kind = "inf" -> 0
    [] lhs.kind # "inf" /\ rhs.kind = "inf" -> -sign
    [] OTHER -> sign

\* decCompare: by value, or by magnitude when abs; no operand is a NaN.
decCompare(lhs, rhs, abs) ==
  LET sl == Signum(lhs, abs)
      sr == Signum(rhs, abs)
      infinite == lhs.kind = "inf" \/ rhs.kind = "inf"
  IN  CASE sl # sr -> Sign(sl - sr)
        [] sl = sr /\ sl = 0 -> 0
        [] sl = sr /\ sl # 0 /\ infinite -> CompareInfinite(lhs, rhs, sl)
        [] OTHER -> IF lhs.exp > rhs.exp
                    THEN -sl * decUnitCompare(rhs.coef, lhs.coef, lhs.exp - rhs.exp)
                    ELSE sl * decUnitCompare(lhs.coef, rhs.coef, rhs.exp - lhs.exp)

\* A signum as a number.
Unity(result) == [decNumberZero EXCEPT !.coef = IF result = 0 THEN 0 ELSE 1,
                                       !.neg = result < 0]

\* The 754 total order: sign, then kind, then value or payload, then exponent.
TotalOrder(l, r) ==
  LET flip == IF l.neg THEN -1 ELSE 1
      kinds == CASE ~IsNaN(l) -> -1
                 [] IsNaN(l) /\ ~IsNaN(r) -> 1
                 [] OTHER -> IF l.kind = r.kind
                             THEN decUnitCompare(l.coef, r.coef, 0)
                             ELSE IF l.kind = "snan" THEN -1 ELSE 1
      value == IF IsNaN(l) \/ IsNaN(r) THEN flip * kinds
                                       ELSE decCompare(l, r, FALSE)
  IN  CASE l.neg /\ ~r.neg -> -1
        [] ~l.neg /\ r.neg -> 1
        [] OTHER -> IF value # 0 THEN value ELSE flip * Sign(l.exp - r.exp)

\* (mutant) The sign does not turn the order of the exponents.
PrefersExponent(l, r) == IF l.neg # r.neg THEN ~l.neg ELSE l.exp > r.exp

\* For equal values: is lhs the greater one, by sign and exponent?
PrefersLeft(l, r) ==
  CASE l.neg # r.neg -> ~l.neg
    [] l.neg /\ r.neg -> l.exp < r.exp
    [] OTHER -> l.exp > r.exp

\* decCompareOp for COMPMAX and friends.
MaxMin(l, r, op, set, st) ==
  LET oneNaN == IsNaN(l) # IsNaN(r)
      result == IF oneNaN THEN IF IsNaN(l) THEN -1 ELSE 1
                ELSE decCompare(l, r, op \in {"MaxMag", "MinMag"})
      equal == result = 0
      left == IF equal THEN ~set.extended \/ PrefersLeft(l, r) ELSE result > 0
      \* a lone NaN, and a tie of subset arithmetic, make it a maximum
      reversed == /\ op \in {"Min", "MinMag"}
                  /\ ~oneNaN
                  /\ ~(equal /\ ~set.extended)
      choice == IF left # reversed THEN l ELSE r
  IN  decFinish(decCopyFit(choice, set.digits, 0, st), set)

\* o is both operands, with the status of rounding them.
CompareOperands(o, op, set) ==
  LET l == o.lhs
      r == o.rhs
      signalling == l.kind = "snan" \/ r.kind = "snan"
      extremum == op \in {"Max", "Min", "MaxMag", "MinMag"}
      bothNaN == IsNaN(l) /\ IsNaN(r)
  IN  CASE op = "CompareTotal" -> Work(Unity(TotalOrder(l, r)), 0, o.status)
        [] op # "CompareTotal" /\ (IsNaN(l) \/ IsNaN(r))
             /\ (~extremum \/ signalling \/ bothNaN) ->
             decNaNs(l, r, set, o.status \cup
                     When(op = "CompareSignal", {"Invalid_operation", "sNaN"}))
        [] OTHER -> IF extremum THEN MaxMin(l, r, op, set, o.status)
                    ELSE Work(Unity(decCompare(l, r, FALSE)), 0, o.status)

decCompareOp(lhs, rhs, op, set) ==
  CompareOperands(SubsetOperands(lhs, rhs, set, {}), op, set)

decNumberCompare(l, r, set) == Done(decCompareOp(l, r, "Compare", set))
decNumberCompareSignal(l, r, set) == Done(decCompareOp(l, r, "CompareSignal", set))
decNumberCompareTotal(l, r, set) == Done(decCompareOp(l, r, "CompareTotal", set))
decNumberCompareTotalMag(l, r, set) ==
  decNumberCompareTotal([l EXCEPT !.neg = FALSE], [r EXCEPT !.neg = FALSE], set)
decNumberMax(l, r, set) == Done(decCompareOp(l, r, "Max", set))
decNumberMin(l, r, set) == Done(decCompareOp(l, r, "Min", set))
decNumberMaxMag(l, r, set) == Done(decCompareOp(l, r, "MaxMag", set))
decNumberMinMag(l, r, set) == Done(decCompareOp(l, r, "MinMag", set))

decNumberSameQuantum(l, r, set) ==
  LET same == \/ IsNaN(l) /\ IsNaN(r)
              \/ l.kind = "inf" /\ r.kind = "inf"
              \/ ~IsSpecial(l) /\ ~IsSpecial(r) /\ l.exp = r.exp
  IN  Quiet(Unity(IF same THEN 1 ELSE 0))

(***************************************************************************)
(* Copies: quiet, no context.                                              *)
(***************************************************************************)
decNumberCopyAbs(n, set) == Quiet([n EXCEPT !.neg = FALSE])
decNumberCopyNegate(n, set) == Quiet(Negate(n))
CopySign(l, r) == [l EXCEPT !.neg = r.neg]
decNumberCopySign(l, r, set) == Quiet(CopySign(l, r))

decNumberIsNormal(n, set) ==
  ~IsSpecial(n) /\ ~ISZERO(n) /\ n.exp + n.digits - 1 >= set.emin

(***************************************************************************)
(* One-operand arithmetic.                                                 *)
(***************************************************************************)
\* A zero with the exponent of n: adding it leaves the coefficient alone.
ZeroLike(n) == [decNumberZero EXCEPT !.exp = n.exp]

decNumberPlus(n, set) == decNumberAdd(ZeroLike(n), n, set)
decNumberMinus(n, set) == decNumberSubtract(ZeroLike(n), n, set)
decNumberAbs(n, set) == Done(decAddOp(ZeroLike(n), n, set, n.neg, {}))

\* (mutant) Counting starts one digit early.
ZerosAndOne(n) == Cardinality({k \in 0 .. n.digits - 1 : n.coef % TenTo[k] = 0})

TrailingZeros(n) == Cardinality({k \in 1 .. n.digits - 1 : n.coef % TenTo[k] = 0})

\* No more zeros than the fold-down of a clamped context would put back.
DropClamped(n, set, wanted) == Lesser(wanted, Greater(Etop(set) - n.exp, 0))

\* The trailing zeros decTrim drops: all of them, or (all = FALSE) at most
\* the fraction of a number with a negative exponent; and no more than the
\* fold-down of a clamped context would put back.
TrimDrop(n, set, all, noclamp) ==
  LET zeros == TrailingZeros(n)
      wanted == IF all \/ n.exp > 0 THEN zeros ELSE Lesser(zeros, -n.exp)
  IN  IF set.clamp /\ ~noclamp THEN DropClamped(n, set, wanted) ELSE wanted

decTrim(n, set, all, noclamp) ==
  LET drop == TrimDrop(n, set, all, noclamp)
  IN  CASE IsSpecial(n) -> n
        [] ISZERO(n) -> [n EXCEPT !.exp = 0]
        [] OTHER -> [n EXCEPT !.coef = @ \div TenTo[drop], !.exp = @ + drop,
                              !.digits = @ - drop]

\* w without its trailing zeros.
Reduced(w, set) == Holding(w, decTrim(w.n, set, TRUE, FALSE))

ReduceOperand(o, set) ==
  IF IsNaN(o.n) THEN decNaNs(o.n, o.n, set, o.status)
  ELSE Reduced(decFinish(decCopyFit(o.n, set.digits, 0, o.status), set), set)

decNumberReduce(n, set) == Done(ReduceOperand(SubsetOperand(n, set, {}), set))

\* decNumberTrim: works in place with a default context.
decNumberTrim(n, set) == Quiet(decTrim(n, set, FALSE, TRUE))

(***************************************************************************)
(* Neighbours: add or subtract a number smaller than the tiniest one.      *)
(***************************************************************************)
dtiny == [decNumberZero EXCEPT !.coef = 1, !.exp = -DECNUMMAXE - 1]

\* (mutant) Away from zero, whichever way zero is.
StepUpAway(n, set, st) ==
  decAddOp(n, dtiny, [set EXCEPT !.round = "UP"], FALSE, st)

StepDown(n, set, st) ==
  decAddOp(n, dtiny, [set EXCEPT !.round = "FLOOR"], TRUE, st)
StepUp(n, set, st) ==
  decAddOp(n, dtiny, [set EXCEPT !.round = "CEILING"], FALSE, st)

\* Only a signalling NaN leaves a status.
OnlyInvalid(w) == Work(w.n, w.residue, w.status \cap {"Invalid_operation", "sNaN"})

decNumberNextMinus(n, set) ==
  IF n.kind = "inf" /\ ~n.neg THEN Quiet(decSetMaxValue(set))
  ELSE Done(OnlyInvalid(StepDown(n, set, {})))

decNumberNextPlus(n, set) ==
  IF n.kind = "inf" /\ n.neg THEN Quiet(Negate(decSetMaxValue(set)))
  ELSE Done(OnlyInvalid(StepUp(n, set, {})))

\* A step to a normal number has no status.
OnlyAbnormal(w, set) ==
  Work(w.n, w.residue, IF decNumberIsNormal(w.n, set) THEN {} ELSE w.status)

decNumberNextToward(l, r, set) ==
  LET toward == decCompare(l, r, FALSE)
      \* an infinity that steps inwards lands on Nmax, with no status
      inwards == l.kind = "inf" /\ l.neg = (toward < 0)
      nmax == [decSetMaxValue(set) EXCEPT !.neg = l.neg]
  IN  CASE IsNaN(l) \/ IsNaN(r) -> Done(decNaNs(l, r, set, {}))
        [] ~IsNaN(l) /\ ~IsNaN(r) /\ toward = 0 -> Quiet(CopySign(l, r))
        [] OTHER -> IF inwards THEN Quiet(nmax)
                    ELSE Done(OnlyAbnormal(IF toward < 0 THEN StepUp(l, set, {})
                                           ELSE StepDown(l, set, {}), set))

(***************************************************************************)
(* Rounding to an integer.  The work context is a clone of the caller's,   *)
(* its status included, and that status is merged into the operation's.    *)
(***************************************************************************)
MergeStatus(q, old) == Work(q.n, 0, old \cup q.status)

decNumberToIntegralExact(n, set) ==
  LET workset == [set EXCEPT !.digits = n.digits]
  IN  CASE IsNaN(n) -> Done(decNaNs(n, n, set, {}))
        [] n.kind = "inf" -> Quiet(n)
        [] OTHER -> IF n.exp >= 0 THEN Quiet(n)
                    ELSE Done(MergeStatus(decNumberQuantize(n, decNumberZero, workset),
                                          set.status))

decNumberToIntegralValue(n, set) ==
  [decNumberToIntegralExact(n, set) EXCEPT
     !.status = (set.status \cup @) \cap {"Invalid_operation"}]
=============================================================================
