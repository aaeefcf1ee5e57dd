------------------------------ MODULE DecDivide ------------------------------
(***************************************************************************)
(* decDivideOp: divide, divideInteger, remainder and remainderNear on      *)
(* values.  The long division is stated by what each turn of its outer     *)
(* loop has established: the quotient cut at the exponent reached so far.  *)
(* DecLongDivision takes the same loop apart, Unit by Unit.                *)
(***************************************************************************)
EXTENDS DecOps

Remains(op) == op \in {"Remainder", "RemainderNear"}

\* Digits of the Units that d digits take.
UnitDigits(d) == ((d + DECDPUN - 1) \div DECDPUN) * DECDPUN

\* One or two infinities.
DivideInfinite(lhs, rhs, op, set, status) ==
  LET neg == lhs.neg # rhs.neg
      tiny == [decNumberZero EXCEPT
                 !.neg = neg, !.exp = IF op = "Divide" THEN Etiny(set) ELSE 0]
  IN  CASE lhs.kind = "inf" /\ (rhs.kind = "inf" \/ Remains(op)) -> Invalid(status)
        [] lhs.kind = "inf" /\ rhs.kind # "inf" /\ ~Remains(op) ->
             Work(Infinity(neg), 0, status)
        [] lhs.kind # "inf" /\ Remains(op) ->
             decFinish(decCopyFit(lhs, set.digits, 0, status), set)
        [] OTHER -> decFinish(Work(tiny, 0, status \cup When(op = "Divide", {"Clamped"})),
                              set)

\* x / 0.
DivideByZero(lhs, neg, op, status) ==
  CASE ISZERO(lhs) -> Work(decNumberZero, 0, status \cup {"Division_undefined"})
    [] ~ISZERO(lhs) /\ Remains(op) -> Invalid(status)
    [] OTHER -> Work(Infinity(neg), 0, status \cup {"Division_by_zero"})

\* 0 / x.  (A remainder keeps the zero and is not finished.)
DivideZero(lhs, rhs, op, set, status) ==
  LET neg == lhs.neg # rhs.neg
      ideal == [lhs EXCEPT !.neg = neg, !.exp = @ - rhs.exp]
  IN  CASE ~set.extended -> Work(decNumberZero, 0, status)
        [] set.extended /\ op = "Divide" ->
             decFinalize(Work(ideal, 0, status), set)
        [] set.extended /\ op = "DivideInteger" ->
             Work([decNumberZero EXCEPT !.neg = neg], 0, status)
        [] OTHER -> Work([lhs EXCEPT !.exp = Lesser(@, rhs.exp)], 0, status)

(***************************************************************************)
(* The loop.  After each turn the accumulator holds the quotient down to   *)
(* the digit worth 10^e, and e falls by one Unit per turn.                 *)
(***************************************************************************)
\* |lhs| / |rhs| cut at the exponent e, and whether nothing remains.
CutAt(lhs, rhs, s) ==
  IF s >= 0 THEN [q |-> (lhs.coef * TenTo[s]) \div rhs.coef,
                  exact |-> (lhs.coef * TenTo[s]) % rhs.coef = 0]
  ELSE [q |-> lhs.coef \div (rhs.coef * TenTo[-s]),
        exact |-> lhs.coef % (rhs.coef * TenTo[-s]) = 0]
QuotientAt(lhs, rhs, e) == CutAt(lhs, rhs, lhs.exp - rhs.exp - e)

CountDigits(c) == Places(c, 10)

\* Enough digits, or an exact quotient that needs no more zeros, or (for an
\* integer quotient) the units reached.
Enough(t, e, ideal, op, set) ==
  \/ CountDigits(t.q) > set.digits
  \/ t.exact /\ (Remains(op) \/ (op = "Divide" /\ e <= ideal))
  \/ e = 0 /\ op # "Divide"

\* The exponent of the first Unit of the quotient.  Integer quotients are
\* aligned so that a Unit ends at the units digit.
FirstExponent(lhs, rhs, op) ==
  LET e == (lhs.exp + UnitDigits(lhs.digits)) - (rhs.exp + UnitDigits(rhs.digits))
  IN  CASE op = "Divide" -> e
        [] op # "Divide" /\ e < 0 -> 0
        [] OTHER -> e + DECDPUN - (e % DECDPUN)

\* The exponent at which the loop ends.
LastExponent(lhs, rhs, op, set) ==
  LET at(j) == FirstExponent(lhs, rhs, op) - DECDPUN * j
      stops(j) == Enough(QuotientAt(lhs, rhs, at(j)), at(j), lhs.exp - rhs.exp, op, set)
  IN  at(CHOOSE j \in 0 .. set.digits + 3 :
           stops(j) /\ \A i \in 0 .. j - 1 : ~stops(i))

\* coef * 10^exp as the result, rounded and finished.
DivideResult(neg, coef, exp, residue, set, status) ==
  decFinish(decSetCoeff(Work([decNumberZero EXCEPT !.neg = neg, !.exp = exp],
                             residue, status),
                        set.digits, coef, CountDigits(coef)), set)

\* An exact quotient loses the zeros its last Unit brought in.
LooseZeros(q, e, ideal) ==
  LET lsu == q % TenTo[DECDPUN]
      zeros == Cardinality({k \in 1 .. DECDPUN : lsu % TenTo[k] = 0})
  IN  IF lsu = 0 \/ e >= ideal THEN 0 ELSE Lesser(zeros, ideal - e)

\* Subset arithmetic trims the fraction of a quotient.
TrimSubset(w, set) ==
  IF set.extended THEN w ELSE Holding(w, decTrim(w.n, set, FALSE, TRUE))

QuotientResult(neg, t, e, ideal, set, status) ==
  LET drop == IF t.exact THEN LooseZeros(t.q, e, ideal) ELSE 0
  IN  TrimSubset(DivideResult(neg, t.q \div TenTo[drop], e + drop,
                              IF t.exact THEN 0 ELSE 1, set, status), set)

\* Is the quotient full, and all nines?
AllNines(q, set) == q = TenTo[set.digits] - 1

\* Is the nearest integer quotient the next one?
NextIsNearer(rem, y, odd) == 2 * rem > y \/ (2 * rem = y /\ odd)

\* rem and y are the remainder and the divisor at the exponent e.
RemainderNonzero(lhs, q, rem, y, e, op, set, status) ==
  IF op = "RemainderNear" /\ NextIsNearer(rem, y, q % 2 = 1)
  THEN IF AllNines(q, set)
       THEN Work(decNumberZero, 0, status \cup {"Division_impossible"})
       ELSE DivideResult(~lhs.neg, y - rem, e, 0, set, status)
  ELSE DivideResult(lhs.neg, rem, e, 0, set, status)

RemainderResult(lhs, rhs, t, op, set, status) ==
  LET e == Lesser(lhs.exp, rhs.exp)
      y == rhs.coef * TenTo[rhs.exp - e]
      zero == [decNumberZero EXCEPT !.neg = lhs.neg,
                                    !.exp = IF set.extended THEN e ELSE 0]
  IN  IF t.exact THEN decFinish(Work(zero, 0, status), set)
      ELSE RemainderNonzero(lhs, t.q, (lhs.coef * TenTo[lhs.exp - e]) % y, y, e,
                            op, set, status)

\* t is the quotient at e, where the loop ended.
DivideEnd(lhs, rhs, t, e, op, set, status) ==
  LET neg == lhs.neg # rhs.neg
  IN  CASE op = "Divide" -> QuotientResult(neg, t, e, lhs.exp - rhs.exp, set, status)
        [] op # "Divide" /\ CountDigits(t.q) + e > set.digits ->
             Work(decNumberZero, 0, status \cup {"Division_impossible"})
        [] OTHER -> IF Remains(op) THEN RemainderResult(lhs, rhs, t, op, set, status)
                    ELSE DivideResult(neg, t.q, e, 0, set, status)

LongDivide(lhs, rhs, e, op, set, status) ==
  DivideEnd(lhs, rhs, QuotientAt(lhs, rhs, e), e, op, set, status)

\* Finite operands, neither of them zero.  A quotient below one is known.
DivideFinite(lhs, rhs, op, set, status) ==
  LET adjusted == (lhs.exp + lhs.digits) - (rhs.exp + rhs.digits)
  IN  CASE adjusted < 0 /\ op = "DivideInteger" ->
             Work([decNumberZero EXCEPT
                     !.neg = set.extended /\ lhs.neg # rhs.neg], 0, status)
        [] /\ adjusted < 0 /\ Remains(op) /\ lhs.exp <= rhs.exp
           /\ (op = "Remainder" \/ adjusted < -1) ->
             decFinish(decCopyFit(lhs, set.digits, 0, status), set)
        [] OTHER -> LongDivide(lhs, rhs, LastExponent(lhs, rhs, op, set), op, set, status)

DivideOperands(o, op, set) ==
  CASE IsNaN(o.lhs) \/ IsNaN(o.rhs) -> decNaNs(o.lhs, o.rhs, set, o.status)
    [] ~IsNaN(o.lhs) /\ ~IsNaN(o.rhs) /\ (IsSpecial(o.lhs) \/ IsSpecial(o.rhs)) ->
         DivideInfinite(o.lhs, o.rhs, op, set, o.status)
    [] OTHER ->
         IF ISZERO(o.rhs)
         THEN DivideByZero(o.lhs, o.lhs.neg # o.rhs.neg, op, o.status)
         ELSE IF ISZERO(o.lhs) THEN DivideZero(o.lhs, o.rhs, op, set, o.status)
         ELSE DivideFinite(o.lhs, o.rhs, op, set, o.status)

decDivideOp(l, r, set, op, st) ==
  DivideOperands(SubsetOperands(l, r, set, st), op, set)

decNumberDivide(l, r, set) == Done(decDivideOp(l, r, set, "Divide", {}))
decNumberDivideInteger(l, r, set) == Done(decDivideOp(l, r, set, "DivideInteger", {}))
decNumberRemainder(l, r, set) == Done(decDivideOp(l, r, set, "Remainder", {}))
decNumberRemainderNear(l, r, set) == Done(decDivideOp(l, r, set, "RemainderNear", {}))
=============================================================================
