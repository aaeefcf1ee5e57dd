----------------------------- MODULE DecRounding -----------------------------
(***************************************************************************)
(* The rounding chain every operation of decNumber.c ends in: setting a    *)
(* coefficient, applying the residue, and the final range checks.          *)
(*                                                                         *)
(* The C routines update a number, a residue and a status accumulator      *)
(* through pointers.  Here each one maps a work record                     *)
(*   [n: the number, residue: Int, status: the accumulator]                *)
(* to the record the C code leaves behind.                                 *)
(***************************************************************************)
EXTENDS DecTypes

Work(n, residue, status) == [n |-> n, residue |-> residue, status |-> status]

\* w with another number, and w with more flags.
Holding(w, n) == Work(n, w.residue, w.status)
Flagged(w, flags) == Work(w.n, w.residue, w.status \cup flags)

When(c, flags) == IF c THEN flags ELSE {}

\* resmap of decSetCoeff: a guard digit as a canonical residue.
resmap(d) == CASE d = 0 -> 0 [] d \in 1 .. 4 -> 3 [] d = 5 -> 5 [] OTHER -> 7

\* decShiftToMost: pad with shift zeros on the right.
decShiftToMost(n, shift) == [n EXCEPT !.coef = @ * TenTo[shift],
                                      !.digits = @ + shift]

(***************************************************************************)
(* The residue after dropping the lowest `discard' digits (at least one,   *)
(* at most all).  A drop that ends on a Unit boundary compares the whole   *)
(* Unit with one half; any other looks at the guard digit.                 *)
(***************************************************************************)
BoundaryResidue(coef, discard, old) ==
  LET half == (TenTo[DECDPUN]) \div 2
      unit == (coef \div TenTo[discard - DECDPUN]) % TenTo[DECDPUN]
      sticky == IF coef % TenTo[discard - DECDPUN] # 0 THEN 1 ELSE old
  IN  CASE unit > half -> 7
        [] unit = half -> sticky + 5
        [] unit < half /\ unit # 0 -> 3
        [] OTHER -> sticky

\* (mutant) The digits below the guard digit are forgotten.
GuardAlone(coef, discard, old) == old + resmap((coef \div TenTo[discard - 1]) % 10)

GuardResidue(coef, discard, old) ==
  LET sticky == IF coef % TenTo[discard - 1] # 0 THEN 1 ELSE old
  IN  sticky + resmap((coef \div TenTo[discard - 1]) % 10)

DropResidue(coef, discard, old) ==
  IF discard % DECDPUN = 0 THEN BoundaryResidue(coef, discard, old)
                           ELSE GuardResidue(coef, discard, old)

\* Anything left over makes the number inexact.
Inexactly(w) == Flagged(w, When(w.residue # 0, {"Inexact", "Rounded"}))

\* decSetCoeff: w.n takes the coefficient `coef' of `len' digits, shortened
\* to `length' digits (set->digits; less than one when called for rounding
\* to the left).
decSetCoeff(w, length, coef, len) ==
  LET discard == len - length
      old == IF w.residue > 1 THEN 1 ELSE w.residue
      res == IF discard > len
             THEN IF old <= 0 /\ coef # 0 THEN 1 ELSE old
             ELSE DropResidue(coef, discard, old)
      short == [w.n EXCEPT !.coef = IF length <= 0 THEN 0 ELSE coef \div TenTo[discard],
                           !.digits = IF length <= 0 THEN 1 ELSE length,
                           !.exp = @ + discard]
  IN  Inexactly(
        IF discard <= 0
        THEN Holding(w, [w.n EXCEPT !.coef = coef, !.digits = len])
        ELSE Work(short, res, w.status \cup {"Rounded"}))

\* decCopyFit: copy src, truncated to `length' digits.
decCopyFit(src, length, residue, status) ==
  decSetCoeff(Work(src, residue, status), length, src.coef, src.digits)

\* decSetMaxValue.
decSetMaxValue(set) == [decNumberZero EXCEPT !.digits = set.digits,
                          !.coef = TenTo[set.digits] - 1, !.exp = Etop(set)]

\* decSetOverflow: a zero is clamped, anything else becomes infinity or Nmax.
decSetOverflow(w, set) ==
  LET limit == IF set.clamp THEN Etop(set) ELSE set.emax
      needmax == \/ set.round \in {"DOWN", "05UP"}
                 \/ set.round = "CEILING" /\ w.n.neg
                 \/ set.round = "FLOOR" /\ ~w.n.neg
      big == IF needmax THEN decSetMaxValue(set)
                        ELSE [decNumberZero EXCEPT !.kind = "inf"]
  IN  IF ISZERO(w.n)
      THEN IF w.n.exp > limit
           THEN Flagged(Holding(w, [w.n EXCEPT !.exp = limit]), {"Clamped"})
           ELSE w
      ELSE Flagged(Holding(w, [big EXCEPT !.neg = w.n.neg]),
                   {"Overflow", "Inexact", "Rounded"})

\* The direction decApplyRound moves the coefficient in.
bump(n, round, residue) ==
  LET up == residue > 0
      down == residue < 0
      odd == n.coef % 2 = 1
      lsd5 == n.coef % 5
      inc == CASE round = "05UP" -> up /\ lsd5 = 0
               [] round = "DOWN" -> FALSE
               [] round = "HALF_DOWN" -> residue > 5
               [] round = "HALF_EVEN" -> residue > 5 \/ (residue = 5 /\ odd)
               [] round = "HALF_UP" -> residue >= 5
               [] round = "UP" -> up
               [] round = "CEILING" -> up /\ ~n.neg
               [] round = "FLOOR" -> up /\ n.neg
      dec == CASE round = "05UP" -> down /\ lsd5 # 1
               [] round = "DOWN" -> down
               [] round = "CEILING" -> down /\ n.neg
               [] round = "FLOOR" -> down /\ ~n.neg
               [] OTHER -> FALSE
  IN  IF inc THEN 1 ELSE IF dec THEN -1 ELSE 0

\* (mutant) The exponent is compared, not the adjusted exponent.
ExponentTooBig(n, set) == n.exp > set.emax

\* Does n overflow?
TooBig(n, set) == n.exp + n.digits > set.emax + 1

\* (mutant) The coefficient is incremented past its digits.
BumpOver(w, set) == Holding(w, [w.n EXCEPT !.coef = @ + 1])

\* 999.. bumped up: the exponent moves, and may now be too high.
BumpNines(w, set) ==
  LET r == Holding(w, [w.n EXCEPT !.coef = TenTo[w.n.digits - 1], !.exp = @ + 1])
  IN  IF TooBig(r.n, set) THEN decSetOverflow(r, set) ELSE r

\* (mutant) A single digit is taken away too.
NoDigitLeft(n) == [n EXCEPT !.coef = TenTo[n.digits - 1] - 1, !.digits = @ - 1]

\* 1000.. bumped down at the lowest exponent: one nine less, and at least a zero.
NinesBelow(n) == [n EXCEPT !.coef = TenTo[n.digits - 1] - 1,
                           !.digits = IF @ = 1 THEN 1 ELSE @ - 1]

\* 1000.. bumped down: the exponent moves, and if it drops below Etiny the
\* last nine goes.
BumpHundreds(w, set) ==
  LET nines == [w.n EXCEPT !.coef = TenTo[w.n.digits] - 1, !.exp = @ - 1]
  IN  IF w.n.exp # Etiny(set) THEN Holding(w, nines)
      ELSE Flagged(Holding(w, NinesBelow(w.n)),
                   {"Underflow", "Subnormal", "Inexact", "Rounded"})

\* w with its coefficient moved by b.
Bumped(w, b, set) ==
  CASE b = 0 -> w
    [] b = 1 /\ w.n.coef = TenTo[w.n.digits] - 1 -> BumpNines(w, set)
    [] b = -1 /\ w.n.coef = TenTo[w.n.digits - 1] -> BumpHundreds(w, set)
    [] OTHER -> Holding(w, [w.n EXCEPT !.coef = @ + b])

\* decApplyRound: the number keeps its length.
decApplyRound(w, set) ==
  Bumped(w, IF w.residue = 0 THEN 0 ELSE bump(w.n, set.round, w.residue), set)

\* (mutant) Every subnormal underflows.
UnderflowAlways(w) == Flagged(w, {"Underflow"})

\* A subnormal underflows when it is inexact.
Underflowed(w) == Flagged(w, When("Inexact" \in w.status, {"Underflow"}))

\* After a carry that raised the exponent: one more digit brings it back.
ShiftBack(n, exp) == IF n.exp > exp THEN [decShiftToMost(n, 1) EXCEPT !.exp = @ - 1]
                                    ELSE n

\* What the rounding at Etiny leaves.
AtEtiny(r, etiny) ==
  LET n == ShiftBack(r.n, etiny)
  IN  Flagged(Holding(Underflowed(r), n), When(ISZERO(n), {"Clamped"}))

\* decSetSubnormal: zeros are clamped to Etiny, other values rounded to it.
\* Subset arithmetic underflows to zero.
decSetSubnormal(w, set) ==
  LET etiny == Etiny(set)
      adjust == etiny - w.n.exp
      sub == Flagged(w, {"Subnormal"})
      length == w.n.digits - adjust
      \* digits and emin both give way, so Etiny of the work context is where
      \* a number of as many digits as w.n becomes subnormal
      workset == [set EXCEPT !.digits = length, !.emin = @ - adjust]
  IN  CASE ~set.extended ->
             Flagged(Holding(w, decNumberZero),
                     {"Underflow", "Subnormal", "Inexact", "Rounded"})
        [] set.extended /\ ISZERO(w.n) ->
             IF w.n.exp < etiny
             THEN Flagged(Holding(w, [w.n EXCEPT !.exp = etiny]), {"Clamped"})
             ELSE w
        [] set.extended /\ ~ISZERO(w.n) /\ adjust <= 0 -> Underflowed(sub)
        [] OTHER -> AtEtiny(decApplyRound(decSetCoeff(sub, length, w.n.coef, w.n.digits),
                                          workset), etiny)

\* The fold-down of an exponent above Etop.
FoldDown(w, set) ==
  LET shift == w.n.exp - Etop(set)
      n == IF ISZERO(w.n) THEN w.n ELSE decShiftToMost(w.n, shift)
  IN  Flagged(Holding(w, [n EXCEPT !.exp = Etop(set)]), {"Clamped"})

\* The overflow test and the clamp.
WithinRange(r, set) ==
  CASE r.n.exp <= Etop(set) -> r
    [] TooBig(r.n, set) -> decSetOverflow(r, set)
    [] OTHER -> IF set.clamp THEN FoldDown(r, set) ELSE r

\* The end of decFinalize: a number below the normal ones, or the range checks.
InRange(r, below, set) == IF below THEN decSetSubnormal(r, set) ELSE WithinRange(r, set)

\* decFinalize: subnormal test, pending round, overflow test, clamp.
decFinalize(w, set) ==
  LET tinyexp == set.emin - w.n.digits + 1
      tiny == w.n.exp < tinyexp
      \* dn is 10^emin, and the residue takes it below
      belowNmin == /\ w.n.exp = tinyexp
                   /\ w.residue < 0
                   /\ w.n.coef = TenTo[w.n.digits - 1]
  IN  InRange(IF tiny THEN w ELSE decApplyRound(w, set), tiny \/ belowNmin, set)

\* decFinish: subset arithmetic cleans zeros and reduces small integers.
decFinish(w, set) ==
  LET reducible == /\ ~set.extended
                   /\ w.n.exp >= 0
                   /\ set.digits >= w.n.exp + w.n.digits
      reduced == [decShiftToMost(w.n, w.n.exp) EXCEPT !.exp = 0]
  IN  IF ~set.extended /\ ISZERO(w.n)
      THEN Holding(w, [w.n EXCEPT !.exp = 0, !.neg = FALSE, !.kind = "fin"])
      ELSE decFinalize(IF reducible THEN Holding(w, reduced) ELSE w, set)

(***************************************************************************)
(* Operands.                                                               *)
(***************************************************************************)
\* (mutant) No rounding loses digits.
LostNever(status) == {}

\* What the rounding of an operand loses.
Lost(status) == When("Inexact" \in status, {"Lost_digits"})

\* An operand [n, status] after rounding.
RoundedOperand(r, status) ==
  [n |-> r.n, status |-> status \cup r.status \cup Lost(r.status)]

\* decRoundOperand: subset arithmetic rounds a long operand first.
decRoundOperand(n, set, status) ==
  RoundedOperand(decApplyRound(decCopyFit(n, set.digits, 0, {}), set), status)

\* An operand as an operation sees it.
SubsetOperand(n, set, status) ==
  IF ~set.extended /\ n.digits > set.digits THEN decRoundOperand(n, set, status)
                                            ELSE [n |-> n, status |-> status]

\* Both operands, the left one first.
Operands(l, r) == [lhs |-> l, rhs |-> r.n, status |-> r.status]
WithRight(l, rhs, set) == Operands(l.n, SubsetOperand(rhs, set, l.status))
SubsetOperands(lhs, rhs, set, status) ==
  WithRight(SubsetOperand(lhs, set, status), rhs, set)

\* decNaNs: the NaN to propagate (the left signalling one first), its
\* payload shortened to the context.
decNaNs(lhs, rhs, set, status) ==
  LET src == CASE lhs.kind = "snan" -> lhs
               [] lhs.kind # "snan" /\ rhs.kind = "snan" -> rhs
               [] lhs.kind = "nan" /\ rhs.kind # "snan" -> lhs
               [] OTHER -> rhs
      units == ((set.digits + DECDPUN - 1) \div DECDPUN) * DECDPUN
      kept == src.coef % TenTo[set.digits]
      long == src.digits > set.digits
      \* whole Units: no decapitation, so leading zeros stay
      digits == IF units > set.digits THEN decGetDigits(kept, set.digits)
                                      ELSE set.digits
      payload == [neg |-> src.neg, kind |-> "nan", exp |-> 0,
                  coef |-> IF long THEN kept ELSE src.coef,
                  digits |-> IF long THEN digits ELSE src.digits]
  IN  Work(payload, 0,
           status \cup When(src.kind = "snan", {"Invalid_operation", "sNaN"}))

\* decStatus, up to the update of the context: an error becomes a NaN.
decStatus(n, status) ==
  LET broken == status \cap DEC_NaNs # {} /\ "sNaN" \notin status
  IN  [n |-> IF broken THEN [decNumberZero EXCEPT !.kind = "nan"] ELSE n,
       status |-> status \ {"sNaN"}]
=============================================================================
