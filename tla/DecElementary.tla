---------------------------- MODULE DecElementary ----------------------------
(***************************************************************************)
(* Square root, power, exponential and logarithms.                         *)
(*                                                                         *)
(* The square root does not follow Newton's method: the root is corrected  *)
(* from any approximation as good as the method's comment says it is.      *)
(* The exponential, and powers by an integer, are computed as in the code. *)
(* Logarithms are those the code knows without iterating; a power by a     *)
(* number that is not an integer, which needs a logarithm, is left out.    *)
(***************************************************************************)
EXTENDS DecDigits

CONSTANTS RootDigits,    \* of an approximation to a square root
          RootError,     \* and its error, in units of the last of them
          ROOTP          \* least working precision of a square root (7)

ASSUME RootAssumption == RootDigits \in Nat \ {0} /\ RootError \in Nat /\ ROOTP \in Nat

\* The clean context (that of decimal64) the routines work in.
Working(digits, round) ==
  [digits |-> digits, emax |-> DECNUMMAXE, emin |-> -DECNUMMAXE, round |-> round,
   traps |-> {}, status |-> {}, clamp |-> TRUE, extended |-> TRUE]

One == [decNumberZero EXCEPT !.coef = 1]
Raised(n, by) == [n EXCEPT !.exp = @ + by]
Inexactness == {"Inexact", "Rounded"}

\* One with zeros down to the precision, "deemed inexact".
PaddedOne(set, status) ==
  Work([decShiftToMost(One, set.digits - 1) EXCEPT !.exp = 1 - set.digits], 0,
       status \cup Inexactness)

(***************************************************************************)
(* Square root.                                                            *)
(***************************************************************************)
\* The operand as a fraction f in 0.01 .. 1 times 10^e, where e is even.
RootExponent(n) == n.exp + n.digits + ((n.exp + n.digits) % 2)
Fraction(n) == Raised(n, -RootExponent(n))

\* The exponent an exact root should have.
IdealRoot(n) == n.exp \div 2

\* The digits of the root of an integer of 2 * RootDigits digits, from the top.
RootDigitsOf(square) ==
  LET root[k \in 0 .. RootDigits] ==
        IF k = 0 THEN 0
        ELSE CHOOSE c \in 10 * root[k - 1] .. 10 * root[k - 1] + 9 :
               LET part == square \div 100^(RootDigits - k)
               IN  c * c <= part /\ part < (c + 1) * (c + 1)
  IN  root[RootDigits]

\* Approximations to the root of f, in 0.1 .. 1.  An exact root is found, and
\* may be shorter, but for the zeros the ideal exponent asks for.
Approximations(n) ==
  LET f == Fraction(n)
      square == f.coef * 10^(2 * RootDigits + f.exp)
      root == RootDigitsOf(square)
      exponent == RootExponent(n) \div 2 - RootDigits
      zeros == {j \in 0 .. RootDigits - 1 :
                  root % 10^j = 0 /\ (j > 0 => exponent + j <= IdealRoot(n))}
      cut(c, j) == [decNumberZero EXCEPT !.coef = c \div 10^j,
                      !.digits = RootDigits - j, !.exp = j - RootDigits]
  IN  IF root * root = square THEN {cut(root, j) : j \in zeros}
      ELSE {cut(c, 0) : c \in Greater(root + 1 - RootError, 10^(RootDigits - 1))
                                .. Lesser(root + RootError, 10^RootDigits - 1)}

RootPrecision(n, set) == Greater(Greater(set.digits + 1, n.digits), ROOTP)

\* b * b, rounded in the given direction, against f.
SquareAgainst(b, f, w) == decCompare(decMultiplyOp(b, b, w, {}).n, f, FALSE)

\* (mutant) The approximation is taken as it is.
Uncorrected(a, f, p, set) == a

\* a with a digit of its last place, or half of one, added or taken.
Moved(a, digit, place, minus, w) ==
  decAddOp(a, [One EXCEPT !.coef = digit, !.exp = place], w, minus, {}).n

\* What moves a: its last unit off, on, or nothing.
HullStep(a, f, w) ==
  IF SquareAgainst(Moved(a, 5, -a.digits - 1, TRUE, w), f, [w EXCEPT !.round = "UP"]) > 0
  THEN -1
  ELSE IF SquareAgainst(Moved(a, 5, -a.digits - 1, FALSE, w), f, [w EXCEPT !.round = "DOWN"]) < 0
  THEN 1
  ELSE 0

\* The Hull correction: a, in 0.1 .. 1, moved by one unit of its last place if
\* the root lies more than half a unit off.
MovedBy(a, step, w, set) ==
  IF step = 0 THEN a
  ELSE decAddOp(decNumberZero, Moved(a, 1, -a.digits, step < 0, w), set, FALSE, {}).n
Corrected(a, f, p, set) ==
  MovedBy(a, HullStep(a, f, Working(p + 1, "UP")), Working(p + 1, "UP"), set)

\* The root a is exact: it takes the exponent closest to the ideal one.
ExactRoot(a, dropped, ideal, set, st) ==
  LET wanted == ideal - a.exp
      most == Etop(set) - a.exp
      clamped == IF wanted > most /\ set.clamp THEN most ELSE wanted
      drop == Lesser(clamped, dropped)
  IN  IF wanted < 0 THEN Work(a, 0, st \cup {"Rounded"})
      ELSE Work(IF drop > 0 THEN [a EXCEPT !.coef = @ \div 10^drop, !.exp = @ + drop,
                                           !.digits = @ - drop] ELSE a,
                0, st \cup When(drop < wanted, {"Clamped"}))

\* A root can be exact only if it is so short that its square fits.
IsSquare(square, n) == "Overflow" \notin square.status /\ decCompare(square.n, n, FALSE) = 0

ShortRoot(n, a, short, set, st) ==
  IF /\ short.digits * 2 - 1 <= RootPrecision(n, set)
     /\ IsSquare(decMultiplyOp(short, short, Working(RootPrecision(n, set) + 1, "DOWN"), {}), n)
  THEN ExactRoot(a, a.digits - short.digits, IdealRoot(n), set, st)
  ELSE Work(a, 0, st \cup Inexactness)
RootExactness(n, a, set, st) == ShortRoot(n, a, decTrim(a, set, TRUE, TRUE), set, st)

\* A root may turn out not to be subnormal, or to be exact.
RecheckUnderflow(w, n, set) ==
  LET far == n.exp + n.digits - 1 >= 2 * set.emin
      flags == CASE "Underflow" \notin w.status -> {}
                 [] "Underflow" \in w.status /\ far -> {"Underflow", "Subnormal"}
                 [] OTHER -> When("Inexact" \notin w.status, {"Underflow"})
  IN  Work(w.n, w.residue, w.status \ flags)

\* first is the approximation at the final precision.
RootNear(n, first, half, set, st) ==
  LET shifted == [set EXCEPT !.round = "HALF_EVEN", !.emin = @ - half, !.emax = @ - half]
  IN  IF "Overflow" \in first.status THEN first
      ELSE RecheckUnderflow(
             RootExactness(n, Raised(Corrected(Raised(first.n, -half), Fraction(n),
                                               RootPrecision(n, set), shifted), half),
                           set, st \cup (first.status \ Inexactness)), n, set)

\* The root of a positive number, from an approximation.
RootFrom(n, approx, set, st) ==
  LET half == RootExponent(n) \div 2
  IN  RootNear(n, decFinish(decCopyFit(Raised(approx, half), set.digits, 0, {}),
                            [set EXCEPT !.round = "HALF_EVEN"]), half, set, st)

RootOperand(o, approx, set) ==
  CASE o.n.kind = "inf" -> IF o.n.neg THEN Invalid(o.status) ELSE Work(o.n, 0, o.status)
    [] IsNaN(o.n) -> decNaNs(o.n, o.n, set, o.status)
    [] ISZERO(o.n) -> decFinish(Work([o.n EXCEPT !.exp = IdealRoot(o.n)], 0, o.status), set)
    [] OTHER -> IF o.n.neg THEN Invalid(o.status)
                ELSE RootFrom(o.n, approx, set, o.status)

decNumberSquareRoot(n, approx, set) == Done(RootOperand(SubsetOperand(n, set, {}), approx, set))

\* The approximations that may come up for an operand.
RootChoices(n, set) ==
  LET m == SubsetOperand(n, set, {}).n
  IN  IF m.kind = "fin" /\ m.coef # 0 THEN Approximations(m) ELSE {decNumberZero}

(***************************************************************************)
(* Powers.                                                                 *)
(***************************************************************************)
\* Once the accumulator has overflowed, or underflowed to zero, it stays.
Abandoned(w) == \/ "Overflow" \in w.status
                \/ "Underflow" \in w.status /\ ISZERO(w.n)

Times(w, n, aset) == decMultiplyOp(w.n, n, aset, w.status)

\* The accumulator is multiplied by the base for a bit that is set, and then
\* squared, but for the last bit.
Multiplied(w, base, bit, aset) == IF bit = 1 THEN Times(w, base, aset) ELSE w
Squared(w, lastbit, aset) == IF lastbit THEN w ELSE Times(w, w.n, aset)
ForBit(w, base, bit, lastbit, aset) ==
  IF Abandoned(w) THEN w ELSE Squared(Multiplied(w, base, bit, aset), lastbit, aset)

\* base^m by squaring, from the top bit of m > 0.
RaiseToPower(base, m, aset, st) ==
  LET top == CHOOSE k \in 0 .. 29 : 2^k <= m /\ m < 2^(k + 1)
      after[j \in -1 .. top] ==
        IF j = -1 THEN Work(One, 0, st)
        ELSE ForBit(after[j - 1], base, (m \div 2^(top - j)) % 2, j = top, aset)
  IN  after[top]

Integral(n) == n.exp >= 0 \/ n.coef % 10^(-n.exp) = 0
IsOdd(n) == n.exp <= 0 /\ Integral(n) /\ (n.coef \div 10^(-n.exp)) % 2 = 1

\* The power can be taken by squaring (the exponent fits an Int).
UsesInteger(r) == decGetInt(r) # BADINT

\* x ** (+/-)Infinity, for x no NaN.
PowerInfinite(lhs, rhs, set, st) ==
  LET against == decCompare(lhs, One, FALSE)
      grows == IF rhs.neg THEN against < 0 ELSE against > 0
  IN  IF lhs.neg /\ ~ISZERO(lhs) THEN Invalid(st)
      ELSE IF against = 0 THEN PaddedOne(set, st)
      ELSE Work(IF grows THEN Infinity(FALSE) ELSE decNumberZero, 0, st)

\* (+/-)Infinity ** y, for y finite.
InfinitePower(lhs, rhs, st) ==
  LET neg == lhs.neg /\ IsOdd(rhs)
  IN  IF decGetInt(rhs) = 0 THEN Work(One, 0, st)
      ELSE IF ~Integral(rhs) /\ lhs.neg THEN Invalid(st)
      ELSE Work(IF rhs.neg THEN [decNumberZero EXCEPT !.neg = neg] ELSE Infinity(neg), 0, st)

\* 0 ** y, for y finite.
ZeroPower(lhs, rhs, set, st) ==
  LET neg == lhs.neg /\ IsOdd(rhs)
  IN  IF decGetInt(rhs) = 0
      THEN IF set.extended THEN Invalid(st) ELSE Work(One, 0, st)
      ELSE IF ~rhs.neg THEN Work([decNumberZero EXCEPT !.neg = neg], 0, st)
      ELSE IF set.extended THEN Work(Infinity(neg), 0, st) ELSE Invalid(st)

\* (mutant) No digits to spare.
PowerDigitsExact(r, set) == set.digits

\* The working precision: room for the error of as many squarings as y takes.
PowerDigits(r, set) == set.digits + r.digits + r.exp + (IF set.extended THEN 2 ELSE 1)

\* In subset arithmetic the inverse is still to come: it reverses the excess.
Reversed(status) ==
  IF "Overflow" \in status
  THEN (status \ {"Overflow", "Underflow", "Subnormal"})
         \cup ({"Underflow", "Subnormal"} \ status)
  ELSE (status \ {"Underflow", "Subnormal"}) \cup {"Overflow"}

\* After an internal overflow or underflow.
PowerExcess(w, neg, inverts, set) ==
  decFinalize(Work([w.n EXCEPT !.neg = neg], 0,
                   IF inverts THEN Reversed(w.status) ELSE w.status), set)

TrimmedSubset(r, set) == IF set.extended THEN r ELSE Holding(r, decTrim(r.n, set, FALSE, TRUE))

\* The power, or (in subset arithmetic) its inverse, reduced to the precision.
Fit(r, set) == decFinish(decCopyFit(r.n, set.digits, 0, r.status), set)
PowerFits(w, inverts, aset, set) ==
  TrimmedSubset(Fit(IF inverts THEN decDivideOp(One, w.n, aset, "Divide", w.status)
                               ELSE w, set), set)

PowerEnd(w, neg, inverts, aset, set) ==
  IF w.status \cap {"Overflow", "Underflow"} # {} THEN PowerExcess(w, neg, inverts, set)
                                                 ELSE PowerFits(w, inverts, aset, set)

\* base is what the squarings start from.
PowerOf(base, n, aset) == RaiseToPower(base.n, IF n < 0 THEN -n ELSE n, aset, base.status)

PowerBase(lhs, inverse, aset, st) ==
  IF inverse THEN decDivideOp(One, lhs, aset, "Divide", st) ELSE Work(lhs, 0, st)

\* x ** y for y an integer other than zero.  A negative power is that of the
\* inverse, or, in subset arithmetic, the inverse of the power.
IntegerPower(lhs, rhs, set, st) ==
  LET aset == [set EXCEPT !.round = "HALF_EVEN", !.digits = PowerDigits(rhs, set)]
      n == decGetInt(rhs)
  IN  IF aset.digits > DECNUMMAXE THEN Invalid(st)
      ELSE PowerEnd(PowerOf(PowerBase(lhs, n < 0 /\ set.extended, aset, st), n, aset),
                    lhs.neg /\ IsOdd(rhs), n < 0 /\ ~set.extended, aset, set)

\* What restrictions on a power by no integer it breaks.
PowerMath(lhs, rhs, set) ==
  IF lhs.neg THEN {"Invalid_operation"}
  ELSE IF decCheckMath(lhs, set) # {} THEN decCheckMath(lhs, set)
  ELSE decCheckMath(rhs, set)

PowerFinite(o, set) ==
  CASE ISZERO(o.lhs) -> ZeroPower(o.lhs, o.rhs, set, o.status)
    [] ~ISZERO(o.lhs) /\ ~UsesInteger(o.rhs) ->
         Work(decNumberZero, 0, o.status \cup PowerMath(o.lhs, o.rhs, set))
    [] OTHER -> IF decGetInt(o.rhs) = 0 THEN Work(One, 0, o.status)
                ELSE IntegerPower(o.lhs, o.rhs, set, o.status)

PowerOperands(o, set) ==
  CASE IsNaN(o.lhs) \/ IsNaN(o.rhs) -> decNaNs(o.lhs, o.rhs, set, o.status)
    [] ~IsNaN(o.lhs) /\ o.rhs.kind = "inf" -> PowerInfinite(o.lhs, o.rhs, set, o.status)
    [] o.lhs.kind = "inf" /\ o.rhs.kind = "fin" -> InfinitePower(o.lhs, o.rhs, o.status)
    [] OTHER -> PowerFinite(o, set)

decNumberPower(l, r, set) == Done(PowerOperands(SubsetOperands(l, r, set, {}), set))

\* The power needs a logarithm, and is not one of those above.
NeedsLogarithm(l, r, set) ==
  LET o == SubsetOperands(l, r, set, {})
  IN  /\ o.lhs.kind = "fin" /\ o.rhs.kind = "fin"
      /\ ~ISZERO(o.lhs) /\ ~UsesInteger(o.rhs)
      /\ PowerMath(o.lhs, o.rhs, set) = {}

(***************************************************************************)
(* The exponential.                                                        *)
(***************************************************************************)
\* So close to zero that e^n is one: the digit 4 just beyond the precision.
IsTiny(n, set) ==
  decCompare([One EXCEPT !.coef = 4, !.exp = -set.digits - (IF n.neg THEN 1 ELSE 0)],
             n, TRUE) >= 0

\* The accumulator has the bounds of the context.
ExpContext(digits, set) ==
  [Working(digits, "HALF_EVEN") EXCEPT !.emax = set.emax, !.emin = set.emin, !.clamp = FALSE]

\* Up to h digits before the point, the operand is divided by 10^h, h in 0 .. 8.
Reduction(n) == LET h == n.exp + n.digits
                IN  h + Lesser(8 - h, IF n.digits > 8 THEN 1 ELSE 0)
PowerOfE(n) == Greater(Reduction(n), 0)
Reduce(n) == [n EXCEPT !.exp = @ - PowerOfE(n)]

ExpDigits(n, set) == Greater(n.digits, set.digits) + PowerOfE(n) + 2

\* (mutant) The series ends with the first term below the accumulator.
ConvergedEarly(s, p) == s.a.digits + s.a.exp >= s.t.digits + s.t.exp + 1

\* The next term, t, cannot affect p digits of the sum a.
Converged(s, p) == s.a.digits + s.a.exp >= s.t.digits + s.t.exp + p + 1 /\ s.a.digits >= p

\* The sum with the term s.t, and the next term.
Turned(sum, t, d) == [a |-> sum.n, t |-> t, d |-> d + 1, status |-> sum.status]
NextTerm(t, x, d, tset) ==
  decDivideOp(decMultiplyOp(t, x, tset, {}).n, Integer(d), tset, "Divide", {}).n
Turn(s, x, p, set) ==
  Turned(decAddOp(s.a, s.t, ExpContext(2 * p, set), FALSE, s.status),
         NextTerm(s.t, x, s.d, Working(p, "HALF_EVEN")), s.d)

NextTurn(s, x, p, set) == IF s.d > 2 /\ Converged(s, p) THEN s ELSE Turn(s, x, p, set)

\* 1 + x + x^2/2 + ...; the code expects no more than p + 3 turns.
Series(x, p, set, st) ==
  LET after[i \in 0 .. p + 3] ==
        IF i = 0 THEN [a |-> One, t |-> x, d |-> 2, status |-> st]
        ELSE NextTurn(after[i - 1], x, p, set)
  IN  after[p + 3]

\* The sum s of the series, raised to the power that undoes the reduction.
Unreduced(s, by, p, set) ==
  IF by = 0 THEN Work(s.a, 0, s.status)
            ELSE RaiseToPower(s.a, 10^by, ExpContext(p + 2, set), s.status)

\* With more than 8 digits before the point the result is bound to overflow,
\* or to underflow: as a power of 2 or 0.02.
HugePower(neg, set, st) ==
  RaiseToPower([One EXCEPT !.coef = 2, !.exp = IF neg THEN -2 ELSE 0], 10^8,
               ExpContext(11, set), st)

\* e^n before the last rounding.
Exponential(n, p, set, st) ==
  IF n.exp + n.digits > 8 THEN HugePower(n.neg, set, st)
  ELSE Unreduced(Series(Reduce(n), p, set, st), PowerOfE(n), p, set)

\* The digits cut off are rounded in the direction of the context.
ExpResult(w, set) ==
  decFinish(decCopyFit(w.n, set.digits, IF ISZERO(w.n) THEN 0 ELSE 1, w.status), set)

decExpOp(n, set, st) ==
  CASE n.kind = "inf" -> Work(IF n.neg THEN decNumberZero ELSE n, 0, st)
    [] IsNaN(n) -> decNaNs(n, n, set, st)
    [] ISZERO(n) -> Work(One, 0, st)
    [] OTHER -> IF IsTiny(n, set) THEN PaddedOne(set, st)
                ELSE ExpResult(Exponential(n, ExpDigits(n, set), set, st), set)

\* The restrictions come before the rounding of the operand.
decNumberExp(n, set) ==
  LET o == SubsetOperand(n, set, {})
  IN  Done(IF decCheckMath(n, set) # {} THEN Work(decNumberZero, 0, decCheckMath(n, set))
           ELSE decExpOp(o.n, set, o.status))

(***************************************************************************)
(* Logarithms, where no iteration is needed.                               *)
(***************************************************************************)
\* ln(10) and ln(2) as the code knows them, here to nine digits and a residue.
LN10 == [decNumberZero EXCEPT !.coef = 230258509, !.digits = 9, !.exp = -8]
LN2 == [decNumberZero EXCEPT !.coef = 693147180, !.digits = 9, !.exp = -9]

InTable(n) == n.exp = 0 /\ n.coef \in {2, 10} /\ n.digits = CountDigits(n.coef)

\* (Only the inexactness of reading the table is kept.)
FromTable(n, set, st) ==
  Work(decFinalize(decCopyFit(IF n.coef = 10 THEN LN10 ELSE LN2, set.digits, 1, {}),
                   [set EXCEPT !.round = "HALF_EVEN"]).n, 0, st \cup Inexactness)

decLnOp(n, set, st) ==
  CASE n.kind = "inf" -> IF n.neg THEN Invalid(st) ELSE Work(n, 0, st)
    [] IsNaN(n) -> decNaNs(n, n, set, st)
    [] ISZERO(n) -> Work(Infinity(TRUE), 0, st)
    [] OTHER -> IF n.neg THEN Invalid(st) ELSE FromTable(n, set, st)

\* A logarithm as Ln and Log10 start, w being its result: no zeros in subset
\* arithmetic.
Logarithm(n, o, set, w) ==
  Done(CASE decCheckMath(n, set) # {} -> Work(decNumberZero, 0, decCheckMath(n, set))
         [] decCheckMath(n, set) = {} /\ ~set.extended /\ ISZERO(o.n) -> Invalid(o.status)
         [] OTHER -> w)

decNumberLn(n, set) ==
  LET o == SubsetOperand(n, set, {})
  IN  Logarithm(n, o, set, decLnOp(o.n, set, o.status))

\* A number whose first digit is one and all.
IsPowerOfTen(n) ==
  LET w == decCopyFit(n, 1, 0, {})
  IN  n.kind = "fin" /\ ~n.neg /\ "Inexact" \notin w.status /\ w.n.coef = 1

\* The exponent of a power of ten may be longer than the precision.
PowerOfTen(n, set, st) ==
  decFinish(decCopyFit(decNumberFromInt32(decCopyFit(n, 1, 0, {}).n.exp),
                       set.digits, 0, st), set)

\* What ln(n) is computed with.  (A NaN keeps its payload at that length.)
LogContext(n, set) ==
  [Working(Greater(n.digits + 6, set.digits) + 3, "HALF_EVEN")
     EXCEPT !.emax = DEC_MAX_MATH, !.emin = -DEC_MAX_MATH, !.clamp = FALSE]

decNumberLog10(n, set) ==
  LET o == SubsetOperand(n, set, {})
  IN  Logarithm(n, o, set, IF IsPowerOfTen(o.n) THEN PowerOfTen(o.n, set, o.status)
                           ELSE decLnOp(o.n, LogContext(o.n, set), o.status))

\* The logarithm has to be iterated, and is not one of those above.
NeedsIteration(op, n, set) ==
  LET m == SubsetOperand(n, set, {}).n
  IN  /\ m.kind = "fin" /\ ~ISZERO(m) /\ ~m.neg
      /\ decCheckMath(n, set) = {}
      /\ IF op = "Ln" THEN ~InTable(m) ELSE ~IsPowerOfTen(m)
==============================================================================
