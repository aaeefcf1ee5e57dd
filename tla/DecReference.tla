---------------------------- MODULE DecReference ----------------------------
(***************************************************************************)
(* What the operations promise under full (extended) arithmetic: the exact *)
(* result, rounded once to the context, with the flags of IEEE 754 and of  *)
(* the General Decimal Arithmetic.  Nothing here follows the code: there   *)
(* are no residues, no Units and no fast paths, only integers.             *)
(***************************************************************************)
EXTENDS DecTypes

Least(S) == CHOOSE x \in S : \A y \in S : x <= y
Most(S) == CHOOSE x \in S : \A y \in S : x >= y
Abs(x) == IF x < 0 THEN -x ELSE x

Digits(c) == Places(c, 10)
NumberWith(neg, kind, coef, exp) ==
  [neg |-> neg, kind |-> kind, digits |-> Digits(coef), coef |-> coef, exp |-> exp]
Finite(neg, coef, exp) == NumberWith(neg, "fin", coef, exp)
Infinite(neg) == [neg |-> neg, kind |-> "inf", digits |-> 1, coef |-> 0, exp |-> 0]
QuietNaN == NumberWith(FALSE, "nan", 0, 0)

Exactly(n) == [n |-> n, status |-> {}]
InvalidOperation == [n |-> QuietNaN, status |-> {"Invalid_operation"}]

\* Does the quotient q, with remainder rem of unit, move away from zero?
RoundsUp(mode, neg, q, rem, unit) ==
  LET half == 2 * rem
  IN  CASE mode = "DOWN" -> FALSE
        [] mode = "UP" -> rem > 0
        [] mode = "CEILING" -> rem > 0 /\ ~neg
        [] mode = "FLOOR" -> rem > 0 /\ neg
        [] mode = "HALF_UP" -> half >= unit
        [] mode = "HALF_DOWN" -> half > unit
        [] mode = "HALF_EVEN" -> half > unit \/ (half = unit /\ q % 2 = 1)
        [] mode = "05UP" -> rem > 0 /\ q % 5 = 0

\* coef * 10^exp rounded at the exponent exp + drop.
RoundAt(mode, neg, coef, drop) ==
  LET unit == Power(10, drop)
      q == coef \div unit
      rem == coef % unit
  IN  [q |-> IF RoundsUp(mode, neg, q, rem, unit) THEN q + 1 ELSE q,
       inexact |-> rem # 0]

Nmax(neg, set) == Finite(neg, Power(10, set.digits) - 1, Etop(set))

OverflowResult(neg, set) ==
  LET finite == \/ set.round \in {"DOWN", "05UP"}
                \/ set.round = "CEILING" /\ neg
                \/ set.round = "FLOOR" /\ ~neg
  IN  [n |-> IF finite THEN Nmax(neg, set) ELSE Infinite(neg),
       status |-> {"Overflow", "Inexact", "Rounded"}]

\* A zero keeps its exponent, clamped to what the context can hold.
RoundZero(neg, exp, set) ==
  LET high == IF set.clamp THEN Etop(set) ELSE set.emax
      e == IF exp > high THEN high ELSE IF exp < Etiny(set) THEN Etiny(set) ELSE exp
  IN  [n |-> Finite(neg, 0, e),
       status |-> IF e = exp THEN {} ELSE {"Clamped"}]

\* coef * 10^exp was rounded to r.q * 10^(exp + drop): that number, in range.
Fitted(neg, coef, exp, drop, r, set) ==
  LET carry == r.q = Power(10, set.digits)
      q == IF carry THEN r.q \div 10 ELSE r.q
      e == exp + drop + (IF carry THEN 1 ELSE 0)
      tiny == exp + Digits(coef) - 1 < set.emin
      folded == set.clamp /\ e > Etop(set)
      flags == [Rounded |-> drop > 0, Inexact |-> r.inexact, Subnormal |-> tiny,
                Underflow |-> tiny /\ r.inexact, Clamped |-> folded \/ q = 0]
  IN  IF q # 0 /\ e + Digits(q) - 1 > set.emax THEN OverflowResult(neg, set)
      ELSE [n |-> IF folded THEN Finite(neg, q * Power(10, e - Etop(set)), Etop(set))
                            ELSE Finite(neg, q, e),
            status |-> {f \in DOMAIN flags : flags[f]}]

\* The exact value (-1)^neg * coef * 10^exp, rounded once to the context.
RoundTo(neg, coef, exp, set) ==
  LET drop == Most({0, Digits(coef) - set.digits, Etiny(set) - exp})
  IN  IF coef = 0 THEN RoundZero(neg, exp, set)
      ELSE Fitted(neg, coef, exp, drop,
                  RoundAt(set.round, neg, coef, Least({drop, Digits(coef) + 1})), set)

(***************************************************************************)
(* NaN operands.                                                           *)
(***************************************************************************)
\* The first signalling operand, else the first NaN, quieted, with as many
\* low digits of its payload as the precision.
PropagateNaN(l, r, set) ==
  LET signals == l.kind = "snan" \/ r.kind = "snan"
      src == IF l.kind = "snan" \/ (r.kind # "snan" /\ l.kind = "nan") THEN l ELSE r
  IN  [n |-> NumberWith(src.neg, "nan", src.coef % Power(10, set.digits), 0),
       status |-> IF signals THEN {"Invalid_operation"} ELSE {}]

(***************************************************************************)
(* Operations on numbers.                                                  *)
(***************************************************************************)
Signed(n) == IF n.neg THEN -n.coef ELSE n.coef
Opposite(n) == [n EXCEPT !.neg = ~@]
Magnitude(n) == [n EXCEPT !.neg = FALSE]

\* The integer n stands for at the exponent e <= n.exp.
AtExponent(n, e) == Signed(n) * Power(10, n.exp - e)

RefAdd(l, r, set) ==
  LET e == Least({l.exp, r.exp})
      sum == AtExponent(l, e) + AtExponent(r, e)
      zeroNeg == IF l.neg = r.neg THEN l.neg ELSE set.round = "FLOOR"
  IN  IF l.kind = "inf" \/ r.kind = "inf"
      THEN IF l.kind = r.kind /\ l.neg # r.neg THEN InvalidOperation
           ELSE Exactly(Infinite(IF l.kind = "inf" THEN l.neg ELSE r.neg))
      ELSE RoundTo(IF sum = 0 THEN zeroNeg ELSE sum < 0, Abs(sum), e, set)

RefMultiply(l, r, set) ==
  LET zero(n) == n.kind = "fin" /\ n.coef = 0
  IN  IF l.kind = "inf" \/ r.kind = "inf"
      THEN IF zero(l) \/ zero(r) THEN InvalidOperation
           ELSE Exactly(Infinite(l.neg # r.neg))
      ELSE RoundTo(l.neg # r.neg, l.coef * r.coef, l.exp + r.exp, set)

(***************************************************************************)
(* Division.  Beyond the precision a quotient that does not end is as good *)
(* as one with a last digit 1.  (One that ends does so within MaxZeros     *)
(* digits of the dividend: divisors are below 2^(MaxZeros + 1).)           *)
(***************************************************************************)
MaxZeros == 5

Broken(flag) == [n |-> QuietNaN, status |-> {flag}]
IsZero(n) == n.kind = "fin" /\ n.coef = 0

\* lc / rc * 10^exp, both of them positive.
QuotientTo(neg, lc, rc, exp, set) ==
  LET zeros == {k \in 0 .. MaxZeros : (lc * Power(10, k)) % rc = 0}
      more == Most({0, set.digits + 2 + Digits(rc) - Digits(lc)})
  IN  IF zeros = {}
      THEN RoundTo(neg, ((lc * Power(10, more)) \div rc) * 10 + 1, exp - more - 1, set)
      ELSE RoundTo(neg, (lc * Power(10, Least(zeros))) \div rc, exp - Least(zeros), set)

RefDivide(l, r, set) ==
  LET neg == l.neg # r.neg
  IN  CASE l.kind = "inf" -> IF r.kind = "inf" THEN InvalidOperation
                             ELSE Exactly(Infinite(neg))
        [] l.kind # "inf" /\ r.kind = "inf" ->
             [n |-> Finite(neg, 0, Etiny(set)), status |-> {"Clamped"}]
        [] l.kind # "inf" /\ IsZero(r) ->
             IF IsZero(l) THEN Broken("Division_undefined")
             ELSE [n |-> Infinite(neg), status |-> {"Division_by_zero"}]
        [] OTHER -> IF IsZero(l) THEN RoundZero(neg, l.exp - r.exp, set)
                    ELSE QuotientTo(neg, l.coef, r.coef, l.exp - r.exp, set)

\* The integers l and r stand for at their lower exponent.
Common(l, r) == LET e == Least({l.exp, r.exp})
                IN  [l |-> Abs(AtExponent(l, e)), r |-> Abs(AtExponent(r, e)), e |-> e]

RefDivideInteger(l, r, set) ==
  LET c == Common(l, r)
      neg == l.neg # r.neg
  IN  CASE l.kind = "inf" \/ r.kind = "inf" \/ IsZero(r) ->
             [RefDivide(l, r, set) EXCEPT !.n.exp = 0, !.status = @ \ {"Clamped"}]
        [] OTHER -> IF Digits(c.l \div c.r) > set.digits
                    THEN Broken("Division_impossible")
                    ELSE RoundTo(neg, c.l \div c.r, 0, set)

\* The integer quotient a remainder leaves: cut, or the nearest (ties to even).
RemainderQuotient(c, near) ==
  LET up == near /\ RoundsUp("HALF_EVEN", FALSE, c.l \div c.r, c.l % c.r, c.r)
  IN  (c.l \div c.r) + (IF up THEN 1 ELSE 0)

RemainderOf(l, c, q, set) ==
  LET rem == c.l - q * c.r
  IN  IF Digits(q) > set.digits THEN Broken("Division_impossible")
      ELSE RoundTo(l.neg # (rem < 0), Abs(rem), c.e, set)

RefRemainder(l, r, near, set) ==
  CASE l.kind = "inf" -> InvalidOperation
    [] l.kind # "inf" /\ r.kind = "inf" -> RoundTo(l.neg, l.coef, l.exp, set)
    [] l.kind # "inf" /\ IsZero(r) ->
         IF IsZero(l) THEN Broken("Division_undefined") ELSE InvalidOperation
    [] OTHER -> RemainderOf(l, Common(l, r), RemainderQuotient(Common(l, r), near), set)

\* The value of l rounded at the exponent e, if the context can hold it.
RefQuantizeTo(l, e, set) ==
  LET q == IF e > l.exp
           THEN RoundAt(set.round, l.neg, l.coef, Least({e - l.exp, Digits(l.coef) + 1}))
           ELSE [q |-> l.coef * Power(10, l.exp - e), inexact |-> FALSE]
      fits == Digits(q.q) <= set.digits /\ (q.q = 0 \/ e + Digits(q.q) - 1 <= set.emax)
      tiny == q.q # 0 /\ e + Digits(q.q) - 1 < set.emin
      flags == [Rounded |-> l.coef # 0 /\ e > l.exp, Inexact |-> q.inexact,
                Subnormal |-> tiny]
  IN  IF e < Etiny(set) \/ e > set.emax \/ ~fits THEN InvalidOperation
      ELSE [n |-> Finite(l.neg, q.q, e), status |-> {f \in DOMAIN flags : flags[f]}]

RefQuantize(l, r, set) ==
  IF l.kind = "inf" \/ r.kind = "inf"
  THEN IF l.kind = r.kind THEN Exactly(l) ELSE InvalidOperation
  ELSE RefQuantizeTo(l, r.exp, set)

\* Rescale takes the exponent from the value of r, which must be an integer.
RefRescale(l, r, set) ==
  LET e == Least({r.exp, 0})
      v == AtExponent(r, e)
  IN  IF l.kind = "inf" \/ r.kind = "inf"
      THEN IF l.kind = r.kind THEN Exactly(l) ELSE InvalidOperation
      ELSE IF Abs(v) % Power(10, -e) # 0 THEN InvalidOperation
      ELSE RefQuantizeTo(l, IF v < 0 THEN -(Abs(v) \div Power(10, -e))
                            ELSE v \div Power(10, -e), set)

\* -1, 0 or 1 as l is below, equal to or above r: by sign, then by the place
\* of the highest digit, then by value.
RefCompare(l, r) ==
  LET rank(n) == CASE n.kind = "inf" -> IF n.neg THEN -2 ELSE 2
                   [] n.kind # "inf" /\ n.coef = 0 -> 0
                   [] OTHER -> IF n.neg THEN -1 ELSE 1
      e == Least({l.exp, r.exp})
      top(n) == n.exp + Digits(n.coef)
      d == CASE rank(l) # rank(r) \/ rank(l) \in {-2, 0, 2} -> rank(l) - rank(r)
             [] rank(l) = rank(r) /\ rank(l) \in {-1, 1} /\ top(l) # top(r) ->
                  rank(l) * (top(l) - top(r))
             [] OTHER -> AtExponent(l, e) - AtExponent(r, e)
  IN  IF d < 0 THEN -1 ELSE IF d > 0 THEN 1 ELSE 0

\* The total order as a strict relation on finite numbers and infinities:
\* by value, then -0 before 0, then by exponent, reversed for negatives.
RefBelow(l, r) ==
  LET c == RefCompare(l, r)
  IN  \/ c < 0
      \/ c = 0 /\ l.neg /\ ~r.neg
      \/ c = 0 /\ l.neg = r.neg /\ (IF l.neg THEN l.exp > r.exp ELSE l.exp < r.exp)

\* The same order on all data: a NaN lies beyond the infinities of its sign,
\* a quiet one beyond a signalling one, and then by payload.
RefTotal(l, r) ==
  LET rank(n) == CASE n.kind = "snan" -> 1 [] n.kind = "nan" -> 2 [] OTHER -> 0
      beyond == \/ rank(l) < rank(r)
                \/ rank(l) = rank(r) /\ rank(l) > 0 /\ l.coef < r.coef
      same == /\ l.neg = r.neg /\ rank(l) = rank(r)
              /\ IF rank(l) > 0 THEN l.coef = r.coef
                 ELSE ~RefBelow(l, r) /\ ~RefBelow(r, l)
      below == CASE l.neg # r.neg -> l.neg
                 [] l.neg = r.neg /\ (rank(l) > 0 \/ rank(r) > 0) -> beyond # l.neg
                 [] OTHER -> RefBelow(l, r)
  IN  IF same THEN 0 ELSE IF below THEN -1 ELSE 1

\* Max and Min choose by the total order, and round the choice.
RefExtremum(l, r, max, magnitude, set) ==
  LET c == IF magnitude THEN RefCompare(Magnitude(l), Magnitude(r)) ELSE 0
      below == IF c # 0 THEN c < 0 ELSE RefBelow(l, r)
      n == IF below = max THEN r ELSE l
  IN  IF n.kind = "inf" THEN Exactly(n) ELSE RoundTo(n.neg, n.coef, n.exp, set)

\* A lone NaN gives way to the number.
RefMaxMin(l, r, max, magnitude, set) ==
  RefExtremum(IF IsNaN(l) THEN r ELSE l, IF IsNaN(r) THEN l ELSE r,
              max, magnitude, set)

\* The shortest form of n, as far as clamping lets its exponent rise.
Shortest(n, set) ==
  LET k == Most({i \in 0 .. n.digits - 1 :
                   /\ n.coef % Power(10, i) = 0
                   /\ i = 0 \/ ~set.clamp \/ n.exp + i <= Etop(set)})
  IN  CASE n.kind = "inf" -> n
        [] n.kind = "fin" /\ n.coef = 0 -> [n EXCEPT !.exp = 0]
        [] OTHER -> Finite(n.neg, n.coef \div Power(10, k), n.exp + k)

RefReduce(r, set) == [r EXCEPT !.n = Shortest(@, set)]

RefToIntegral(n, mode) ==
  LET r == RoundAt(mode, n.neg, n.coef, Least({-n.exp, Digits(n.coef) + 1}))
  IN  IF n.kind = "inf" \/ n.exp >= 0 THEN Exactly(n)
      ELSE [n |-> Finite(n.neg, r.q, 0),
            status |-> IF n.coef = 0 THEN {} ELSE
              {"Rounded"} \cup (IF r.inexact THEN {"Inexact"} ELSE {})]

\* Plus, minus and abs: n with the sign neg.  A zero is the sum 0 + (-0).
RefUnary(neg, n, set) ==
  IF n.kind = "inf" THEN Exactly(Infinite(neg))
  ELSE RoundTo(neg /\ (n.coef # 0 \/ set.round = "FLOOR"), n.coef, n.exp, set)

(***************************************************************************)
(* Digits and exponents.                                                   *)
(***************************************************************************)
\* The coefficient whose digit at place i is d[i], for the precision's places.
FromDigits(d, set) ==
  LET sum[i \in 0 .. set.digits] ==
        IF i = 0 THEN 0 ELSE sum[i - 1] + d[i - 1] * Power(10, i - 1)
  IN  sum[set.digits]

ToDigits(n, set) == [i \in 0 .. set.digits - 1 |-> (n.coef \div Power(10, i)) % 10]

\* An operand of a logical operation, of 0s and 1s where they count.
IsLogical(n, set) == /\ n.kind = "fin" /\ n.exp = 0 /\ ~n.neg
                     /\ \A i \in 0 .. set.digits - 1 : ToDigits(n, set)[i] < 2

RefLogical(op, l, r, set) ==
  LET a == ToDigits(l, set)
      b == ToDigits(r, set)
      bit(i) == CASE op = "And" -> a[i] * b[i]
                  [] op = "Or" -> a[i] + b[i] - a[i] * b[i]
                  [] op = "Xor" -> (a[i] + b[i]) % 2
                  [] op = "Invert" -> 1 - a[i]
  IN  IF IsLogical(l, set) /\ IsLogical(r, set)
      THEN Exactly(Finite(FALSE, FromDigits([i \in DOMAIN a |-> bit(i)], set), 0))
      ELSE InvalidOperation

\* Is r an integer (of exponent zero) that counts at most limit?
Counts(r, limit) == r.kind = "fin" /\ r.exp = 0 /\ r.coef <= limit

\* Digits move to the left; those that leave are lost, or come in again.
RefMove(l, r, around, set) ==
  LET a == ToDigits(l, set)
      from(i) == IF around THEN (i - Signed(r)) % set.digits ELSE i - Signed(r)
      moved == [i \in DOMAIN a |-> IF from(i) \in DOMAIN a THEN a[from(i)] ELSE 0]
  IN  IF ~Counts(r, set.digits) THEN InvalidOperation
      ELSE IF l.kind = "inf" THEN Exactly(l)
      ELSE Exactly(Finite(l.neg, FromDigits(moved, set), l.exp))

RefScaleB(l, r, set) ==
  IF ~Counts(r, 2 * (set.digits + set.emax)) THEN InvalidOperation
  ELSE IF l.kind = "inf" THEN Exactly(l)
  ELSE RoundTo(l.neg, l.coef, l.exp + Signed(r), set)

RefLogB(n, set) ==
  LET adjusted == n.exp + Digits(n.coef) - 1
  IN  IF n.kind = "inf" THEN Exactly(Infinite(FALSE))
      ELSE IF n.coef = 0 THEN [n |-> Infinite(TRUE), status |-> {"Division_by_zero"}]
      ELSE RoundTo(adjusted < 0, Abs(adjusted), 0, set)

(***************************************************************************)
(* Roots, powers, the exponential and logarithms.                          *)
(***************************************************************************)
\* The integer square root, bit by bit.
IntegerRoot(c) ==
  LET with(r, bit) == IF (r + bit) * (r + bit) <= c THEN r + bit ELSE r
      root[k \in 0 .. 15] == IF k = 15 THEN 0 ELSE with(root[k + 1], 2^k)
  IN  root[0]

\* A root that is not exact is as good as one with a last digit 1.
RootOf(n, set) ==
  LET ideal == n.exp \div 2
      whole == n.coef * Power(10, n.exp % 2)
      exact == IntegerRoot(whole) * IntegerRoot(whole) = whole
      more == Most({0, set.digits + 2 - Digits(IntegerRoot(whole))})
      half == [set EXCEPT !.round = "HALF_EVEN"]
  IN  IF exact THEN RoundTo(FALSE, IntegerRoot(whole), ideal, half)
      ELSE RoundTo(FALSE, IntegerRoot(whole * 100^more) * 10 + 1, ideal - more - 1, half)

RefSquareRoot(n, set) ==
  CASE IsZero(n) -> RoundZero(n.neg, n.exp \div 2, set)
    [] ~IsZero(n) /\ n.neg -> InvalidOperation
    [] OTHER -> IF n.kind = "inf" THEN Exactly(n) ELSE RootOf(n, set)

\* ln(2) and ln(10) to nine digits.
LnTable == [c \in {2, 10} |-> IF c = 2 THEN <<693147180, -9>> ELSE <<230258509, -8>>]

\* The logarithms of zero, of infinities, of negative numbers, and those the
\* code knows by heart.
RefLn(n, set) ==
  CASE IsZero(n) -> Exactly(Infinite(TRUE))
    [] ~IsZero(n) /\ n.neg -> InvalidOperation
    [] OTHER -> IF n.kind = "inf" THEN Exactly(n)
                ELSE RoundTo(FALSE, LnTable[n.coef][1], LnTable[n.coef][2],
                             [set EXCEPT !.round = "HALF_EVEN"])

\* And those of powers of ten.
RefLog10(n, set) ==
  LET power == n.exp + Digits(n.coef) - 1
  IN  IF n.kind = "inf" \/ IsZero(n) \/ n.neg THEN RefLn(n, set)
      ELSE RoundTo(power < 0, Abs(power), 0, set)

\* The number 1 to the full precision, "deemed inexact".
FullOne(set) == [n |-> Finite(FALSE, Power(10, set.digits - 1), 1 - set.digits),
                 status |-> {"Inexact", "Rounded"}]

IsWhole(n) == n.exp >= 0 \/ n.coef % Power(10, -n.exp) = 0
IsOddInteger(n) == n.exp <= 0 /\ IsWhole(n) /\ (n.coef \div Power(10, -n.exp)) % 2 = 1

\* l ** r where l is zero or one of them is infinite, or r is zero: a limit,
\* negative for an odd power of a negative number.
RefPowerLimit(l, r) ==
  LET neg == l.neg /\ r.kind = "fin" /\ IsOddInteger(r)
      below == l.kind = "fin" /\ RefCompare([l EXCEPT !.neg = FALSE], Finite(FALSE, 1, 0)) < 0
  IN  CASE IsZero(r) -> IF IsZero(l) THEN InvalidOperation ELSE Exactly(Finite(FALSE, 1, 0))
        [] ~IsZero(r) /\ l.neg /\ ~IsZero(l) /\ (r.kind = "inf" \/ ~IsWhole(r)) ->
             InvalidOperation
        [] OTHER -> Exactly(IF below # r.neg THEN Finite(neg, 0, 0) ELSE Infinite(neg))

\* l ** r for an integer r of one digit, rounded once.
RefIntegerPower(l, r, set) ==
  LET neg == l.neg /\ IsOddInteger(r)
      n == IF r.exp < 0 THEN r.coef \div Power(10, -r.exp) ELSE r.coef * Power(10, r.exp)
  IN  IF r.neg THEN QuotientTo(neg, 1, l.coef^n, -(l.exp * n), set)
               ELSE RoundTo(neg, l.coef^n, l.exp * n, set)

\* Is r the value rounded down or up (in magnitude), with its flags?  Only
\* Rounded and Clamped may tell of the digits and bounds worked with.  (An
\* overflow on the way is rounded to the nearest, at the end as asked.)
Beside(Rounding(_), set, r) ==
  \E mode \in {"DOWN", "UP"} :
    LET ref == Rounding([set EXCEPT !.round = mode])
        loose == {"Rounded", "Clamped"}
    IN  r.status \ loose = ref.status \ loose
          /\ IF "Overflow" \in ref.status
             THEN r.n \in {OverflowResult(r.n.neg, set).n, Infinite(r.n.neg)}
             ELSE r.n.kind = "fin" /\ RefCompare(r.n, ref.n) = 0 /\ r.n.neg = ref.n.neg

PowerBeside(l, r, set, result) ==
  LET one == Finite(FALSE, 1, 0)
  IN  CASE r.kind = "inf" /\ l.kind = "fin" /\ RefCompare(l, one) = 0 -> result = FullOne(set)
        [] l.kind = "fin" /\ r.kind = "fin" /\ ~IsZero(l) /\ ~IsZero(r) ->
             IF IsWhole(r) THEN Beside(LAMBDA s : RefIntegerPower(l, r, s), set, result)
                           ELSE l.neg /\ result = InvalidOperation
        [] OTHER -> result = RefPowerLimit(l, r)

\* e^n for |n| < 1, in millionths, a few of them off.
ExpMillionths(n) ==
  LET term[k \in 0 .. 10] ==
        IF k = 0 THEN 1000000 ELSE (term[k - 1] * n.coef) \div (k * Power(10, -n.exp))
      sum[k \in 0 .. 10] ==
        term[k] * (IF n.neg /\ k % 2 = 1 THEN -1 ELSE 1) + IF k = 0 THEN 0 ELSE sum[k - 1]
  IN  sum[10]

\* e^n is inexact, and of full precision unless it is out of range.
ExpBeside(n, set, r) ==
  LET unit == Power(10, 6 + r.n.exp)
      huge == n.exp + n.digits > 8
  IN  CASE n.kind = "inf" -> r = Exactly(IF n.neg THEN Finite(FALSE, 0, 0) ELSE n)
        [] IsZero(n) -> r = Exactly(Finite(FALSE, 1, 0))
        [] n.kind = "fin" /\ ~IsZero(n) /\ huge /\ ~n.neg ->
             r.n.kind = "inf" /\ ~r.n.neg /\ r.status = {"Overflow", "Inexact", "Rounded"}
        [] n.kind = "fin" /\ ~IsZero(n) /\ huge /\ n.neg ->
             "Underflow" \in r.status /\ r.n.coef \in {0, 1} /\ r.n.exp = Etiny(set)
        [] OTHER -> /\ r.n.coef * unit \in ExpMillionths(n) - unit .. ExpMillionths(n) + unit
                    /\ r.status \ {"Subnormal", "Underflow"} = {"Inexact", "Rounded"}
                    /\ r.n.digits = set.digits \/ r.n.exp = Etiny(set)

(***************************************************************************)
(* The numbers of a context, and the neighbours of a number among them.    *)
(***************************************************************************)
\* A number the context can hold.
IsRepresentable(n, set) ==
  n.kind = "fin" => /\ n.digits <= set.digits
                    /\ n.exp >= Etiny(set)
                    /\ n.exp + n.digits - 1 <= set.emax
                    /\ n.exp <= (IF set.clamp THEN Etop(set) ELSE set.emax)

\* The integers next to n at the exponent e, and the ends of those that fit:
\* whatever the context holds between n and another number, at that exponent,
\* it also holds one of these there.
NextTo(n, e, set) ==
  LET most == Power(10, set.digits) - 1
      floor == CASE n.coef = 0 -> 0
                 [] n.coef # 0 /\ n.exp >= e -> AtExponent(n, e)
                 [] OTHER -> Signed(n) \div Power(10, e - n.exp)
      beyond == n.coef # 0 /\ n.exp + Digits(n.coef) - e > set.digits + 1
  IN  {-most, most} \cup IF n.kind = "inf" \/ beyond THEN {}
                         ELSE (floor - 1 .. floor + 2) \cap (-most .. most)

\* The numbers of the context around n.
Around(n, set) ==
  UNION {{Finite(c < 0, Abs(c), e) : c \in NextTo(n, e, set)} : e \in Etiny(set) .. Etop(set)}
    \cup {Infinite(TRUE), Infinite(FALSE)}

\* m is the number of the context closest to n in the given direction (1 up,
\* -1 down): it lies there, and nothing the context can hold lies in between.
IsNeighbour(m, n, direction, set) ==
  /\ IsRepresentable(m, set)
  /\ RefCompare(m, n) = direction
  /\ \A v \in Around(n, set) :
       ~(RefCompare(v, n) = direction /\ RefCompare(v, m) = -direction)

(***************************************************************************)
(* The promise of each operation: result r = [n, status] is right.         *)
(***************************************************************************)
RefUnity(x) == Finite(x < 0, Abs(x), 0)

\* Operations whose result is determined by the exact one.
Determined == {"Add", "Subtract", "Multiply", "Quantize", "Rescale", "Max",
               "Min", "MaxMag", "MinMag", "Compare", "CompareSignal", "Plus",
               "Minus", "Abs", "Reduce", "ToIntegralExact", "ToIntegralValue",
               "CompareTotal", "CompareTotalMag", "Divide", "DivideInteger",
               "Remainder", "RemainderNear", "And", "Or", "Xor", "Invert",
               "Shift", "Rotate", "ScaleB", "LogB", "Ln", "Log10"}

\* A NaN is no operand of these.
Logicals == {"And", "Or", "Xor", "Invert"}

\* Operations with a promise.
Promised == Determined \cup {"NextPlus", "NextMinus", "NextToward"}

Reference(op, l, r, set) ==
  CASE op = "Add" -> RefAdd(l, r, set)
    [] op = "Subtract" -> RefAdd(l, Opposite(r), set)
    [] op = "Multiply" -> RefMultiply(l, r, set)
    [] op = "Divide" -> RefDivide(l, r, set)
    [] op = "DivideInteger" -> RefDivideInteger(l, r, set)
    [] op \in {"Remainder", "RemainderNear"} ->
         RefRemainder(l, r, op = "RemainderNear", set)
    [] op = "Quantize" -> RefQuantize(l, r, set)
    [] op = "Rescale" -> RefRescale(l, r, set)
    [] op \in {"Max", "Min", "MaxMag", "MinMag"} ->
         RefMaxMin(l, r, op \in {"Max", "MaxMag"}, op \in {"MaxMag", "MinMag"}, set)
    [] op \in {"Compare", "CompareSignal"} -> Exactly(RefUnity(RefCompare(l, r)))
    [] op = "CompareTotal" -> Exactly(RefUnity(RefTotal(l, r)))
    [] op = "CompareTotalMag" -> Exactly(RefUnity(RefTotal(Magnitude(l), Magnitude(r))))
    [] op \in Logicals -> RefLogical(op, l, r, set)
    [] op \in {"Shift", "Rotate"} -> RefMove(l, r, op = "Rotate", set)
    [] op = "ScaleB" -> RefScaleB(l, r, set)
    [] op = "LogB" -> RefLogB(l, set)
    [] op = "Ln" -> RefLn(l, set)
    [] op = "Log10" -> RefLog10(l, set)
    [] op = "Plus" -> RefUnary(l.neg, l, set)
    [] op = "Minus" -> RefUnary(~l.neg, l, set)
    [] op = "Abs" -> RefUnary(FALSE, l, set)
    [] op = "Reduce" -> RefReduce(IF l.kind = "inf" THEN Exactly(l)
                                  ELSE RoundTo(l.neg, l.coef, l.exp, set), set)
    [] op = "ToIntegralExact" -> RefToIntegral(l, set.round)
    [] op = "ToIntegralValue" -> Exactly(RefToIntegral(l, set.round).n)

\* One operand?
Unary(op) == op \in {"Plus", "Minus", "Abs", "Reduce", "ToIntegralExact",
                     "ToIntegralValue", "NextMinus", "NextPlus", "Invert", "LogB", "SquareRoot",
                     "Ln", "Log10", "Exp"}

\* Does a NaN operand decide the result?  Max and Min ignore one quiet NaN;
\* the total order has a place for all of them.
NaNDecides(op, l, r) ==
  LET nans == {n \in {l, r} : IsNaN(n)}
  IN  CASE op \in {"Max", "Min", "MaxMag", "MinMag"} ->
             (\E n \in nans : n.kind = "snan") \/ (IsNaN(l) /\ IsNaN(r))
        [] op \in Logicals \cup {"CompareTotal", "CompareTotalMag"} -> FALSE
        [] OTHER -> nans # {}

\* (The digits of a NaN are those of its payload, leading zeros aside.)
SameNaN(r, nan) == /\ NumberWith(r.n.neg, r.n.kind, r.n.coef, r.n.exp) = nan.n
                   /\ r.status = nan.status

Correct(op, left, right, set, r) ==
  LET rhs == IF Unary(op) THEN left ELSE right
      nan == PropagateNaN(left, rhs, set)
  IN  IF NaNDecides(op, left, rhs)
      THEN SameNaN(r, [n |-> nan.n, status |-> nan.status \cup
             IF op = "CompareSignal" THEN {"Invalid_operation"} ELSE {}])
      ELSE CASE op \in Determined -> r = Reference(op, left, rhs, set)
             [] op = "SquareRoot" -> r = RefSquareRoot(left, set)
             [] op = "Power" -> PowerBeside(left, rhs, set, r)
             [] op = "Exp" -> ExpBeside(left, set, r)
             [] op = "NextPlus" ->
                  /\ r.status = {}
                  /\ IF left = Infinite(FALSE) THEN r.n = left
                     ELSE IsNeighbour(r.n, left, 1, set)
             [] op = "NextMinus" ->
                  /\ r.status = {}
                  /\ IF left = Infinite(TRUE) THEN r.n = left
                     ELSE IsNeighbour(r.n, left, -1, set)
             [] op = "NextToward" ->
                  LET toward == RefCompare(right, left)
                  IN  IF toward = 0 THEN r = Exactly([left EXCEPT !.neg = right.neg])
                      ELSE IsNeighbour(r.n, left, toward, set)

\* Fused multiply-add: l * r + f with one rounding.  A signalling factor
\* comes first, then an infinity times zero, whatever f is.
CorrectFMA(l, r, f, set, result) ==
  LET neg == l.neg # r.neg
      infinite == l.kind = "inf" \/ r.kind = "inf"
      undefined == infinite /\ (IsZero(l) \/ IsZero(r))
      factor == PropagateNaN(l, r, set)
      product == IF IsNaN(l) \/ IsNaN(r) THEN factor.n
                 ELSE IF infinite THEN Infinite(neg)
                 ELSE Finite(neg, l.coef * r.coef, l.exp + r.exp)
  IN  CASE l.kind = "snan" \/ r.kind = "snan" -> SameNaN(result, factor)
        [] l.kind # "snan" /\ r.kind # "snan" /\ undefined -> result = InvalidOperation
        [] OTHER -> IF IsNaN(product) \/ IsNaN(f)
                    THEN SameNaN(result, PropagateNaN(product, f, set))
                    ELSE result = RefAdd(product, f, set)
=============================================================================
