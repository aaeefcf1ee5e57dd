------------------------ MODULE DecFloatCorrectProofs -------------------------
(***************************************************************************)
(* What decFloat arithmetic returns is what its reference promises: sums,  *)
(* products, rounding to an exponent, and exponents that are set or read.  *)
(***************************************************************************)
EXTENDS DecFloatProofs

(* A right answer.                                                         *)
(***************************************************************************)
\* The result has the value of the reference's, and the flags it tells of.
Answers(out, ref) == /\ AsNumber(out.n) = ref.n
                     /\ Told(out.status) = Told(ref.status)

Right(op, l, r, mode, out) ==
  \E flags \in Untold :
    Ref!Correct(op, AsNumber(l), AsNumber(r), FormatOf(mode),
                [n |-> AsNumber(out.n), status |-> Told(out.status) \cup flags])

RightFMA(l, r, f, mode, out) ==
  \E flags \in Untold :
    Ref!CorrectFMA(AsNumber(l), AsNumber(r), AsNumber(f), FormatOf(mode),
                   [n |-> AsNumber(out.n), status |-> Told(out.status) \cup flags])

\* A reference's answer is a record of two fields.
Pair(ref) == ref = [n |-> ref.n, status |-> ref.status]

LEMMA AnswersMeet ==
  ASSUME NEW out, NEW ref, Pair(ref), Answers(out, ref)
  PROVE  \E flags \in Untold :
           [n |-> AsNumber(out.n), status |-> Told(out.status) \cup flags] = ref
<1> DEFINE flags == ref.status \cap {"Rounded", "Subnormal", "Clamped"}
<1>1. flags \in Untold
  BY DEF Untold
<1>2. Told(out.status) \cup flags = ref.status
  BY DEF Answers, Told
<1> HIDE DEF flags
<1>3. [n |-> AsNumber(out.n), status |-> Told(out.status) \cup flags] = ref
  BY <1>2 DEF Answers, Pair
<1> QED BY <1>1, <1>3

\* The number of a decFloat, as the reference writes it.
LEMMA AsNumberIs ==
  ASSUME NEW df \in decFloat
  PROVE  /\ AsNumber(df) = Ref!NumberWith(df.neg, df.kind, df.coef, df.exp)
         /\ AsNumber(df) = Figure(df.neg, df.kind, CoefLength(df.coef), df.coef, df.exp)
<1>1. df.coef \in 0 .. Power(10, DECPMAX) - 1
  BY DatumParts
<1>2. CoefLength(df.coef) <= DECPMAX /\ CoefLength(df.coef) \in Nat
  BY <1>1, Fits, Format, FullPower, LengthBounds
<1>3. decGetDigits(df.coef, DECPMAX) = CoefLength(df.coef)
  BY <1>2, Format DEF decGetDigits, CoefLength
<1> QED BY <1>3, SameLength DEF AsNumber, Figure, Ref!NumberWith

LEMMA FigureFields ==
  ASSUME NEW neg, NEW kind, NEW digits, NEW coef, NEW exp
  PROVE  /\ Figure(neg, kind, digits, coef, exp).neg = neg
         /\ Figure(neg, kind, digits, coef, exp).kind = kind
         /\ Figure(neg, kind, digits, coef, exp).digits = digits
         /\ Figure(neg, kind, digits, coef, exp).coef = coef
         /\ Figure(neg, kind, digits, coef, exp).exp = exp
BY DEF Figure

LEMMA NumberFigure ==
  ASSUME NEW neg, NEW kind, NEW coef, NEW exp
  PROVE  Ref!NumberWith(neg, kind, coef, exp) = Figure(neg, kind, CoefLength(coef), coef, exp)
BY SameLength DEF Ref!NumberWith, Figure

LEMMA AsNumberFields ==
  ASSUME NEW df
  PROVE  /\ AsNumber(df).neg = df.neg /\ AsNumber(df).kind = df.kind
         /\ AsNumber(df).coef = df.coef /\ AsNumber(df).exp = df.exp
BY DEF AsNumber

\* Two decFloats with the same parts are the same number.
LEMMA SameParts ==
  ASSUME NEW x, NEW y, x.neg = y.neg, x.kind = y.kind, x.coef = y.coef, x.exp = y.exp
  PROVE  AsNumber(x) = AsNumber(y)
BY DEF AsNumber

LEMMA ReferencePairs ==
  ASSUME NEW neg, NEW coef, NEW exp, NEW c
  PROVE  Pair(Ref!RoundTo(neg, coef, exp, c))
<1>1. Pair(Ref!RoundZero(neg, exp, c))
  BY DEF Ref!RoundZero, Pair
<1>2. ASSUME NEW drop, NEW r PROVE Pair(Ref!Fitted(neg, coef, exp, drop, r, c))
  BY DEF Ref!Fitted, Ref!OverflowResult, Pair
<1> QED BY <1>1, <1>2 DEF Ref!RoundTo

\* What decFinalize answers.
LEMMA FinalizeAnswers ==
  ASSUME NEW mode \in Roundings, NEW neg \in BOOLEAN, NEW coef \in Nat, NEW exp \in Int,
         NEW s, s.round = mode
  PROVE  Answers(decFinalize(bcdnum(neg, coef, exp), s),
                 Ref!RoundTo(neg, coef, exp, FormatOf(mode)))
<1> DEFINE out == decFinalize(bcdnum(neg, coef, exp), s)
           exact == Ref!RoundTo(neg, coef, exp, FormatOf(mode))
<1>1. AsNumber(out.n) = exact.n /\ out.status = Told(exact.status)
  BY FinalizeRounds
<1> HIDE DEF out, exact
<1>2. Told(Told(exact.status)) = Told(exact.status)
  BY DEF Told
<1>3. Answers(out, exact)
  BY <1>1, <1>2 DEF Answers
<1> QED BY <1>3 DEF out, exact
-----------------------------------------------------------------------------
(***************************************************************************)
(* NaN operands.                                                           *)
(***************************************************************************)
LEMMA QuietNaNIs ==
  ASSUME NEW df \in decFloat
  PROVE  /\ QuietNaN(df).n.neg = df.neg /\ QuietNaN(df).n.kind = "nan"
         /\ QuietNaN(df).n.coef = df.coef /\ QuietNaN(df).n.exp = df.exp
         /\ QuietNaN(df).status = IF df.kind = "snan" THEN {"Invalid_operation"} ELSE {}
BY DEF QuietNaN, Returns, decCanonical, Datum, Encoding

\* The NaN that decNaNs returns is the one the reference propagates.
LEMMA PropagatesRight ==
  ASSUME NEW l \in decFloat, NEW r \in decFloat, AnyNaN(l, r), NEW mode
  PROVE  LET nan == Ref!PropagateNaN(AsNumber(l), AsNumber(r), FormatOf(mode))
             out == decNaNs(l, r)
         IN  /\ AsNumber(out.n) = nan.n /\ out.status = nan.status
             /\ out.n.kind = "nan" /\ out.n \in decFloat
             /\ AsNumber(out.n)
                  = Ref!NumberWith(out.n.neg, out.n.kind, out.n.coef, out.n.exp)
             /\ out.status \in {{}, {"Invalid_operation"}}
<1> DEFINE nan == Ref!PropagateNaN(AsNumber(l), AsNumber(r), FormatOf(mode))
           out == decNaNs(l, r)
           src == IF l.kind = "snan" THEN l ELSE IF r.kind = "snan" THEN r
                  ELSE IF DFISNAN(l) THEN l ELSE r
<1>1. out = QuietNaN(src)
  BY DEF decNaNs
<1>2. src \in {l, r} /\ src.kind \in {"nan", "snan"}
  BY DEF AnyNaN, DFISNAN
<1>3. out.n \in decFloat
  BY NaNs DEF Encodable
<1>4. src.coef \in 0 .. Power(10, DECPMAX - 1) - 1 /\ src.exp = 0
  BY <1>2, DatumParts
<1>5. src.coef % Power(10, DECPMAX) = src.coef
  <2>1. src.coef \in 0 .. Power(10, DECPMAX) - 1
    BY <1>4, FullPower
  <2> HIDE DEF src
  <2> QED BY <2>1, FullPower
<1>6. /\ nan.n = Ref!NumberWith(src.neg, "nan", src.coef, 0)
      /\ nan.status = IF src.kind = "snan" THEN {"Invalid_operation"} ELSE {}
  <2> DEFINE ref == IF AsNumber(l).kind = "snan"
                         \/ (AsNumber(r).kind # "snan" /\ AsNumber(l).kind = "nan")
                    THEN AsNumber(l) ELSE AsNumber(r)
             signals == AsNumber(l).kind = "snan" \/ AsNumber(r).kind = "snan"
  <2>1. /\ ref = AsNumber(src)
        /\ signals <=> src.kind = "snan"
    BY AsNumberFields DEF AnyNaN, DFISNAN
  <2>2. /\ nan.n = Ref!NumberWith(ref.neg, "nan", ref.coef % Power(10, DECPMAX), 0)
        /\ nan.status = IF signals THEN {"Invalid_operation"} ELSE {}
    BY FormatRange, SamePowers DEF Ref!PropagateNaN
  <2> HIDE DEF ref, signals, src
  <2> QED BY <2>1, <2>2, <1>5, AsNumberFields
<1> HIDE DEF src, nan
<1>7. /\ out.n.neg = src.neg /\ out.n.kind = "nan" /\ out.n.coef = src.coef /\ out.n.exp = 0
      /\ out.status = IF src.kind = "snan" THEN {"Invalid_operation"} ELSE {}
  BY <1>1, <1>2, <1>4, QuietNaNIs
<1> HIDE DEF out
<1>8. AsNumber(out.n) = Ref!NumberWith(out.n.neg, out.n.kind, out.n.coef, out.n.exp)
  BY <1>3, AsNumberIs
<1>9. AsNumber(out.n) = nan.n /\ out.status = nan.status
  BY <1>6, <1>7, <1>8
<1> QED BY <1>3, <1>7, <1>8, <1>9 DEF out, nan

\* The operations for which any NaN is an operand like another.
Ordinary == Ref!Promised \ ({"Max", "Min", "MaxMag", "MinMag", "CompareTotal",
                             "CompareTotalMag"} \cup Ref!Logicals)

LEMMA IsNaNIs ==
  ASSUME NEW df PROVE Ref!IsNaN(AsNumber(df)) <=> DFISNAN(df)
BY AsNumberFields DEF Ref!IsNaN, DFISNAN

LEMMA NaNDecidesIs ==
  ASSUME NEW op \in Ordinary, NEW l, NEW r
  PROVE  Ref!NaNDecides(op, AsNumber(l), AsNumber(r)) <=> AnyNaN(l, r)
<1>1. op \notin {"Max", "Min", "MaxMag", "MinMag"}
        /\ op \notin Ref!Logicals \cup {"CompareTotal", "CompareTotalMag"}
  BY DEF Ordinary
<1> DEFINE nans == {n \in {AsNumber(l), AsNumber(r)} : Ref!IsNaN(n)}
<1>2. Ref!NaNDecides(op, AsNumber(l), AsNumber(r)) <=> nans # {}
  BY <1>1 DEF Ref!NaNDecides
<1>3. nans # {} <=> Ref!IsNaN(AsNumber(l)) \/ Ref!IsNaN(AsNumber(r))
  OBVIOUS
<1> QED BY <1>2, <1>3, IsNaNIs DEF AnyNaN

RightOperand(op, l, r) == IF Ref!Unary(op) THEN l ELSE r

LEMMA RightOperandIs ==
  ASSUME NEW op, NEW l, NEW r
  PROVE  (IF Ref!Unary(op) THEN AsNumber(l) ELSE AsNumber(r)) = AsNumber(RightOperand(op, l, r))
BY DEF RightOperand

\* What an operation makes of a NaN that decides.
LEMMA NaNsRight ==
  ASSUME NEW op, NEW l \in decFloat, NEW r \in decFloat, NEW mode,
         AnyNaN(l, RightOperand(op, l, r)),
         Ref!NaNDecides(op, AsNumber(l), AsNumber(RightOperand(op, l, r))), NEW out,
         out.n = decNaNs(l, RightOperand(op, l, r)).n,
         out.status = decNaNs(l, RightOperand(op, l, r)).status
                        \cup IF op = "CompareSignal" THEN {"Invalid_operation"} ELSE {}
  PROVE  Right(op, l, r, mode, out)
<1> DEFINE rhs == RightOperand(op, l, r)
           nan == Ref!PropagateNaN(AsNumber(l), AsNumber(rhs), FormatOf(mode))
           more == IF op = "CompareSignal" THEN {"Invalid_operation"} ELSE {}
           res == [n |-> AsNumber(out.n), status |-> Told(out.status) \cup {}]
           same == [n |-> nan.n, status |-> nan.status \cup more]
<1>1. rhs \in decFloat
  BY DEF RightOperand
<1> HIDE DEF rhs
<1>2. /\ AsNumber(out.n) = nan.n /\ out.status = nan.status \cup more
      /\ AsNumber(out.n) = Ref!NumberWith(out.n.neg, out.n.kind, out.n.coef, out.n.exp)
      /\ Told(out.status) = out.status
  <2>1. /\ decNaNs(l, rhs).status \in {{}, {"Invalid_operation"}}
        /\ AsNumber(out.n) = nan.n /\ out.status = nan.status \cup more
        /\ AsNumber(out.n) = Ref!NumberWith(out.n.neg, out.n.kind, out.n.coef, out.n.exp)
        /\ out.status = decNaNs(l, rhs).status \cup more
    BY <1>1, PropagatesRight DEF rhs
  <2>2. Told(out.status) = out.status
    BY <2>1 DEF Told
  <2> QED BY <2>1, <2>2
<1>3. Ref!SameNaN(res, same)
  <2> HIDE DEF nan, more
  <2>1. same.n = nan.n /\ same.status = nan.status \cup more /\ res.n = AsNumber(out.n)
        /\ res.status = out.status
    BY <1>2
  <2> HIDE DEF res, same
  <2>2. /\ res.n.neg = out.n.neg /\ res.n.kind = out.n.kind
        /\ res.n.coef = out.n.coef /\ res.n.exp = out.n.exp
    BY <2>1, AsNumberFields
  <2> QED BY <1>2, <2>1, <2>2 DEF Ref!SameNaN
<1>4. Ref!NaNDecides(op, AsNumber(l), AsNumber(rhs))
  BY DEF rhs
<1>5. Ref!Correct(op, AsNumber(l), AsNumber(r), FormatOf(mode), res)
  <2> HIDE DEF res
  <2> QED BY <1>3, <1>4, RightOperandIs DEF Ref!Correct, rhs
<1>6. {} \in Untold
  BY DEF Untold
<1> QED BY <1>5, <1>6 DEF Right

LEMMA NaNRight ==
  ASSUME NEW op \in Ordinary, NEW l \in decFloat, NEW r \in decFloat, NEW mode,
         AnyNaN(l, RightOperand(op, l, r)), NEW out,
         out.n = decNaNs(l, RightOperand(op, l, r)).n,
         out.status = decNaNs(l, RightOperand(op, l, r)).status
                        \cup IF op = "CompareSignal" THEN {"Invalid_operation"} ELSE {}
  PROVE  Right(op, l, r, mode, out)
<1> DEFINE rhs == RightOperand(op, l, r)
<1> HIDE DEF rhs
<1>1. Ref!NaNDecides(op, AsNumber(l), AsNumber(rhs))
  BY NaNDecidesIs DEF rhs
<1> QED BY <1>1, NaNsRight DEF rhs

\* Elsewhere the reference decides.
LEMMA ReferenceRight ==
  ASSUME NEW op \in Ref!Determined, NEW l, NEW r, NEW mode, NEW out,
         ~Ref!NaNDecides(op, AsNumber(l), AsNumber(RightOperand(op, l, r))),
         NEW ref, Pair(ref), Answers(out, ref),
         ref = Ref!Reference(op, AsNumber(l), AsNumber(RightOperand(op, l, r)), FormatOf(mode))
  PROVE  Right(op, l, r, mode, out)
<1>1. PICK flags \in Untold :
        [n |-> AsNumber(out.n), status |-> Told(out.status) \cup flags] = ref
  BY AnswersMeet
<1> DEFINE res == [n |-> AsNumber(out.n), status |-> Told(out.status) \cup flags]
<1>2. res = ref
  BY <1>1
<1> HIDE DEF res
<1>3. Ref!Correct(op, AsNumber(l), AsNumber(r), FormatOf(mode), res)
  <2> DEFINE rhs == AsNumber(RightOperand(op, l, r))
  <2>1. op \notin {"SquareRoot", "Power", "Exp", "NextPlus", "NextMinus", "NextToward"}
    BY DEF Ref!Determined
  <2> HIDE DEF rhs
  <2>2. (IF Ref!Unary(op) THEN AsNumber(l) ELSE AsNumber(r)) = rhs
    BY RightOperandIs DEF rhs
  <2>3. /\ ~Ref!NaNDecides(op, AsNumber(l), rhs)
        /\ res = Ref!Reference(op, AsNumber(l), rhs, FormatOf(mode))
    BY <1>2 DEF rhs
  <2> QED BY <2>1, <2>2, <2>3 DEF Ref!Correct
<1> QED BY <1>3 DEF res, Right

LEMMA OrdinaryRight ==
  ASSUME NEW op \in Ordinary \cap Ref!Determined, NEW l, NEW r, NEW mode, NEW out,
         ~AnyNaN(l, RightOperand(op, l, r)), NEW ref, Pair(ref), Answers(out, ref),
         ref = Ref!Reference(op, AsNumber(l), AsNumber(RightOperand(op, l, r)), FormatOf(mode))
  PROVE  Right(op, l, r, mode, out)
BY NaNDecidesIs, ReferenceRight
-----------------------------------------------------------------------------
(***************************************************************************)
(* Tails.  A number with more digits than the format keeps rounds the same *)
(* whatever its last digits are, as long as there are some, and, where     *)
(* they begin at the rounding digit, as they stand to half.                *)
(***************************************************************************)
\* Remainders of the same standing.
SameStanding(b, u, c, v) == /\ b = 0 <=> c = 0
                            /\ 2 * b > u <=> 2 * c > v
                            /\ 2 * b = u <=> 2 * c = v

LEMMA RoundsUpSame ==
  ASSUME NEW mode \in Roundings, NEW neg \in BOOLEAN, NEW q \in Nat,
         NEW b \in Nat, NEW u \in Nat \ {0}, NEW c \in Nat, NEW v \in Nat \ {0},
         SameStanding(b, u, c, v)
  PROVE  Ref!RoundsUp(mode, neg, q, b, u) <=> Ref!RoundsUp(mode, neg, q, c, v)
<1>1. /\ b > 0 <=> c > 0
      /\ 2 * b > u <=> 2 * c > v
      /\ 2 * b >= u <=> 2 * c >= v
      /\ 2 * b = u <=> 2 * c = v
  BY DEF SameStanding
<1>2. CASE mode \in {"HALF_EVEN", "HALF_UP", "HALF_DOWN"}
  BY <1>1, <1>2 DEF Ref!RoundsUp
<1>3. CASE mode \in {"DOWN", "UP", "CEILING", "FLOOR", "05UP"}
  BY <1>1, <1>3 DEF Ref!RoundsUp
<1> QED BY <1>2, <1>3 DEF Roundings

TailedParts(a, v, k, b) ==
  /\ (a * k + b) \div (v * k) = a \div v /\ (a * k + b) % (v * k) = (a % v) * k + b
  /\ v * k \in Nat \ {0} /\ (a % v) * k + b \in Nat

LEMMA TailParts ==
  ASSUME NEW a \in Nat, NEW v \in Nat \ {0}, NEW k \in Nat \ {0}, NEW b \in 0 .. k - 1
  PROVE  TailedParts(a, v, k, b)
<1> DEFINE q == a \div v
           r == a % v
           g == v * k
           t == r * k + b
<1>1. a = q * v + r /\ q \in Nat /\ r \in 0 .. v - 1
  OBVIOUS
<1> HIDE DEF q, r
<1>2. a * k + b = q * (v * k) + (r * k + b)
  <2>1. (q * v + r) * k = q * (v * k) + r * k
    BY <1>1
  <2>2. q * (v * k) \in Int /\ r * k \in Int
    BY <1>1
  <2> QED BY <1>1, <2>1, <2>2
<1>3. g \in Nat \ {0} /\ t \in 0 .. g - 1
  <2>1. (r + 1) * k <= v * k
    BY <1>1
  <2>2. (r + 1) * k = r * k + k /\ r * k \in Nat
    BY <1>1
  <2>3. v * k \in Nat \ {0}
    OBVIOUS
  <2> QED BY <2>1, <2>2, <2>3
<1>4. a * k + b = q * g + t
  BY <1>2
<1> HIDE DEF g, t
<1>5. (q * g + t) \div g = q /\ (q * g + t) % g = t
  BY <1>1, <1>3, DivUnique
<1>6. t \in Nat
  BY <1>3
<1>7. (a * k + b) \div g = q /\ (a * k + b) % g = t
  BY <1>4, <1>5
<1> QED BY <1>3, <1>6, <1>7 DEF g, t, q, r, TailedParts

\* Beyond an even unit any tail counts the same; at the unit 1 it stands as it is.
LEMMA TailStanding ==
  ASSUME NEW r \in Nat, NEW v \in Nat \ {0}, NEW h \in Nat, v = 2 * h,
         NEW k \in Nat \ {0}, NEW b \in 1 .. k - 1
  PROVE  /\ r * k + b # 0
         /\ 2 * (r * k + b) > v * k <=> r >= h
         /\ 2 * (r * k + b) # v * k
<1>1. r * k \in Nat /\ h * k \in Nat /\ v * k = 2 * (h * k)
  OBVIOUS
<1>2. CASE r >= h
  <2>1. r * k >= h * k
    BY <1>2
  <2> QED BY <1>1, <1>2, <2>1
<1>3. CASE r < h
  <2>1. (r + 1) * k <= h * k
    BY <1>3
  <2>2. (r + 1) * k = r * k + k
    OBVIOUS
  <2> QED BY <1>1, <1>3, <2>1, <2>2
<1> QED BY <1>2, <1>3

LEMMA TailsStand ==
  ASSUME NEW r \in Nat, NEW j \in Nat, r < Power(10, j),
         NEW k1 \in Nat \ {0}, NEW b1 \in 1 .. k1 - 1,
         NEW k2 \in Nat \ {0}, NEW b2 \in 1 .. k2 - 1,
         j = 0 => SameStanding(b1, k1, b2, k2)
  PROVE  SameStanding(r * k1 + b1, Power(10, j) * k1, r * k2 + b2, Power(10, j) * k2)
<1>1. CASE j = 0
  <2>1. Power(10, j) = 1 /\ r = 0
    BY <1>1, PowerZero
  <2>2. r * k1 + b1 = b1 /\ r * k2 + b2 = b2 /\ 1 * k1 = k1 /\ 1 * k2 = k2
    BY <2>1
  <2> QED BY <1>1, <2>1, <2>2
<1>2. CASE j # 0
  <2> DEFINE h == 5 * Power(10, j - 1)
             v == Power(10, j)
  <2>1. j - 1 \in Nat /\ j = (j - 1) + 1
    BY <1>2
  <2>2. Power(10, j - 1) \in Nat /\ v = 10 * Power(10, j - 1) /\ v \in Nat \ {0}
    BY <2>1, TenPower, PowerNext
  <2>3. h \in Nat /\ v = 2 * h
    BY <2>2
  <2> HIDE DEF h, v
  <2>4. /\ r * k1 + b1 # 0
        /\ 2 * (r * k1 + b1) > v * k1 <=> r >= h
        /\ 2 * (r * k1 + b1) # v * k1
    BY <2>2, <2>3, TailStanding
  <2>5. /\ r * k2 + b2 # 0
        /\ 2 * (r * k2 + b2) > v * k2 <=> r >= h
        /\ 2 * (r * k2 + b2) # v * k2
    BY <2>2, <2>3, TailStanding
  <2> QED BY <2>4, <2>5 DEF SameStanding, v
<1> QED BY <1>1, <1>2

\* No tail is the same wherever it is.
LEMMA NoTailStands ==
  ASSUME NEW r \in Nat, NEW v \in Nat \ {0}, NEW k \in Nat \ {0}
  PROVE  /\ r * k = 0 <=> r = 0
         /\ 2 * (r * k) > v * k <=> 2 * r > v
         /\ 2 * (r * k) = v * k <=> 2 * r = v
<1>1. r * k \in Nat /\ v * k \in Nat \ {0} /\ (2 * r) * k = 2 * (r * k)
  OBVIOUS
<1>2. CASE 2 * r > v
  <2>1. (v + 1) * k <= (2 * r) * k
    BY <1>2
  <2>2. (v + 1) * k = v * k + k
    OBVIOUS
  <2> QED BY <1>1, <1>2, <2>1, <2>2
<1>3. CASE 2 * r = v
  <2>1. (2 * r) * k = v * k
    BY <1>3
  <2> QED BY <1>1, <1>3, <2>1
<1>4. CASE 2 * r < v
  <2>1. (2 * r + 1) * k <= v * k
    BY <1>4
  <2>2. (2 * r + 1) * k = (2 * r) * k + k
    OBVIOUS
  <2> QED BY <1>1, <1>4, <2>1, <2>2
<1> QED BY <1>2, <1>3, <1>4

LEMMA ZeroTailsStand ==
  ASSUME NEW r \in Nat, NEW v \in Nat \ {0}, NEW k1 \in Nat \ {0}, NEW k2 \in Nat \ {0}
  PROVE  SameStanding(r * k1 + 0, v * k1, r * k2 + 0, v * k2)
<1>1. r * k1 + 0 = r * k1 /\ r * k2 + 0 = r * k2
  OBVIOUS
<1> QED BY <1>1, NoTailStands DEF SameStanding

LEMMA TailLength ==
  ASSUME NEW a \in Nat \ {0}, NEW k \in Nat, NEW b \in 0 .. Power(10, k) - 1
  PROVE  /\ CoefLength(a * Power(10, k) + b) = CoefLength(a) + k
         /\ a * Power(10, k) + b \in Nat \ {0}
<1> DEFINE n == CoefLength(a)
           f == Power(10, k)
           g == Power(10, n - 1)
           h == Power(10, n)
           m == (n - 1) + k
<1>1. n \in Nat \ {0} /\ a < h /\ a >= g
  BY LengthBounds
<1>2. f \in Nat \ {0} /\ g \in Nat \ {0} /\ h \in Nat \ {0} /\ m \in Nat
  BY <1>1, TenPower
<1>3. Power(10, m) = g * f
  <2>1. n - 1 \in Nat
    BY <1>1
  <2> DEFINE i == n - 1
  <2> HIDE DEF i
  <2> QED BY <2>1, PowerSum DEF i
<1>4. Power(10, m + 1) = h * f
  <2>1. m + 1 = n + k
    BY <1>1
  <2> HIDE DEF n, m
  <2> QED BY <2>1, <1>1, PowerSum
<1> HIDE DEF f, g, h
<1>5. a * f \in Nat \ {0} /\ b \in Nat /\ b < f
  BY <1>2 DEF f
<1>6. g * f <= a * f /\ (a + 1) * f <= h * f /\ (a + 1) * f = a * f + f
  BY <1>1, <1>2
<1>7. g * f \in Nat /\ h * f \in Nat
  BY <1>2
<1> DEFINE x == a * f + b
<1>8. x \in Nat \ {0} /\ g * f <= x /\ x < h * f
  BY <1>5, <1>6, <1>7, <1>2
<1> HIDE DEF x, m
<1>9. Places(x, 10) = m + 1
  BY <1>2, <1>3, <1>4, <1>8, PlacesUnique
<1>10. m + 1 = n + k
  BY <1>1 DEF m
<1> HIDE DEF n
<1> QED BY <1>8, <1>9, <1>10 DEF x, f, n, CoefLength

\* Numbers that keep the same digits at the same place, and of whose dropped
\* digits the same becomes, are finished alike.
LEMMA FinishedAlike ==
  ASSUME NEW mode \in Roundings, NEW neg \in BOOLEAN, NEW s, s.round = mode,
         NEW c1 \in Nat \ {0}, NEW e1 \in Int, NEW c2 \in Nat \ {0}, NEW e2 \in Int,
         e1 + DropOf(c1, e1) = e2 + DropOf(c2, e2),
         e1 + CoefLength(c1) = e2 + CoefLength(c2),
         RoundedOf(mode, neg, c1, DropOf(c1, e1)) = RoundedOf(mode, neg, c2, DropOf(c2, e2))
  PROVE  decFinalize(bcdnum(neg, c1, e1), s) = decFinalize(bcdnum(neg, c2, e2), s)
<1> DEFINE r == RoundedOf(mode, neg, c1, DropOf(c1, e1))
           e == e1 + DropOf(c1, e1)
           tiny == e1 + CoefLength(c1) - 1 < DECEMIN
           st == IF r.inexact THEN {"Inexact"} \cup IF tiny THEN {"Underflow"} ELSE {} ELSE {}
           off == [num |-> bcdnum(neg, CarriedCoef(r.q), e + CarriedBy(r.q)), status |-> st]
<1>1. RoundOff(bcdnum(neg, c1, e1), Drop(bcdnum(neg, c1, e1)), s) = off
  BY RoundOffRight
<1>2. tiny <=> e2 + CoefLength(c2) - 1 < DECEMIN
  <2>1. CoefLength(c1) \in Int /\ CoefLength(c2) \in Int
    BY LengthBounds
  <2> DEFINE n1 == CoefLength(c1)
             n2 == CoefLength(c2)
  <2>2. e1 + n1 = e2 + n2
    OBVIOUS
  <2> HIDE DEF n1, n2
  <2>3. e1 + n1 - 1 = e2 + n2 - 1
    BY <2>1, <2>2 DEF n1, n2
  <2> QED BY <2>3 DEF n1, n2
<1>3. RoundOff(bcdnum(neg, c2, e2), Drop(bcdnum(neg, c2, e2)), s) = off
  <2> DEFINE r2 == RoundedOf(mode, neg, c2, DropOf(c2, e2))
             f == e2 + DropOf(c2, e2)
             tiny2 == e2 + CoefLength(c2) - 1 < DECEMIN
  <2>1. RoundOff(bcdnum(neg, c2, e2), Drop(bcdnum(neg, c2, e2)), s)
          = [num |-> bcdnum(neg, CarriedCoef(r2.q), f + CarriedBy(r2.q)),
             status |-> IF r2.inexact THEN {"Inexact"} \cup IF tiny2 THEN {"Underflow"} ELSE {}
                        ELSE {}]
    BY RoundOffRight
  <2>2. r2 = r /\ f = e /\ (tiny2 <=> tiny)
    BY <1>2
  <2> HIDE DEF r, r2, e, f, tiny, tiny2
  <2> QED BY <2>1, <2>2
<1>4. bcdnum(neg, c1, e1).kind = "fin" /\ bcdnum(neg, c2, e2).kind = "fin"
  BY NumFields
<1> HIDE DEF off
<1> QED BY <1>1, <1>3, <1>4 DEF decFinalize

\* The drop of a number with a tail, and what it rounds to.
TailRounded(mode, neg, a, exp, k, b) ==
  LET x == a * Power(10, k) + b
      drop == DropOf(a, exp)
      j == IF drop <= CoefLength(a) + 1 THEN drop ELSE CoefLength(a) + 1
      unit == Power(10, j) * Power(10, k)
      rem == (a % Power(10, j)) * Power(10, k) + b
  IN  /\ DropOf(x, exp - k) = drop + k
      /\ CoefLength(x) = CoefLength(a) + k /\ x \in Nat \ {0}
      /\ drop \in Nat /\ j \in Nat /\ (j = 0 => CoefLength(a) = DECPMAX)
      /\ rem \in Nat /\ unit \in Nat \ {0}
      /\ RoundedOf(mode, neg, x, drop + k)
           = [q |-> IF Ref!RoundsUp(mode, neg, a \div Power(10, j), rem, unit)
                    THEN (a \div Power(10, j)) + 1 ELSE a \div Power(10, j),
              inexact |-> rem # 0]

LEMMA TailRounds ==
  ASSUME NEW mode \in Roundings, NEW neg \in BOOLEAN, NEW a \in Nat \ {0},
         CoefLength(a) >= DECPMAX, NEW exp \in Int,
         NEW k \in Nat \ {0}, NEW b \in 0 .. Power(10, k) - 1
  PROVE  TailRounded(mode, neg, a, exp, k, b)
<1> DEFINE f == Power(10, k)
           x == a * f + b
           n == CoefLength(a)
           drop == DropOf(a, exp)
           j == IF drop <= n + 1 THEN drop ELSE n + 1
           v == Power(10, j)
           rem == (a % v) * f + b
           unit == v * f
           q == a \div v
<1>1. n \in Nat \ {0} /\ drop \in Nat
  BY LengthBounds, DropIs
<1>2. CoefLength(x) = n + k /\ x \in Nat \ {0}
  BY TailLength
<1>3. DropOf(x, exp - k) = drop + k
  <2>1. n >= DECPMAX
    OBVIOUS
  <2> HIDE DEF x, n
  <2> QED BY <2>1, <1>1, <1>2, Format DEF DropOf, n
<1>4. j \in Nat /\ (j = 0 => n = DECPMAX)
  <2>1. drop >= n - DECPMAX /\ n >= DECPMAX
    BY DropIs
  <2> HIDE DEF drop, n
  <2> QED BY <2>1, <1>1, Format
<1>5. f \in Nat \ {0} /\ v \in Nat \ {0} /\ b \in 0 .. f - 1
  <2> HIDE DEF j
  <2> QED BY <1>4, TenPower
<1>6. /\ x \div unit = q /\ x % unit = rem
      /\ unit \in Nat \ {0} /\ rem \in Nat /\ q \in Nat
  <2> HIDE DEF f, v
  <2>1. b \in 0 .. f - 1 /\ a \in Nat
    BY <1>5
  <2>2. q \in Nat
    BY <1>5
  <2>3. f \in Nat \ {0} /\ v \in Nat \ {0}
    BY <1>5
  <2> HIDE DEF q
  <2>4. TailedParts(a, v, f, b)
    BY <2>1, <2>3, TailParts
  <2> QED BY <2>2, <2>4 DEF q, TailedParts
<1>7. UnitOf(x, drop + k) = unit
  <2>1. (IF drop + k <= CoefLength(x) + 1 THEN drop + k ELSE CoefLength(x) + 1) = j + k
    <3> HIDE DEF drop, n, x
    <3> QED BY <1>1, <1>2
  <2>2. Power(10, j + k) = v * f
    <3> HIDE DEF j
    <3> QED BY <1>4, PowerSum
  <2> QED BY <2>1, <2>2 DEF UnitOf
<1>8. RoundedOf(mode, neg, x, drop + k)
        = [q |-> IF Ref!RoundsUp(mode, neg, x \div UnitOf(x, drop + k), x % UnitOf(x, drop + k),
                                 UnitOf(x, drop + k))
                 THEN (x \div UnitOf(x, drop + k)) + 1 ELSE x \div UnitOf(x, drop + k),
           inexact |-> x % UnitOf(x, drop + k) # 0]
  <2> HIDE DEF x, drop
  <2> QED BY SamePowers DEF Ref!RoundAt, RoundedOf, UnitOf
<1> HIDE DEF x, drop, unit, rem, q, j, v
<1>9. RoundedOf(mode, neg, x, drop + k)
         = [q |-> IF Ref!RoundsUp(mode, neg, q, rem, unit) THEN q + 1 ELSE q, inexact |-> rem # 0]
  BY <1>6, <1>7, <1>8
<1> QED BY <1>1, <1>2, <1>3, <1>4, <1>6, <1>9 DEF x, drop, unit, rem, q, j, v, TailRounded

\* The digits after a full coefficient only count by where they stand.
LEMMA Tails ==
  ASSUME NEW mode \in Roundings, NEW s, s.round = mode, NEW neg \in BOOLEAN,
         NEW a \in Nat \ {0}, CoefLength(a) >= DECPMAX, NEW exp \in Int,
         NEW k1 \in Nat \ {0}, NEW b1 \in 0 .. Power(10, k1) - 1,
         NEW k2 \in Nat \ {0}, NEW b2 \in 0 .. Power(10, k2) - 1,
         b1 = 0 <=> b2 = 0,
         CoefLength(a) = DECPMAX => SameStanding(b1, Power(10, k1), b2, Power(10, k2))
  PROVE  decFinalize(bcdnum(neg, a * Power(10, k1) + b1, exp - k1), s)
           = decFinalize(bcdnum(neg, a * Power(10, k2) + b2, exp - k2), s)
<1> DEFINE f1 == Power(10, k1)
           f2 == Power(10, k2)
           x1 == a * f1 + b1
           x2 == a * f2 + b2
           n == CoefLength(a)
           drop == DropOf(a, exp)
           j == IF drop <= n + 1 THEN drop ELSE n + 1
           v == Power(10, j)
           q == a \div v
           r1 == (a % v) * f1 + b1
           r2 == (a % v) * f2 + b2
           u1 == v * f1
           u2 == v * f2
<1>1. /\ DropOf(x1, exp - k1) = drop + k1
      /\ CoefLength(x1) = n + k1 /\ x1 \in Nat \ {0}
      /\ drop \in Nat /\ j \in Nat /\ (j = 0 => n = DECPMAX)
      /\ r1 \in Nat /\ u1 \in Nat \ {0}
      /\ RoundedOf(mode, neg, x1, drop + k1)
           = [q |-> IF Ref!RoundsUp(mode, neg, q, r1, u1) THEN q + 1 ELSE q, inexact |-> r1 # 0]
  <2>1. TailRounded(mode, neg, a, exp, k1, b1)
    BY TailRounds
  <2> QED BY <2>1 DEF TailRounded
<1>2. /\ DropOf(x2, exp - k2) = drop + k2
      /\ CoefLength(x2) = n + k2 /\ x2 \in Nat \ {0}
      /\ r2 \in Nat /\ u2 \in Nat \ {0}
      /\ RoundedOf(mode, neg, x2, drop + k2)
           = [q |-> IF Ref!RoundsUp(mode, neg, q, r2, u2) THEN q + 1 ELSE q, inexact |-> r2 # 0]
  <2>1. TailRounded(mode, neg, a, exp, k2, b2)
    BY TailRounds
  <2> QED BY <2>1 DEF TailRounded
<1>3. v \in Nat \ {0} /\ f1 \in Nat \ {0} /\ f2 \in Nat \ {0} /\ n \in Nat
  <2> HIDE DEF j
  <2> QED BY <1>1, TenPower, LengthBounds
<1>4. SameStanding(r1, u1, r2, u2)
  <2> HIDE DEF j, f1, f2
  <2>1. b1 \in 0 .. f1 - 1 /\ b2 \in 0 .. f2 - 1
    BY DEF f1, f2
  <2>2. a % v \in Nat /\ a % v < v
    BY <1>3
  <2>3. j = 0 => SameStanding(b1, f1, b2, f2)
    BY <1>1 DEF f1, f2
  <2> DEFINE r == a % v
  <2>4. r \in Nat /\ r < Power(10, j) /\ j \in Nat
    BY <2>2, <1>1
  <2> HIDE DEF r
  <2>5. CASE b1 = 0
    <3>1. SameStanding(r * f1 + 0, v * f1, r * f2 + 0, v * f2)
      <4> HIDE DEF v
      <4> QED BY <1>3, <2>4, ZeroTailsStand
    <3> QED BY <2>5, <3>1 DEF r
  <2>6. CASE b1 # 0
    <3>1. b1 \in 1 .. f1 - 1 /\ b2 \in 1 .. f2 - 1
      BY <1>3, <2>1, <2>6
    <3>2. SameStanding(r * f1 + b1, Power(10, j) * f1, r * f2 + b2, Power(10, j) * f2)
      BY <1>3, <2>3, <2>4, <3>1, TailsStand
    <3> QED BY <3>2 DEF r
  <2> QED BY <2>5, <2>6
<1>5. r1 = 0 <=> r2 = 0
  <2> HIDE DEF r1, u1, r2, u2
  <2> QED BY <1>4 DEF SameStanding
<1>9. Ref!RoundsUp(mode, neg, q, r1, u1) <=> Ref!RoundsUp(mode, neg, q, r2, u2)
  <2>1. q \in Nat
    <3> HIDE DEF v
    <3> QED BY <1>3
  <2> HIDE DEF q, r1, r2, u1, u2
  <2> QED BY <2>1, <1>1, <1>2, <1>4, RoundsUpSame
<1> HIDE DEF x1, x2, drop, n, q, r1, r2, u1, u2
<1>6. RoundedOf(mode, neg, x1, drop + k1) = RoundedOf(mode, neg, x2, drop + k2)
  BY <1>1, <1>2, <1>5, <1>9
<1> DEFINE e1 == exp - k1
           e2 == exp - k2
<1>7. /\ e1 \in Int /\ e2 \in Int
      /\ e1 + (drop + k1) = e2 + (drop + k2) /\ e1 + (n + k1) = e2 + (n + k2)
  BY <1>1, <1>3
<1> HIDE DEF e1, e2
<1>8. decFinalize(bcdnum(neg, x1, e1), s) = decFinalize(bcdnum(neg, x2, e2), s)
  <2>1. DropOf(x1, e1) = drop + k1 /\ DropOf(x2, e2) = drop + k2
    BY <1>1, <1>2 DEF e1, e2
  <2>2. RoundedOf(mode, neg, x1, DropOf(x1, e1)) = RoundedOf(mode, neg, x2, DropOf(x2, e2))
    BY <1>6, <2>1
  <2>3. e1 + DropOf(x1, e1) = e2 + DropOf(x2, e2) /\ e1 + CoefLength(x1) = e2 + CoefLength(x2)
    BY <1>1, <1>2, <1>7, <2>1
  <2> QED BY <1>1, <1>2, <1>7, <2>2, <2>3, FinishedAlike
<1> QED BY <1>8 DEF x1, x2, e1, e2

-----------------------------------------------------------------------------
(***************************************************************************)
(* Sums of finite numbers.                                                 *)
(***************************************************************************)
\* The sum of two integers with signs, at one exponent.
SumNum(an, x, bn, y, exp, mode) ==
  IF an = bn THEN bcdnum(an, x + y, exp)
  ELSE IF x > y THEN bcdnum(an, x - y, exp)
  ELSE IF x < y THEN bcdnum(bn, y - x, exp)
  ELSE bcdnum(mode = "FLOOR", 0, exp)

RoundedSum(n, mode) == Ref!RoundTo(n.neg, n.coef, n.exp, FormatOf(mode))

LEMMA SumSwaps ==
  ASSUME NEW an, NEW x \in Nat, NEW bn, NEW y \in Nat, NEW exp, NEW mode
  PROVE  SumNum(an, x, bn, y, exp, mode) = SumNum(bn, y, an, x, exp, mode)
<1>1. CASE an = bn
  <2>1. x + y = y + x
    OBVIOUS
  <2> QED BY <1>1, <2>1 DEF SumNum
<1>2. CASE an # bn
  <2>1. x > y <=> y < x
    OBVIOUS
  <2>2. x < y <=> y > x
    OBVIOUS
  <2>3. ~(x > y /\ x < y)
    OBVIOUS
  <2> QED BY <1>2, <2>1, <2>2, <2>3 DEF SumNum
<1> QED BY <1>1, <1>2

LEMMA SumParts ==
  ASSUME NEW an \in BOOLEAN, NEW x \in Nat, NEW bn \in BOOLEAN, NEW y \in Nat,
         NEW exp \in Int, NEW mode
  PROVE  LET n == SumNum(an, x, bn, y, exp, mode)
         IN  /\ n = bcdnum(n.neg, n.coef, n.exp)
             /\ n.neg \in BOOLEAN /\ n.coef \in Nat /\ n.exp \in Int
<1> DEFINE n == SumNum(an, x, bn, y, exp, mode)
           floor == (mode = "FLOOR")
<1>1. PICK neg \in BOOLEAN, coef \in Nat : n = bcdnum(neg, coef, exp)
  <2>1. floor \in BOOLEAN
    OBVIOUS
  <2> HIDE DEF floor
  <2>2. n = IF an = bn THEN bcdnum(an, x + y, exp)
            ELSE IF x > y THEN bcdnum(an, x - y, exp)
            ELSE IF x < y THEN bcdnum(bn, y - x, exp)
            ELSE bcdnum(floor, 0, exp)
    BY DEF SumNum, floor
  <2>3. x + y \in Nat /\ (x > y => x - y \in Nat) /\ (x < y => y - x \in Nat) /\ 0 \in Nat
    OBVIOUS
  <2> HIDE DEF n
  <2> QED BY <2>1, <2>2, <2>3
<1> HIDE DEF n
<1> QED BY <1>1, NumFields DEF n

\* Sum, of two numbers of one exponent.
LEMMA SumIsExact ==
  ASSUME NEW an \in BOOLEAN, NEW x \in Nat, NEW bn \in BOOLEAN, NEW y \in Nat,
         NEW exp \in Int, NEW s
  PROVE  Sum(bcdnum(an, x, exp), bcdnum(bn, y, exp), s) = SumNum(an, x, bn, y, exp, s.round)
<1> DEFINE a == bcdnum(an, x, exp)
           b == bcdnum(bn, y, exp)
<1>1. a.neg = an /\ a.coef = x /\ a.exp = exp /\ b.neg = bn /\ b.coef = y
  BY NumFields
<1>2. \A c : /\ [a EXCEPT !.coef = c] = bcdnum(an, c, exp)
             /\ [b EXCEPT !.coef = c] = bcdnum(bn, c, exp)
  BY DEF bcdnum
<1> HIDE DEF a, b
<1>3. Sum(a, b, s) = IF an = bn THEN bcdnum(an, x + y, exp)
                     ELSE IF x > y THEN bcdnum(an, x - y, exp)
                     ELSE IF x < y THEN bcdnum(bn, y - x, exp)
                     ELSE bcdnum(s.round = "FLOOR", 0, exp)
  BY <1>1, <1>2 DEF Sum, ZeroSum
<1> QED BY <1>3 DEF SumNum, a, b

LEMMA PaddedIs ==
  ASSUME NEW num \in BcdNum, NEW exp \in Int, num.exp >= exp
  PROVE  /\ PaddedTo(num, exp) = bcdnum(num.neg, num.coef * Power(10, num.exp - exp), exp)
         /\ num.coef * Power(10, num.exp - exp) \in Nat
<1> DEFINE long == num.coef * Power(10, num.exp - exp)
           m == PaddedTo(num, exp)
<1>1. m = [num EXCEPT !.coef = long, !.exp = exp]
  BY DEF PaddedTo
<1>2. num.coef \in Nat /\ num.exp - exp \in Nat
  BY DEF BcdNum
<1>3. long \in Nat
  <2> DEFINE f == Power(10, num.exp - exp)
  <2>1. f \in Nat
    BY <1>2, TenPower
  <2> HIDE DEF f
  <2> QED BY <1>2, <2>1 DEF f
<1> HIDE DEF long, m
<1>4. m \in BcdNum /\ m.neg = num.neg /\ m.coef = long /\ m.exp = exp
  BY <1>1, <1>3 DEF BcdNum
<1>5. m = bcdnum(m.neg, m.coef, m.exp)
  BY <1>4 DEF BcdNum, bcdnum
<1> QED BY <1>3, <1>4, <1>5 DEF m, long

AlignedExactly(an, x, ae, bn, y, be, s) ==
  AlignedSum(bcdnum(an, x, ae), bcdnum(bn, y, be), s)
    = SumNum(an, x * Power(10, ae - be), bn, y, be, s.round)

LEMMA AlignedIsExact ==
  ASSUME NEW an \in BOOLEAN, NEW x \in Nat, NEW ae \in Int,
         NEW bn \in BOOLEAN, NEW y \in Nat, NEW be \in Int, ae >= be, NEW s
  PROVE  AlignedExactly(an, x, ae, bn, y, be, s)
<1> DEFINE a == bcdnum(an, x, ae)
           b == bcdnum(bn, y, be)
           p == x * Power(10, ae - be)
<1>1. a \in BcdNum /\ a.neg = an /\ a.coef = x /\ a.exp = ae /\ b.exp = be
  BY BcdNumIs, NumFields
<1> HIDE DEF a
<1>2. PaddedTo(a, be) = bcdnum(an, p, be) /\ p \in Nat
  BY <1>1, PaddedIs
<1>3. AlignedSum(a, b, s) = Sum(bcdnum(an, p, be), b, s)
  <2> HIDE DEF b, p
  <2> QED BY <1>1, <1>2 DEF AlignedSum
<1> HIDE DEF p
<1> QED BY <1>2, <1>3, SumIsExact DEF a, b, p, AlignedExactly

\* What the reference rounds is that sum, whichever operand comes first.
SignedSumIs(an, x, bn, y, exp, mode) ==
  LET t == (IF an THEN -x ELSE x) + (IF bn THEN -y ELSE y)
      n == SumNum(an, x, bn, y, exp, mode)
  IN  /\ n.neg = IF t = 0 THEN IF an = bn THEN an ELSE mode = "FLOOR" ELSE t < 0
      /\ n.coef = Ref!Abs(t) /\ n.exp = exp

LEMMA SignedSum ==
  ASSUME NEW an \in BOOLEAN, NEW x \in Nat, NEW bn \in BOOLEAN, NEW y \in Nat,
         NEW exp \in Int, NEW mode
  PROVE  SignedSumIs(an, x, bn, y, exp, mode)
<1> DEFINE t == (IF an THEN -x ELSE x) + (IF bn THEN -y ELSE y)
           n == SumNum(an, x, bn, y, exp, mode)
           floor == (mode = "FLOOR")
<1>0. floor \in BOOLEAN
  OBVIOUS
<1> HIDE DEF floor
<1> DEFINE goal == /\ n.neg = IF t = 0 THEN IF an = bn THEN an ELSE floor ELSE t < 0
                   /\ n.coef = Ref!Abs(t) /\ n.exp = exp
<1>1. ASSUME an = bn PROVE goal
  <2>1. n.neg = an /\ n.coef = x + y /\ n.exp = exp
    BY <1>1, NumFields DEF SumNum
  <2>2. Ref!Abs(t) = x + y /\ (t # 0 => (t < 0 <=> an))
    BY <1>1 DEF Ref!Abs
  <2>3. (t < 0) \in BOOLEAN
    OBVIOUS
  <2> HIDE DEF n, t
  <2>4. t # 0 => an = (t < 0)
    BY <2>2, <2>3
  <2> QED BY <1>1, <2>1, <2>2, <2>4 DEF n, t
<1>2. ASSUME an # bn PROVE goal
  <2>1. CASE x > y
    <3>1. n.neg = an /\ n.coef = x - y /\ n.exp = exp
      BY <1>2, <2>1, NumFields DEF SumNum
    <3>2. Ref!Abs(t) = x - y /\ t # 0 /\ (t < 0 <=> an)
      BY <1>2, <2>1 DEF Ref!Abs
    <3>3. (t < 0) \in BOOLEAN
      OBVIOUS
    <3> HIDE DEF n, t
    <3>4. an = (t < 0)
      BY <3>2, <3>3
    <3> QED BY <3>1, <3>2, <3>4 DEF n, t
  <2>2. CASE x < y
    <3>1. n.neg = bn /\ n.coef = y - x /\ n.exp = exp
      BY <1>2, <2>2, NumFields DEF SumNum
    <3>2. Ref!Abs(t) = y - x /\ t # 0 /\ (t < 0 <=> bn)
      BY <1>2, <2>2 DEF Ref!Abs
    <3>3. (t < 0) \in BOOLEAN
      OBVIOUS
    <3> HIDE DEF n, t
    <3>4. bn = (t < 0)
      BY <3>2, <3>3
    <3> QED BY <3>1, <3>2, <3>4 DEF n, t
  <2>3. CASE x = y
    <3>1. n.neg = floor /\ n.coef = 0 /\ n.exp = exp
      BY <1>2, <2>3, NumFields DEF SumNum, floor
    <3>2. Ref!Abs(t) = 0 /\ t = 0
      BY <1>2, <2>3 DEF Ref!Abs
    <3> HIDE DEF n, t
    <3> QED BY <1>2, <3>1, <3>2 DEF n, t
  <2> QED BY <2>1, <2>2, <2>3
<1>3. goal
  <2> HIDE DEF goal
  <2> QED BY <1>1, <1>2
<1> QED BY <1>3 DEF SignedSumIs, floor

Finite(n) == n.kind = "fin" /\ n.neg \in BOOLEAN /\ n.coef \in Nat /\ n.exp \in Int

LEMMA RefAddIs ==
  ASSUME NEW l, NEW r, Finite(l), Finite(r), l.exp >= r.exp, NEW mode
  PROVE  LET n == SumNum(l.neg, l.coef * Power(10, l.exp - r.exp), r.neg, r.coef, r.exp, mode)
         IN  /\ Ref!RefAdd(l, r, FormatOf(mode)) = RoundedSum(n, mode)
             /\ Ref!RefAdd(r, l, FormatOf(mode)) = RoundedSum(n, mode)
<1> DEFINE f == Power(10, l.exp - r.exp)
           x == l.coef * f
           y == r.coef
           e == r.exp
           a == IF l.neg THEN -x ELSE x
           b == IF r.neg THEN -y ELSE y
           n == SumNum(l.neg, x, r.neg, y, e, mode)
           c == FormatOf(mode)
<1>1. /\ l.neg \in BOOLEAN /\ l.coef \in Nat /\ l.exp \in Int /\ l.kind = "fin"
      /\ r.neg \in BOOLEAN /\ r.coef \in Nat /\ r.exp \in Int /\ r.kind = "fin"
      /\ l.exp - r.exp \in Nat
  BY DEF Finite
<1>2. f \in Nat \ {0}
  BY <1>1, TenPower
<1>3. Ref!Least({l.exp, r.exp}) = e /\ Ref!Least({r.exp, l.exp}) = e
  BY <1>1, LeastIs
<1>4. Ref!AtExponent(l, e) = a
  <2>1. Ref!AtExponent(l, e) = (IF l.neg THEN -l.coef ELSE l.coef) * f
    BY SamePowers DEF Ref!AtExponent, Ref!Signed
  <2> HIDE DEF f
  <2> QED BY <1>1, <1>2, <2>1
<1>5. Ref!AtExponent(r, e) = b
  <2>1. Ref!AtExponent(r, e) = (IF r.neg THEN -r.coef ELSE r.coef) * Power(10, r.exp - r.exp)
    BY SamePowers DEF Ref!AtExponent, Ref!Signed
  <2>2. r.exp - r.exp = 0 /\ Power(10, 0) = 1
    BY <1>1, PowerZero
  <2> QED BY <1>1, <2>1, <2>2
<1>6. x \in Nat
  <2> HIDE DEF f
  <2> QED BY <1>1, <1>2
<1>7. /\ n.neg = IF a + b = 0 THEN IF l.neg = r.neg THEN l.neg ELSE mode = "FLOOR" ELSE a + b < 0
      /\ n.coef = Ref!Abs(a + b) /\ n.exp = e
  <2> HIDE DEF x
  <2>1. SignedSumIs(l.neg, x, r.neg, y, e, mode)
    BY <1>1, <1>6, SignedSum
  <2> QED BY <2>1 DEF SignedSumIs
<1>8. c.round = mode
  BY FormatRange
<1>9. a \in Int /\ b \in Int /\ a + b = b + a
  <2> HIDE DEF x
  <2> QED BY <1>1, <1>6
<1> HIDE DEF f, x, y, e, a, b, n, c
<1>10. Ref!RefAdd(l, r, c) = Ref!RoundTo(n.neg, n.coef, n.exp, c)
  BY <1>1, <1>3, <1>4, <1>5, <1>7, <1>8 DEF Ref!RefAdd
<1>11. Ref!RefAdd(r, l, c) = Ref!RoundTo(n.neg, n.coef, n.exp, c)
  <2>1. (IF r.neg = l.neg THEN r.neg ELSE mode = "FLOOR")
          = (IF l.neg = r.neg THEN l.neg ELSE mode = "FLOOR")
    OBVIOUS
  <2>2. Ref!RefAdd(r, l, c)
          = Ref!RoundTo(IF b + a = 0 THEN IF r.neg = l.neg THEN r.neg ELSE mode = "FLOOR"
                        ELSE b + a < 0, Ref!Abs(b + a), e, c)
    BY <1>1, <1>3, <1>4, <1>5, <1>8 DEF Ref!RefAdd
  <2> QED BY <1>7, <1>9, <2>1, <2>2
<1> QED BY <1>10, <1>11 DEF f, x, y, e, a, b, n, c, RoundedSum

\* An addend that begins below the digits of the other one rounds the same
\* wherever it is, and whatever it is, unless it may reach the rounding digit.
TailedAlike(an, a, k1, b1, k2, b2, bn, exp, mode, s) ==
  decFinalize(SumNum(an, a * Power(10, k1), bn, b1, exp - k1, mode), s)
    = decFinalize(SumNum(an, a * Power(10, k2), bn, b2, exp - k2, mode), s)

LEMMA TailSums ==
  ASSUME NEW mode \in Roundings, NEW s, s.round = mode, NEW an \in BOOLEAN, NEW bn \in BOOLEAN,
         NEW a \in Nat, a >= Power(10, DECPMAX), NEW exp \in Int,
         NEW k1 \in Nat \ {0}, NEW b1 \in 0 .. Power(10, k1) - 1,
         NEW k2 \in Nat \ {0}, NEW b2 \in 0 .. Power(10, k2) - 1,
         b1 = 0 <=> b2 = 0,
         a < Power(10, DECPMAX + 1) => 2 * b1 < Power(10, k1) /\ 2 * b2 < Power(10, k2)
  PROVE  TailedAlike(an, a, k1, b1, k2, b2, bn, exp, mode, s)
<1> DEFINE f1 == Power(10, k1)
           f2 == Power(10, k2)
<1>1. f1 \in Nat \ {0} /\ f2 \in Nat \ {0} /\ a \in Nat \ {0} /\ a - 1 \in Nat \ {0}
  <2>1. Power(10, DECPMAX) = 10 * Power(10, DECPMAX - 1) /\ Power(10, DECPMAX - 1) \in Nat \ {0}
    BY FullPower
  <2> QED BY <2>1, TenPower
<1>2. b1 \in 0 .. f1 - 1 /\ b2 \in 0 .. f2 - 1
  OBVIOUS
<1>3. /\ a * f1 \in Nat /\ a * f2 \in Nat /\ a * f1 > b1 /\ a * f2 > b2
      /\ a * f1 = (a - 1) * f1 + f1 /\ a * f2 = (a - 1) * f2 + f2
      /\ (a - 1) * f1 \in Nat /\ (a - 1) * f2 \in Nat
  <2> HIDE DEF f1, f2
  <2>1. /\ a * f1 = (a - 1) * f1 + f1 /\ a * f2 = (a - 1) * f2 + f2
        /\ (a - 1) * f1 \in Nat /\ (a - 1) * f2 \in Nat
    BY <1>1
  <2> QED BY <1>1, <1>2, <2>1
<1>4. CoefLength(a) > DECPMAX
  <2>1. CoefLength(a) <= DECPMAX => a < Power(10, DECPMAX)
    BY Fits, Format
  <2> QED BY <2>1, LengthBounds, Format, FullPower
<1> DEFINE goal == decFinalize(SumNum(an, a * f1, bn, b1, exp - k1, mode), s)
                   = decFinalize(SumNum(an, a * f2, bn, b2, exp - k2, mode), s)
<1>5. ASSUME an = bn \/ b1 = 0 PROVE goal
  <2>1. /\ SumNum(an, a * f1, bn, b1, exp - k1, mode) = bcdnum(an, a * f1 + b1, exp - k1)
        /\ SumNum(an, a * f2, bn, b2, exp - k2, mode) = bcdnum(an, a * f2 + b2, exp - k2)
    <3>1. b1 = 0 => /\ a * f1 - b1 = a * f1 + b1 /\ a * f2 - b2 = a * f2 + b2
      BY <1>3
    <3> HIDE DEF f1, f2
    <3> QED BY <1>3, <1>5, <3>1 DEF SumNum
  <2>2. decFinalize(bcdnum(an, a * Power(10, k1) + b1, exp - k1), s)
          = decFinalize(bcdnum(an, a * Power(10, k2) + b2, exp - k2), s)
    <3>1. CoefLength(a) >= DECPMAX /\ CoefLength(a) # DECPMAX
      BY <1>4, LengthBounds, Format
    <3> QED BY <1>1, <1>2, <3>1, Tails
  <2> QED BY <2>1, <2>2
<1>6. ASSUME an # bn, b1 # 0 PROVE goal
  <2> DEFINE h == a - 1
             t1 == f1 - b1
             t2 == f2 - b2
  <2>1. /\ SumNum(an, a * f1, bn, b1, exp - k1, mode) = bcdnum(an, h * f1 + t1, exp - k1)
        /\ SumNum(an, a * f2, bn, b2, exp - k2, mode) = bcdnum(an, h * f2 + t2, exp - k2)
    <3>1. a * f1 - b1 = h * f1 + t1 /\ a * f2 - b2 = h * f2 + t2
      <4> HIDE DEF f1, f2
      <4> QED BY <1>1, <1>2, <1>3
    <3> HIDE DEF f1, f2, h, t1, t2
    <3> QED BY <1>3, <1>6, <3>1 DEF SumNum
  <2>2. t1 \in 0 .. f1 - 1 /\ t2 \in 0 .. f2 - 1 /\ t1 # 0 /\ t2 # 0
    <3> HIDE DEF f1, f2
    <3> QED BY <1>1, <1>2, <1>6
  <2>3. h \in Nat \ {0} /\ CoefLength(h) >= DECPMAX
    <3>1. a > Power(10, DECPMAX - 1)
      BY FullPower
    <3>2. ~(h < Power(10, DECPMAX - 1))
      BY <3>1, FullPower
    <3>3. ~(CoefLength(h) <= DECPMAX - 1)
      <4> HIDE DEF h
      <4> QED BY <1>1, <3>2, Fits, Format DEF h
    <3>4. CoefLength(h) \in Nat
      BY <1>1, LengthBounds
    <3> HIDE DEF h
    <3> QED BY <1>1, <3>3, <3>4, Format DEF h
  <2>4. CoefLength(h) = DECPMAX => SameStanding(t1, f1, t2, f2)
    <3>1. ASSUME CoefLength(h) = DECPMAX PROVE a < Power(10, DECPMAX + 1)
      <4>1. h < Power(10, DECPMAX)
        <5> HIDE DEF h
        <5> QED BY <2>3, <3>1, Fits, Format
      <4>2. Power(10, DECPMAX + 1) = 10 * Power(10, DECPMAX)
        BY Format, PowerNext
      <4> QED BY <4>1, <4>2, FullPower
    <3>2. 2 * b1 < f1 /\ 2 * b2 < f2 => SameStanding(t1, f1, t2, f2)
      <4> HIDE DEF f1, f2
      <4> QED BY <1>1, <1>2, <1>6 DEF SameStanding
    <3> HIDE DEF h, t1, t2
    <3> QED BY <3>1, <3>2
  <2> HIDE DEF h, t1, t2
  <2>5. decFinalize(bcdnum(an, h * Power(10, k1) + t1, exp - k1), s)
          = decFinalize(bcdnum(an, h * Power(10, k2) + t2, exp - k2), s)
    BY <2>2, <2>3, <2>4, Tails
  <2> QED BY <2>1, <2>5
<1>7. goal
  <2> HIDE DEF goal
  <2> QED BY <1>5, <1>6
<1> QED BY <1>7 DEF TailedAlike

\* A number that fits is finished as it is.
LEMMA FitIsFinal ==
  ASSUME NEW neg, NEW coef \in 0 .. Power(10, DECPMAX) - 1, NEW exp \in DECQTINY .. DECQMAX,
         NEW s
  PROVE  decFinalize(bcdnum(neg, coef, exp), s) = Quietly(Datum(neg, "fin", coef, exp))
<1> DEFINE num == bcdnum(neg, coef, exp)
           off == [num |-> num, status |-> {}]
<1>1. /\ num.neg = neg /\ num.kind = "fin" /\ num.coef = coef /\ num.exp = exp
      /\ coef \in Nat /\ exp \in Int
  BY NumFields, FullPower, Format
<1>2. CoefLength(coef) <= DECPMAX /\ CoefLength(coef) \in Nat
  BY <1>1, Fits, Format, FullPower, LengthBounds
<1> HIDE DEF num
<1>3. Drop(num) <= 0
  BY <1>1, <1>2, Format DEF Drop
<1>4. RoundOff(num, Drop(num), s) = off
  BY <1>3 DEF RoundOff
<1>5. HighEnd(num, s) = LaidOut(num)
  BY <1>1 DEF HighEnd
<1>6. LaidOut(num) = Quietly(Datum(neg, "fin", coef, exp))
  BY <1>1 DEF LaidOut, decFloatFromBCD
<1>7. decFinalize(num, s) = Flagging(HighEnd(off.num, s), off.status)
  <2> HIDE DEF off
  <2> QED BY <1>1, <1>4 DEF decFinalize, Finished
<1> DEFINE df == Datum(neg, "fin", coef, exp)
<1>8. decFinalize(num, s) = Flagging(Quietly(df), {})
  BY <1>5, <1>6, <1>7
<1> HIDE DEF df
<1>9. Flagging(Quietly(df), {}) = Quietly(df)
  BY DEF Flagging, Quietly, Returns
<1> QED BY <1>8, <1>9 DEF num, df

LEMMA FitAnswers ==
  ASSUME NEW mode \in Roundings, NEW neg \in BOOLEAN,
         NEW coef \in 0 .. Power(10, DECPMAX) - 1, NEW exp \in DECQTINY .. DECQMAX
  PROVE  Answers(Quietly(Datum(neg, "fin", coef, exp)),
                 Ref!RoundTo(neg, coef, exp, FormatOf(mode)))
<1> DEFINE s == [round |-> mode]
<1>1. s.round = mode /\ coef \in Nat /\ exp \in Int
  BY FullPower, Format
<1> HIDE DEF s
<1>2. Answers(decFinalize(bcdnum(neg, coef, exp), s), Ref!RoundTo(neg, coef, exp, FormatOf(mode)))
  BY <1>1, FinalizeAnswers
<1> QED BY <1>2, FitIsFinal

LEMMA SumAnswers ==
  ASSUME NEW an \in BOOLEAN, NEW x \in Nat, NEW bn \in BOOLEAN, NEW y \in Nat,
         NEW exp \in Int, NEW mode \in Roundings, NEW s, s.round = mode
  PROVE  LET n == SumNum(an, x, bn, y, exp, mode)
         IN  Answers(decFinalize(n, s), RoundedSum(n, mode))
<1> DEFINE n == SumNum(an, x, bn, y, exp, mode)
<1>1. /\ n = bcdnum(n.neg, n.coef, n.exp)
      /\ n.neg \in BOOLEAN /\ n.coef \in Nat /\ n.exp \in Int
  BY SumParts
<1> HIDE DEF n
<1>2. Answers(decFinalize(bcdnum(n.neg, n.coef, n.exp), s),
              Ref!RoundTo(n.neg, n.coef, n.exp, FormatOf(mode)))
  BY <1>1, FinalizeAnswers
<1> QED BY <1>1, <1>2 DEF RoundedSum, n

\* A decFloat with another sign.
GivenSign(df, neg) == [df EXCEPT !.neg = neg]

LEMMA Resigned ==
  ASSUME NEW df \in decFloat, NEW neg \in BOOLEAN
  PROVE  LET d == GivenSign(df, neg)
         IN  /\ d \in decFloat /\ d.neg = neg /\ d.kind = df.kind /\ d.coef = df.coef
             /\ d.exp = df.exp /\ d.canonical = df.canonical
             /\ df.canonical => d = Datum(neg, df.kind, df.coef, df.exp)
<1> DEFINE d == GivenSign(df, neg)
<1>1. d \in decFloat
  BY Recoded DEF GivenSign
<1>2. /\ d.neg = neg /\ d.kind = df.kind /\ d.coef = df.coef /\ d.exp = df.exp
      /\ d.canonical = df.canonical
  BY DEF decFloat, FiniteDatum, InfiniteDatum, PayloadDatum, GivenSign
<1> HIDE DEF d
<1>3. d = Encoding(d.neg, d.kind, d.coef, d.exp, d.canonical)
  BY <1>1 DEF decFloat, FiniteDatum, InfiniteDatum, PayloadDatum, Encoding
<1>4. df.canonical => d = Datum(neg, df.kind, df.coef, df.exp)
  <2>1. df.canonical \in BOOLEAN
    BY DatumParts
  <2> QED BY <1>2, <1>3, <2>1 DEF Datum
<1> QED BY <1>1, <1>2, <1>4 DEF d

\* The sum of two numbers of which the first one is zero.
LEMMA AddZeroRight ==
  ASSUME NEW hi \in decFloat, NEW lo \in decFloat, lo.kind = "fin", hi.coef = 0,
         NEW s, s.round \in Roundings
  PROVE  LET n == SumNum(hi.neg, 0, lo.neg, lo.coef, lo.exp, s.round)
         IN  Answers(Quietly(AddZero(lo, DiffSign(hi, lo), s)), RoundedSum(n, s.round))
<1> DEFINE mode == s.round
           floor == (s.round = "FLOOR")
           n == SumNum(hi.neg, 0, lo.neg, lo.coef, lo.exp, mode)
           z == AddZero(lo, DiffSign(hi, lo), s)
<1>1. /\ lo.neg \in BOOLEAN /\ hi.neg \in BOOLEAN /\ lo.coef \in 0 .. Power(10, DECPMAX) - 1
      /\ lo.exp \in DECQTINY .. DECQMAX /\ lo.coef \in Nat /\ lo.exp \in Int
  BY DatumParts, FullPower, Format
<1>2. floor \in BOOLEAN
  OBVIOUS
<1> HIDE DEF floor
<1>3. /\ z = Datum(n.neg, "fin", lo.coef, lo.exp)
      /\ n.coef = lo.coef /\ n.exp = lo.exp /\ n.neg \in BOOLEAN
  <2>1. CASE hi.neg # lo.neg /\ lo.coef = 0
    <3>1. n = bcdnum(floor, 0, lo.exp)
      BY <2>1 DEF SumNum, floor
    <3> DEFINE d == Datum(lo.neg, "fin", lo.coef, lo.exp)
    <3>2. z = GivenSign(d, floor)
      BY <2>1 DEF AddZero, DiffSign, DFISZERO, decCanonical, floor, GivenSign
    <3>3. GivenSign(d, floor) = Datum(floor, "fin", lo.coef, lo.exp)
      <4>1. d \in decFloat
        BY <1>1, FiniteDatumIs
      <4>2. d.kind = "fin" /\ d.coef = lo.coef /\ d.exp = lo.exp /\ d.canonical
        BY DEF Datum, Encoding
      <4> HIDE DEF d
      <4> QED BY <1>2, <4>1, <4>2, Resigned
    <3> HIDE DEF d
    <3> HIDE DEF n, z
    <3> QED BY <1>2, <2>1, <3>1, <3>2, <3>3, NumFields
  <2>2. CASE ~(hi.neg # lo.neg /\ lo.coef = 0)
    <3>1. n = bcdnum(lo.neg, lo.coef, lo.exp)
      <4>1. 0 + lo.coef = lo.coef /\ ~(0 > lo.coef) /\ lo.coef - 0 = lo.coef
            /\ (lo.coef # 0 => 0 < lo.coef)
        BY <1>1
      <4> QED BY <2>2, <4>1 DEF SumNum
    <3>2. z = Datum(lo.neg, "fin", lo.coef, lo.exp)
      BY <2>2 DEF AddZero, DiffSign, DFISZERO, decCanonical
    <3> HIDE DEF n, z
    <3> QED BY <1>1, <3>1, <3>2, NumFields
  <2> QED BY <2>1, <2>2
<1> HIDE DEF n, z
<1>4. Answers(Quietly(Datum(n.neg, "fin", lo.coef, lo.exp)),
              Ref!RoundTo(n.neg, lo.coef, lo.exp, FormatOf(mode)))
  BY <1>1, <1>3, FitAnswers
<1> QED BY <1>3, <1>4 DEF RoundedSum, n, z

LEMMA AddOrderedRight ==
  ASSUME NEW hi \in decFloat, NEW lo \in decFloat, hi.kind = "fin", lo.kind = "fin",
         hi.exp >= lo.exp, NEW s, s.round \in Roundings
  PROVE  LET n == SumNum(hi.neg, hi.coef * Power(10, hi.exp - lo.exp), lo.neg, lo.coef,
                         lo.exp, s.round)
         IN  Answers(AddOrdered(hi, lo, s), RoundedSum(n, s.round))
<1> DEFINE mode == s.round
           d == hi.exp - lo.exp
           x == hi.coef * Power(10, d)
           n == SumNum(hi.neg, x, lo.neg, lo.coef, lo.exp, mode)
<1>1. /\ hi.neg \in BOOLEAN /\ hi.coef \in Nat /\ hi.exp \in Int
      /\ lo.neg \in BOOLEAN /\ lo.coef \in 0 .. Power(10, DECPMAX) - 1 /\ lo.coef \in Nat
      /\ lo.exp \in Int /\ d \in Nat
  BY DatumParts, FullPower, Format
<1>2. Power(10, d) \in Nat \ {0} /\ x \in Nat
  <2> DEFINE f == Power(10, d)
  <2>1. f \in Nat \ {0}
    <3> HIDE DEF d
    <3> QED BY <1>1, TenPower
  <2> HIDE DEF f
  <2> QED BY <1>1, <2>1 DEF f
<1>3. CASE DFISZERO(hi)
  <2>1. hi.coef = 0 /\ x = 0
    BY <1>2, <1>3 DEF DFISZERO
  <2>2. Answers(Quietly(AddZero(lo, DiffSign(hi, lo), s)),
                RoundedSum(SumNum(hi.neg, 0, lo.neg, lo.coef, lo.exp, mode), mode))
    BY <2>1, AddZeroRight
  <2> QED BY <1>3, <2>1, <2>2 DEF AddOrdered
<1>4. CASE ~DFISZERO(hi)
  <2> DEFINE a == Num(hi)
             b == Num(lo)
  <2>1. AddOrdered(hi, lo, s) = decFinalize(AlignedSum(a, Brought(a, b), s), s)
    BY <1>4 DEF AddOrdered
  <2>2. /\ a = bcdnum(hi.neg, hi.coef, hi.exp) /\ b = bcdnum(lo.neg, lo.coef, lo.exp)
        /\ a.exp = hi.exp /\ b.exp = lo.exp /\ b.coef = lo.coef
    BY NumFields DEF Num
  <2>3. Answers(decFinalize(n, s), RoundedSum(n, mode))
    <3> HIDE DEF x
    <3> QED BY <1>1, <1>2, SumAnswers
  <2>4. CASE ~(d > 2 * DECPMAX)
    <3>1. Brought(a, b) = b
      BY <2>2, <2>4 DEF Brought
    <3>2. AlignedSum(a, b, s) = n
      <4>1. AlignedExactly(hi.neg, hi.coef, hi.exp, lo.neg, lo.coef, lo.exp, s)
        BY <1>1, AlignedIsExact
      <4> HIDE DEF a, b
      <4> QED BY <2>2, <4>1 DEF AlignedExactly
    <3> HIDE DEF a, b, n
    <3> QED BY <2>1, <2>3, <3>1, <3>2 DEF n
  <2>5. CASE d > 2 * DECPMAX
    <3> DEFINE one == IF lo.coef = 0 THEN 0 ELSE 1
               e == hi.exp - DECPMAX - 1
               top == hi.coef * Power(10, DECPMAX)
               k == d - DECPMAX
    <3>1. one \in Nat /\ e \in Int /\ k \in Nat \ {0} /\ k > DECPMAX /\ hi.exp - e = DECPMAX + 1
      BY <1>1, <2>5, Format
    <3>2. Brought(a, b) = bcdnum(lo.neg, one, e)
      <4>1. Brought(a, b) = [b EXCEPT !.coef = one, !.exp = e]
        <5> HIDE DEF a, b
        <5> QED BY <2>2, <2>5 DEF Brought
      <4> DEFINE m == Brought(a, b)
      <4>2. b \in BcdNum /\ b.neg = lo.neg
        BY NumIs
      <4>3. m \in BcdNum /\ m.neg = lo.neg /\ m.coef = one /\ m.exp = e
        <5> HIDE DEF one, e, b
        <5> QED BY <3>1, <4>1, <4>2 DEF BcdNum
      <4> HIDE DEF m, one, e
      <4>4. m = bcdnum(m.neg, m.coef, m.exp)
        BY <4>3 DEF BcdNum, bcdnum
      <4> QED BY <4>3, <4>4 DEF m
    <3>3. AlignedSum(a, Brought(a, b), s)
            = SumNum(hi.neg, hi.coef * Power(10, DECPMAX + 1), lo.neg, one, e, mode)
      <4>1. hi.exp >= e
        BY <3>1, <1>1, Format
      <4> HIDE DEF a, b, one, e
      <4>2. AlignedSum(bcdnum(hi.neg, hi.coef, hi.exp), bcdnum(lo.neg, one, e), s)
              = SumNum(hi.neg, hi.coef * Power(10, hi.exp - e), lo.neg, one, e, mode)
        <5>1. AlignedExactly(hi.neg, hi.coef, hi.exp, lo.neg, one, e, s)
          BY <1>1, <3>1, <4>1, AlignedIsExact
        <5> QED BY <5>1 DEF AlignedExactly
      <4> QED BY <2>2, <3>1, <3>2, <4>2
    <3>4. /\ top \in Nat /\ top >= Power(10, DECPMAX)
          /\ hi.coef * Power(10, DECPMAX + 1) = top * Power(10, 1)
          /\ x = top * Power(10, k)
      <4> DEFINE f == Power(10, DECPMAX)
                 g == Power(10, k)
      <4>1. Power(10, 1) = 10 /\ Power(10, DECPMAX + 1) = 10 * f /\ f \in Nat \ {0}
        BY PowerOne, PowerNext, Format, FullPower
      <4>2. Power(10, d) = f * g
        <5>1. d = DECPMAX + k
          BY <1>1, Format
        <5> HIDE DEF d, k
        <5> QED BY <3>1, <5>1, Format, PowerSum
      <4>3. g \in Nat \ {0}
        <5> HIDE DEF k
        <5> QED BY <3>1, TenPower
      <4>4. hi.coef \in Nat \ {0}
        BY <1>1, <1>4 DEF DFISZERO
      <4> HIDE DEF f, g, d, k
      <4>5. hi.coef * f \in Nat /\ hi.coef * f >= f /\ hi.coef * (10 * f) = (hi.coef * f) * 10
            /\ hi.coef * (f * g) = (hi.coef * f) * g
        BY <4>1, <4>3, <4>4
      <4> QED BY <4>1, <4>2, <4>5 DEF f, g
    <3>5. /\ one \in 0 .. Power(10, 1) - 1 /\ 2 * one < Power(10, 1)
          /\ lo.coef \in 0 .. Power(10, k) - 1 /\ 2 * lo.coef < Power(10, k)
          /\ lo.coef = 0 <=> one = 0
      <4>1. Power(10, 1) = 10
        BY PowerOne
      <4>2. 10 * Power(10, DECPMAX) <= Power(10, k)
        <5> HIDE DEF k
        <5> QED BY <3>1, Format, PowerGap
      <4> DEFINE g == Power(10, k)
      <4>3. g \in Nat
        <5> HIDE DEF k
        <5> QED BY <3>1, TenPower
      <4> HIDE DEF g, k
      <4> QED BY <1>1, <4>1, <4>2, <4>3, FullPower DEF g
    <3> DEFINE te == hi.exp - DECPMAX
    <3>6. te \in Int /\ te - 1 = e /\ te - k = lo.exp
      BY <1>1, Format
    <3> HIDE DEF te, top, k, one, e, d, x
    <3>7. decFinalize(SumNum(hi.neg, top * Power(10, k), lo.neg, lo.coef, te - k, mode), s)
            = decFinalize(SumNum(hi.neg, top * Power(10, 1), lo.neg, one, te - 1, mode), s)
      <4>1. TailedAlike(hi.neg, top, k, lo.coef, 1, one, lo.neg, te, mode, s)
        BY <1>1, <3>1, <3>4, <3>5, <3>6, TailSums
      <4> QED BY <4>1 DEF TailedAlike
    <3>8. decFinalize(n, s) = AddOrdered(hi, lo, s)
      BY <2>1, <3>3, <3>4, <3>6, <3>7
    <3> QED BY <2>3, <3>8 DEF d, x
  <2> QED BY <2>4, <2>5
<1> QED BY <1>3, <1>4

LEMMA FiniteParts ==
  ASSUME NEW df \in decFloat, df.kind = "fin"
  PROVE  /\ Finite(AsNumber(df)) /\ Finite(df)
         /\ df.coef \in 0 .. Power(10, DECPMAX) - 1 /\ df.exp \in DECQTINY .. DECQMAX
<1>1. /\ df.neg \in BOOLEAN /\ df.coef \in Nat /\ df.exp \in Int
      /\ df.coef \in 0 .. Power(10, DECPMAX) - 1 /\ df.exp \in DECQTINY .. DECQMAX
  BY DatumParts, FullPower, Format
<1> QED BY <1>1, AsNumberFields DEF Finite

LEMMA SimpleFits ==
  ASSUME NEW dfl \in decFloat, NEW dfr \in decFloat, SimpleSum(dfl, dfr)
  PROVE  dfl.coef + dfr.coef \in 0 .. Power(10, DECPMAX) - 1
<1> DEFINE h == Power(10, DECPMAX - 1)
           x == dfl.coef
           y == dfr.coef
           a == x \div h
           b == y \div h
           rx == x % h
           ry == y % h
<1>1. h \in Nat \ {0} /\ Power(10, DECPMAX) = 10 * h /\ x \in Nat /\ y \in Nat
  BY FullPower, DatumParts
<1>2. a + b <= 8
  BY DEF SimpleSum, MSD
<1> HIDE DEF h, x, y
<1>3. x = a * h + rx /\ rx \in 0 .. h - 1 /\ a \in Int
  BY <1>1
<1>4. y = b * h + ry /\ ry \in 0 .. h - 1 /\ b \in Int
  BY <1>1
<1> HIDE DEF a, b, rx, ry
<1>5. a * h + b * h = (a + b) * h /\ (a + b) * h <= 8 * h
  BY <1>1, <1>2, <1>3, <1>4
<1>6. x + y \in 0 .. Power(10, DECPMAX) - 1
  BY <1>1, <1>3, <1>4, <1>5
<1> QED BY <1>6 DEF x, y

LEMMA FiniteAddRight ==
  ASSUME NEW dfl \in decFloat, NEW dfr \in decFloat, dfl.kind = "fin", dfr.kind = "fin",
         NEW s, s.round \in Roundings
  PROVE  Answers(decFloatAdd(dfl, dfr, s),
                 Ref!RefAdd(AsNumber(dfl), AsNumber(dfr), FormatOf(s.round)))
<1> DEFINE mode == s.round
           l == AsNumber(dfl)
           r == AsNumber(dfr)
           c == FormatOf(mode)
<1>1. ~AnySpecial(dfl, dfr)
  BY DEF AnySpecial, DFISSPECIAL
<1>2. /\ Finite(l) /\ Finite(r) /\ Finite(dfl) /\ Finite(dfr)
      /\ dfl.exp \in DECQTINY .. DECQMAX
      /\ l.neg = dfl.neg /\ l.coef = dfl.coef /\ l.exp = dfl.exp
      /\ r.neg = dfr.neg /\ r.coef = dfr.coef /\ r.exp = dfr.exp
  BY FiniteParts, AsNumberFields
<1>3. dfl.exp \in Int /\ dfr.exp \in Int
  BY <1>2 DEF Finite
<1> HIDE DEF l, r, c
<1>4. CASE SimpleSum(dfl, dfr)
  <2> DEFINE sum == dfl.coef + dfr.coef
             n == SumNum(dfl.neg, dfl.coef, dfr.neg, dfr.coef, dfr.exp, mode)
  <2>1. dfl.neg = dfr.neg /\ dfl.exp = dfr.exp
    BY <1>4 DEF SimpleSum, DiffSign
  <2>2. decFloatAdd(dfl, dfr, s) = Quietly(Datum(dfl.neg, "fin", sum, dfl.exp))
    BY <1>1, <1>4 DEF decFloatAdd
  <2>3. sum \in 0 .. Power(10, DECPMAX) - 1
    BY <1>4, SimpleFits
  <2> HIDE DEF sum
  <2>4. Answers(decFloatAdd(dfl, dfr, s), Ref!RoundTo(dfl.neg, sum, dfl.exp, FormatOf(mode)))
    BY <1>2, <2>2, <2>3, FitAnswers DEF Finite
  <2>5. n = bcdnum(dfl.neg, sum, dfl.exp)
    BY <2>1 DEF SumNum, sum
  <2>6. dfl.coef * Power(10, dfl.exp - dfr.exp) = dfl.coef
    <3>1. dfl.exp - dfr.exp = 0 /\ Power(10, 0) = 1 /\ dfl.coef \in Nat
      BY <1>2, <1>3, <2>1, PowerZero DEF Finite
    <3> QED BY <3>1
  <2>7. Ref!RefAdd(l, r, FormatOf(mode)) = RoundedSum(n, mode)
    <3>1. Ref!RefAdd(l, r, FormatOf(mode))
            = RoundedSum(SumNum(l.neg, l.coef * Power(10, l.exp - r.exp), r.neg, r.coef, r.exp, mode),
                         mode)
      <4>1. l.exp >= r.exp
        BY <1>2, <1>3, <2>1
      <4> QED BY <1>2, <4>1, RefAddIs
    <3> QED BY <1>2, <2>6, <3>1
  <2> HIDE DEF n
  <2> QED BY <2>4, <2>5, <2>7, NumFields DEF RoundedSum, l, r, c
<1>5. CASE ~SimpleSum(dfl, dfr) /\ dfl.exp >= dfr.exp
  <2> DEFINE n == SumNum(dfl.neg, dfl.coef * Power(10, dfl.exp - dfr.exp), dfr.neg, dfr.coef,
                         dfr.exp, mode)
  <2>1. decFloatAdd(dfl, dfr, s) = AddOrdered(dfl, dfr, s)
    BY <1>1, <1>5 DEF decFloatAdd
  <2>2. Answers(AddOrdered(dfl, dfr, s), RoundedSum(n, mode))
    BY <1>5, AddOrderedRight
  <2>3. Ref!RefAdd(l, r, FormatOf(mode))
          = RoundedSum(SumNum(l.neg, l.coef * Power(10, l.exp - r.exp), r.neg, r.coef, r.exp, mode),
                       mode)
    <3>1. l.exp >= r.exp
      BY <1>2, <1>5
    <3> QED BY <1>2, <3>1, RefAddIs
  <2> QED BY <1>2, <2>1, <2>2, <2>3 DEF l, r
<1>6. CASE ~SimpleSum(dfl, dfr) /\ ~(dfl.exp >= dfr.exp)
  <2> DEFINE n == SumNum(dfr.neg, dfr.coef * Power(10, dfr.exp - dfl.exp), dfl.neg, dfl.coef,
                         dfl.exp, mode)
  <2>1. decFloatAdd(dfl, dfr, s) = AddOrdered(dfr, dfl, s) /\ dfr.exp >= dfl.exp
    BY <1>1, <1>3, <1>6 DEF decFloatAdd
  <2>2. Answers(AddOrdered(dfr, dfl, s), RoundedSum(n, mode))
    BY <2>1, AddOrderedRight
  <2>3. Ref!RefAdd(l, r, FormatOf(mode))
          = RoundedSum(SumNum(r.neg, r.coef * Power(10, r.exp - l.exp), l.neg, l.coef, l.exp, mode),
                       mode)
    <3>1. r.exp >= l.exp
      BY <1>2, <2>1
    <3> QED BY <1>2, <3>1, RefAddIs
  <2> QED BY <1>2, <2>1, <2>2, <2>3 DEF l, r
<1> QED BY <1>4, <1>5, <1>6

LEMMA ReferenceParts ==
  /\ Pair(Ref!InvalidOperation)
  /\ \A n : Pair(Ref!Exactly(n))
BY DEF Pair, Ref!InvalidOperation, Ref!Exactly

\* Answers that no exponent or rounding mode changes.
LEMMA InvalidAnswers == Answers(decInvalid, Ref!InvalidOperation)
<1>1. AsNumber(NaNDatum) = Ref!QuietNaN
  <2>1. 0 \in 0 .. Power(10, DECPMAX) - 1
    BY FullPower
  <2>2. AsNumber(NaNDatum) = Figure(FALSE, "nan", CoefLength(0), 0, 0)
    BY <2>1, NumberOf DEF NaNDatum
  <2>3. CoefLength(0) = 1
    BY LengthBounds
  <2>4. Ref!QuietNaN = Figure(FALSE, "nan", CoefLength(0), 0, 0)
    BY NumberFigure DEF Ref!QuietNaN
  <2> QED BY <2>2, <2>3, <2>4
<1>2. decInvalid.n = NaNDatum /\ decInvalid.status = {"Invalid_operation"}
  BY ReturnsFields DEF decInvalid
<1>3. Ref!InvalidOperation.n = Ref!QuietNaN /\ Ref!InvalidOperation.status = {"Invalid_operation"}
  BY DEF Ref!InvalidOperation
<1> QED BY <1>1, <1>2, <1>3 DEF Answers

LEMMA InfinityAnswers ==
  ASSUME NEW neg \in BOOLEAN
  PROVE  /\ Answers(Quietly(InfinityDatum(neg)), Ref!Exactly(Ref!Infinite(neg)))
         /\ AsNumber(InfinityDatum(neg)) = Ref!Infinite(neg)
<1>1. AsNumber(InfinityDatum(neg)) = Ref!Infinite(neg)
  <2>1. 0 \in 0 .. Power(10, DECPMAX) - 1
    BY FullPower
  <2>2. AsNumber(InfinityDatum(neg)) = Figure(neg, "inf", CoefLength(0), 0, 0)
    BY <2>1, NumberOf DEF InfinityDatum
  <2>3. CoefLength(0) = 1
    BY LengthBounds
  <2> QED BY <2>2, <2>3, InfiniteIs
<1>2. Ref!Exactly(Ref!Infinite(neg)).n = Ref!Infinite(neg)
      /\ Ref!Exactly(Ref!Infinite(neg)).status = {}
  BY DEF Ref!Exactly
<1> QED BY <1>1, <1>2, ReturnsFields DEF Answers

LEMMA AddAnswers ==
  ASSUME NEW dfl \in decFloat, NEW dfr \in decFloat, ~AnyNaN(dfl, dfr),
         NEW s, s.round \in Roundings
  PROVE  LET ref == Ref!RefAdd(AsNumber(dfl), AsNumber(dfr), FormatOf(s.round))
         IN  Answers(decFloatAdd(dfl, dfr, s), ref) /\ Pair(ref)
<1> DEFINE l == AsNumber(dfl)
           r == AsNumber(dfr)
           c == FormatOf(s.round)
           ref == Ref!RefAdd(l, r, c)
<1>1. /\ l.kind = dfl.kind /\ l.neg = dfl.neg /\ r.kind = dfr.kind /\ r.neg = dfr.neg
      /\ dfl.neg \in BOOLEAN /\ dfr.neg \in BOOLEAN
  BY AsNumberFields, DatumParts
<1>2. dfl.kind \in {"fin", "inf"} /\ dfr.kind \in {"fin", "inf"}
  BY DatumParts DEF AnyNaN, DFISNAN
<1>3. Pair(ref)
  <2> HIDE DEF l, r, c
  <2>1. \A neg, coef, e : Pair(Ref!RoundTo(neg, coef, e, c))
    BY ReferencePairs
  <2> QED BY <2>1, ReferenceParts DEF Ref!RefAdd
<1>4. CASE AnySpecial(dfl, dfr)
  <2> DEFINE out == decFloatAdd(dfl, dfr, s)
  <2>1. out = AddSpecial(dfl, dfr)
    BY <1>4 DEF decFloatAdd
  <2>2. dfl.kind = "inf" \/ dfr.kind = "inf"
    BY <1>2, <1>4 DEF AnySpecial, DFISSPECIAL
  <2> HIDE DEF l, r, c, out
  <2>3. CASE dfl.kind = "inf" /\ dfr.kind = "inf" /\ dfl.neg # dfr.neg
    <3>1. out = decInvalid
      BY <2>1, <2>3 DEF AddSpecial, DFISINF, DiffSign
    <3>2. ref = Ref!InvalidOperation
      BY <1>1, <2>3 DEF Ref!RefAdd
    <3> QED BY <1>3, <3>1, <3>2, InvalidAnswers DEF out, l, r, c
  <2>4. CASE dfl.kind = "inf" /\ ~(dfr.kind = "inf" /\ dfl.neg # dfr.neg)
    <3>1. out = Quietly(InfinityDatum(dfl.neg))
      BY <2>1, <2>4 DEF AddSpecial, DFISINF, DiffSign, decInfinity
    <3>2. ref = Ref!Exactly(Ref!Infinite(dfl.neg))
      BY <1>1, <2>4 DEF Ref!RefAdd
    <3> QED BY <1>1, <1>3, <3>1, <3>2, InfinityAnswers DEF out, l, r, c
  <2>5. CASE dfl.kind # "inf"
    <3>1. out = Quietly(InfinityDatum(dfr.neg))
      BY <2>1, <2>5 DEF AddSpecial, DFISINF, DiffSign, decInfinity
    <3>2. ref = Ref!Exactly(Ref!Infinite(dfr.neg))
      BY <1>1, <2>2, <2>5 DEF Ref!RefAdd
    <3> QED BY <1>1, <1>3, <3>1, <3>2, InfinityAnswers DEF out, l, r, c
  <2> QED BY <2>3, <2>4, <2>5
<1>5. CASE ~AnySpecial(dfl, dfr)
  <2>1. dfl.kind = "fin" /\ dfr.kind = "fin"
    BY <1>5 DEF AnySpecial, DFISSPECIAL
  <2> QED BY <1>3, <2>1, FiniteAddRight
<1> QED BY <1>4, <1>5

\* The answer of an ordinary operation of two operands.
LEMMA BinaryRight ==
  ASSUME NEW op \in Ordinary \cap Ref!Determined, ~Ref!Unary(op), op # "CompareSignal",
         NEW l \in decFloat, NEW r \in decFloat, NEW mode, NEW out,
         AnyNaN(l, r) => out = decNaNs(l, r),
         ~AnyNaN(l, r) =>
           LET ref == Ref!Reference(op, AsNumber(l), AsNumber(r), FormatOf(mode))
           IN  Answers(out, ref) /\ Pair(ref)
  PROVE  Right(op, l, r, mode, out)
<1>1. RightOperand(op, l, r) = r
  BY DEF RightOperand
<1>2. CASE AnyNaN(l, r)
  <2>1. out.status = decNaNs(l, r).status \cup IF op = "CompareSignal" THEN {"Invalid_operation"} ELSE {}
    BY <1>2
  <2>2. out.n = decNaNs(l, r).n
    BY <1>2
  <2> QED BY <1>1, <1>2, <2>1, <2>2, NaNRight
<1>3. CASE ~AnyNaN(l, r)
  <2> DEFINE ref == Ref!Reference(op, AsNumber(l), AsNumber(r), FormatOf(mode))
  <2>1. Answers(out, ref) /\ Pair(ref)
    BY <1>3
  <2>2. ref = Ref!Reference(op, AsNumber(l), AsNumber(RightOperand(op, l, r)), FormatOf(mode))
    BY <1>1
  <2> HIDE DEF ref
  <2> QED BY <1>1, <1>3, <2>1, <2>2, OrdinaryRight
<1> QED BY <1>2, <1>3

LEMMA UnaryRight ==
  ASSUME NEW op \in Ordinary \cap Ref!Determined, Ref!Unary(op), op # "CompareSignal",
         NEW df \in decFloat, NEW mode, NEW out,
         DFISNAN(df) => out = decNaNs(df, df),
         ~DFISNAN(df) =>
           LET ref == Ref!Reference(op, AsNumber(df), AsNumber(df), FormatOf(mode))
           IN  Answers(out, ref) /\ Pair(ref)
  PROVE  Right(op, df, df, mode, out)
<1>1. RightOperand(op, df, df) = df
  BY DEF RightOperand
<1>0. AnyNaN(df, df) <=> DFISNAN(df)
  BY DEF AnyNaN
<1>2. CASE DFISNAN(df)
  <2>1. out.status = decNaNs(df, df).status \cup IF op = "CompareSignal" THEN {"Invalid_operation"} ELSE {}
    BY <1>2
  <2>2. out.n = decNaNs(df, df).n
    BY <1>2
  <2> QED BY <1>0, <1>1, <1>2, <2>1, <2>2, NaNRight
<1>3. CASE ~DFISNAN(df)
  <2> DEFINE ref == Ref!Reference(op, AsNumber(df), AsNumber(df), FormatOf(mode))
  <2>1. Answers(out, ref) /\ Pair(ref)
    BY <1>3
  <2>2. ref = Ref!Reference(op, AsNumber(df), AsNumber(RightOperand(op, df, df)), FormatOf(mode))
    BY <1>1
  <2> HIDE DEF ref
  <2> QED BY <1>0, <1>1, <1>3, <2>1, <2>2, OrdinaryRight
<1> QED BY <1>2, <1>3

LEMMA AddRight ==
  ASSUME NEW l \in decFloat, NEW r \in decFloat, NEW s, s.round \in Roundings
  PROVE  Right("Add", l, r, s.round, decFloatAdd(l, r, s))
<1> DEFINE out == decFloatAdd(l, r, s)
           ref == Ref!Reference("Add", AsNumber(l), AsNumber(r), FormatOf(s.round))
<1>1. "Add" \in Ordinary \cap Ref!Determined /\ ~Ref!Unary("Add")
  BY DEF Ordinary, Ref!Promised, Ref!Determined, Ref!Logicals, Ref!Unary
<1>2. AnyNaN(l, r) => out = decNaNs(l, r)
  BY DEF decFloatAdd, AnySpecial, AnyNaN, DFISSPECIAL, DFISNAN, AddSpecial
<1>3. ref = Ref!RefAdd(AsNumber(l), AsNumber(r), FormatOf(s.round))
  BY DEF Ref!Reference, Ref!Logicals
<1>4. ~AnyNaN(l, r) => Answers(out, ref) /\ Pair(ref)
  <2> DEFINE sum == Ref!RefAdd(AsNumber(l), AsNumber(r), FormatOf(s.round))
  <2>1. ~AnyNaN(l, r) => Answers(decFloatAdd(l, r, s), sum) /\ Pair(sum)
    BY AddAnswers
  <2> QED BY <1>3, <2>1
<1> HIDE DEF out
<1> QED BY <1>1, <1>2, <1>4, BinaryRight DEF out

\* Signs of numbers and of the decFloats they are of.
NumberSet == [neg: BOOLEAN, kind: {"fin", "inf", "nan", "snan"}, digits: Nat, coef: Nat, exp: Int]

LEMMA AsNumberSet ==
  ASSUME NEW df \in decFloat PROVE AsNumber(df) \in NumberSet
<1>1. /\ df.neg \in BOOLEAN /\ df.kind \in {"fin", "inf", "nan", "snan"}
      /\ df.coef \in Nat /\ df.exp \in Int
  BY DatumParts, FullPower, Format
<1>2. CoefLength(df.coef) \in Nat
  BY <1>1, LengthBounds
<1>3. AsNumber(df) = Figure(df.neg, df.kind, CoefLength(df.coef), df.coef, df.exp)
  BY AsNumberIs
<1> QED BY <1>1, <1>2, <1>3 DEF Figure, NumberSet

LEMMA SignedNumbers ==
  ASSUME NEW df \in decFloat
  PROVE  /\ Ref!Opposite(AsNumber(df)) = AsNumber(GivenSign(df, ~df.neg))
         /\ Ref!Magnitude(AsNumber(df)) = AsNumber(GivenSign(df, FALSE))
<1> DEFINE n == AsNumber(df)
<1>1. ASSUME NEW neg \in BOOLEAN
      PROVE  [n EXCEPT !.neg = neg] = AsNumber(GivenSign(df, neg))
  <2> DEFINE m == [n EXCEPT !.neg = neg]
             d == GivenSign(df, neg)
  <2>1. /\ n \in NumberSet /\ n.kind = df.kind /\ n.coef = df.coef /\ n.exp = df.exp
        /\ n.digits = CoefLength(df.coef)
    BY AsNumberSet, AsNumberFields, AsNumberIs, FigureFields
  <2> HIDE DEF n
  <2>2. /\ m \in NumberSet /\ m.neg = neg /\ m.kind = df.kind /\ m.coef = df.coef
        /\ m.exp = df.exp /\ m.digits = CoefLength(df.coef)
    BY <2>1 DEF NumberSet
  <2> HIDE DEF m
  <2>3. m = Figure(m.neg, m.kind, m.digits, m.coef, m.exp)
    BY <2>2 DEF NumberSet, Figure
  <2>4. d \in decFloat /\ d.neg = neg /\ d.kind = df.kind /\ d.coef = df.coef /\ d.exp = df.exp
    BY Resigned
  <2> HIDE DEF d
  <2>5. AsNumber(d) = Figure(d.neg, d.kind, CoefLength(d.coef), d.coef, d.exp)
    BY <2>4, AsNumberIs
  <2>6. m = AsNumber(d)
    BY <2>2, <2>3, <2>4, <2>5
  <2> QED BY <2>6 DEF m, d
<1>2. Ref!Opposite(n) = [n EXCEPT !.neg = ~df.neg]
  BY AsNumberFields DEF Ref!Opposite
<1>3. Ref!Magnitude(n) = [n EXCEPT !.neg = FALSE]
  BY DEF Ref!Magnitude
<1> HIDE DEF n
<1>4. (~df.neg) \in BOOLEAN
  OBVIOUS
<1>5. [n EXCEPT !.neg = ~df.neg] = AsNumber(GivenSign(df, ~df.neg))
  BY <1>1, <1>4
<1>6. [n EXCEPT !.neg = FALSE] = AsNumber(GivenSign(df, FALSE))
  BY <1>1
<1> QED BY <1>2, <1>3, <1>5, <1>6 DEF n

LEMMA SubtractRight ==
  ASSUME NEW l \in decFloat, NEW r \in decFloat, NEW s, s.round \in Roundings
  PROVE  Right("Subtract", l, r, s.round, decFloatSubtract(l, r, s))
<1> DEFINE out == decFloatSubtract(l, r, s)
           ref == Ref!Reference("Subtract", AsNumber(l), AsNumber(r), FormatOf(s.round))
           m == GivenSign(r, ~r.neg)
<1>1. "Subtract" \in Ordinary \cap Ref!Determined /\ ~Ref!Unary("Subtract")
  BY DEF Ordinary, Ref!Promised, Ref!Determined, Ref!Logicals, Ref!Unary
<1>2. m \in decFloat /\ m.kind = r.kind
  BY Resigned
<1>3. AnyNaN(l, r) => out = decNaNs(l, r)
  <2>1. CASE DFISNAN(r)
    <3>1. out = decFloatAdd(l, r, s)
      BY <2>1 DEF decFloatSubtract
    <3> QED BY <2>1, <3>1 DEF decFloatAdd, AnySpecial, AnyNaN, DFISSPECIAL, DFISNAN, AddSpecial
  <2>2. CASE ~DFISNAN(r)
    <3>1. out = decFloatAdd(l, m, s)
      BY <2>2 DEF decFloatSubtract, GivenSign
    <3> HIDE DEF m, out
    <3>2. AnyNaN(l, r) => /\ out = decNaNs(l, m) /\ DFISNAN(l)
      BY <1>2, <2>2, <3>1 DEF decFloatAdd, AnySpecial, AnyNaN, DFISSPECIAL, DFISNAN, AddSpecial
    <3>3. AnyNaN(l, r) => decNaNs(l, m) = decNaNs(l, r)
      BY <1>2, <2>2, <3>2 DEF decNaNs, DFISNAN
    <3> QED BY <3>2, <3>3
  <2> QED BY <2>1, <2>2
<1>4. ref = Ref!RefAdd(AsNumber(l), AsNumber(m), FormatOf(s.round))
  <2>1. ref = Ref!RefAdd(AsNumber(l), Ref!Opposite(AsNumber(r)), FormatOf(s.round))
    BY DEF Ref!Reference, Ref!Logicals
  <2> HIDE DEF ref
  <2> QED BY <2>1, SignedNumbers
<1>5. ~AnyNaN(l, r) => Answers(out, ref) /\ Pair(ref)
  <2> DEFINE sum == Ref!RefAdd(AsNumber(l), AsNumber(m), FormatOf(s.round))
  <2>1. ~AnyNaN(l, r) => out = decFloatAdd(l, m, s) /\ ~AnyNaN(l, m)
    BY <1>2 DEF decFloatSubtract, GivenSign, AnyNaN, DFISNAN
  <2>2. ~AnyNaN(l, m) => Answers(decFloatAdd(l, m, s), sum) /\ Pair(sum)
    <3> HIDE DEF m
    <3> QED BY <1>2, AddAnswers
  <2> HIDE DEF sum, m, out, ref
  <2> QED BY <1>4, <2>1, <2>2 DEF sum
<1> HIDE DEF out
<1> QED BY <1>1, <1>3, <1>5, BinaryRight DEF out

LEMMA MultiplyAnswers ==
  ASSUME NEW dfl \in decFloat, NEW dfr \in decFloat, ~AnyNaN(dfl, dfr),
         NEW s, s.round \in Roundings
  PROVE  LET ref == Ref!RefMultiply(AsNumber(dfl), AsNumber(dfr), FormatOf(s.round))
         IN  Answers(decFloatMultiply(dfl, dfr, s), ref) /\ Pair(ref)
<1> DEFINE l == AsNumber(dfl)
           r == AsNumber(dfr)
           c == FormatOf(s.round)
           ref == Ref!RefMultiply(l, r, c)
           out == decFloatMultiply(dfl, dfr, s)
           neg == dfl.neg # dfr.neg
           coef == dfl.coef * dfr.coef
           exp == dfl.exp + dfr.exp
<1>1. /\ l.kind = dfl.kind /\ l.neg = dfl.neg /\ l.coef = dfl.coef /\ l.exp = dfl.exp
      /\ r.kind = dfr.kind /\ r.neg = dfr.neg /\ r.coef = dfr.coef /\ r.exp = dfr.exp
  BY AsNumberFields
<1>2. dfl.kind \in {"fin", "inf"} /\ dfr.kind \in {"fin", "inf"}
  BY DatumParts DEF AnyNaN, DFISNAN
<1>3. neg \in BOOLEAN /\ coef \in Nat /\ exp \in Int
  <2>1. /\ dfl.coef \in Nat /\ dfr.coef \in Nat /\ dfl.exp \in Int /\ dfr.exp \in Int
    BY DatumParts, FullPower, Format
  <2> QED BY <2>1
<1> HIDE DEF l, r, c, out
<1>4. Pair(ref)
  <2>1. \A n, m, e : Pair(Ref!RoundTo(n, m, e, c))
    BY ReferencePairs
  <2> QED BY <2>1, ReferenceParts DEF Ref!RefMultiply
<1>5. CASE InfinityTimesZero(dfl, dfr)
  <2>1. out = decInvalid
    BY <1>5 DEF out, decFloatMultiply
  <2>2. ref = Ref!InvalidOperation
    BY <1>1, <1>5 DEF Ref!RefMultiply, InfinityTimesZero, DFISINF, DFISZERO
  <2> QED BY <1>4, <2>1, <2>2, InvalidAnswers DEF out, l, r, c
<1>6. CASE ~InfinityTimesZero(dfl, dfr) /\ AnySpecial(dfl, dfr)
  <2>1. out = Quietly(InfinityDatum(neg))
    BY <1>6 DEF out, decFloatMultiply, DiffSign
  <2>2. ref = Ref!Exactly(Ref!Infinite(neg))
    BY <1>1, <1>2, <1>6 DEF Ref!RefMultiply, InfinityTimesZero, DFISINF, DFISZERO, AnySpecial,
                            DFISSPECIAL
  <2> HIDE DEF ref, neg
  <2>3. Answers(Quietly(InfinityDatum(neg)), Ref!Exactly(Ref!Infinite(neg)))
    BY <1>3, InfinityAnswers
  <2> QED BY <1>4, <2>1, <2>2, <2>3 DEF out, l, r, c, ref
<1>7. CASE ~AnySpecial(dfl, dfr)
  <2>1. out = decFinalize(bcdnum(neg, coef, exp), s)
    BY <1>7 DEF out, decFloatMultiply, DiffSign, InfinityTimesZero, decFiniteMultiply, AnySpecial,
                DFISSPECIAL, DFISINF
  <2>2. ref = Ref!RoundTo(neg, coef, exp, c)
    BY <1>1, <1>7 DEF Ref!RefMultiply, AnySpecial, DFISSPECIAL
  <2> HIDE DEF ref, neg, coef, exp
  <2>3. Answers(decFinalize(bcdnum(neg, coef, exp), s), Ref!RoundTo(neg, coef, exp, c))
    BY <1>3, FinalizeAnswers DEF c
  <2> QED BY <1>4, <2>1, <2>2, <2>3 DEF out, l, r, c, ref
<1> QED BY <1>5, <1>6, <1>7

LEMMA MultiplyRight ==
  ASSUME NEW l \in decFloat, NEW r \in decFloat, NEW s, s.round \in Roundings
  PROVE  Right("Multiply", l, r, s.round, decFloatMultiply(l, r, s))
<1> DEFINE out == decFloatMultiply(l, r, s)
           ref == Ref!Reference("Multiply", AsNumber(l), AsNumber(r), FormatOf(s.round))
<1>1. "Multiply" \in Ordinary \cap Ref!Determined /\ ~Ref!Unary("Multiply")
  BY DEF Ordinary, Ref!Promised, Ref!Determined, Ref!Logicals, Ref!Unary
<1>2. AnyNaN(l, r) => out = decNaNs(l, r)
  BY DEF decFloatMultiply
<1>3. ref = Ref!RefMultiply(AsNumber(l), AsNumber(r), FormatOf(s.round))
  BY DEF Ref!Reference, Ref!Logicals
<1>4. ~AnyNaN(l, r) => Answers(out, ref) /\ Pair(ref)
  <2> DEFINE product == Ref!RefMultiply(AsNumber(l), AsNumber(r), FormatOf(s.round))
  <2>1. ~AnyNaN(l, r) => Answers(decFloatMultiply(l, r, s), product) /\ Pair(product)
    BY MultiplyAnswers
  <2> QED BY <1>3, <2>1
<1> HIDE DEF out
<1> QED BY <1>1, <1>2, <1>4, BinaryRight DEF out

\* A decFloat given another sign is the number of that sign, rounded.
LEMMA SignAnswers ==
  ASSUME NEW df \in decFloat, ~DFISNAN(df), NEW neg \in BOOLEAN, NEW neg2,
         NEW mode \in Roundings, NEW out, out.status = {}, out.n.neg = neg,
         out.n.kind = df.kind, out.n.coef = df.coef, out.n.exp = df.exp,
         neg = IF df.kind = "inf" THEN neg2 ELSE (neg2 /\ (df.coef # 0 \/ mode = "FLOOR"))
  PROVE  LET ref == Ref!RefUnary(neg2, AsNumber(df), FormatOf(mode))
         IN  Answers(out, ref) /\ Pair(ref)
<1> DEFINE n == AsNumber(df)
           c == FormatOf(mode)
           ref == Ref!RefUnary(neg2, n, c)
<1>1. n.kind = df.kind /\ n.coef = df.coef /\ n.exp = df.exp /\ c.round = mode
  BY AsNumberFields, FormatRange
<1>2. /\ df.kind \in {"fin", "inf"} /\ df.coef \in 0 .. Power(10, DECPMAX) - 1
      /\ df.exp \in DECQTINY .. DECQMAX
      /\ df.kind = "inf" => df.coef = 0 /\ df.exp = 0
  BY DatumParts DEF DFISNAN
<1> HIDE DEF n, c
<1>3. Pair(ref)
  <2>1. \A x, m, e : Pair(Ref!RoundTo(x, m, e, c))
    BY ReferencePairs
  <2> QED BY <2>1, ReferenceParts DEF Ref!RefUnary
<1>4. CASE df.kind = "inf"
  <2>1. ref = Ref!Exactly(Ref!Infinite(neg))
    BY <1>1, <1>4 DEF Ref!RefUnary
  <2>2. Answers(Quietly(InfinityDatum(neg)), Ref!Exactly(Ref!Infinite(neg)))
    BY InfinityAnswers
  <2>3. AsNumber(out.n) = AsNumber(InfinityDatum(neg))
    <3> DEFINE d == InfinityDatum(neg)
               m == out.n
    <3>1. d.neg = neg /\ d.kind = "inf" /\ d.coef = 0 /\ d.exp = 0
      BY DEF InfinityDatum, Datum, Encoding
    <3>2. m.neg = neg /\ m.kind = "inf" /\ m.coef = 0 /\ m.exp = 0
      BY <1>2, <1>4
    <3> HIDE DEF d, m
    <3>3. AsNumber(m) = AsNumber(d)
      BY <3>1, <3>2, SameParts
    <3> QED BY <3>3 DEF m, d
  <2>4. Answers(out, Ref!Exactly(Ref!Infinite(neg)))
    BY <2>2, <2>3, ReturnsFields DEF Answers
  <2> QED BY <1>3, <2>1, <2>4 DEF n, c
<1>5. CASE df.kind = "fin"
  <2>1. ref = Ref!RoundTo(neg, df.coef, df.exp, c)
    BY <1>1, <1>5 DEF Ref!RefUnary
  <2> DEFINE d == Datum(neg, "fin", df.coef, df.exp)
  <2>2. Answers(Quietly(d), Ref!RoundTo(neg, df.coef, df.exp, c))
    BY <1>2, FitAnswers DEF c
  <2>3. AsNumber(out.n) = AsNumber(d)
    <3> DEFINE m == out.n
    <3>1. d.neg = neg /\ d.kind = "fin" /\ d.coef = df.coef /\ d.exp = df.exp
      BY DEF Datum, Encoding
    <3>2. m.neg = neg /\ m.kind = "fin" /\ m.coef = df.coef /\ m.exp = df.exp
      BY <1>5
    <3> HIDE DEF d, m
    <3>3. AsNumber(m) = AsNumber(d)
      BY <3>1, <3>2, SameParts
    <3> QED BY <3>3 DEF m
  <2> HIDE DEF d, ref
  <2>4. Answers(out, Ref!RoundTo(neg, df.coef, df.exp, c))
    BY <2>2, <2>3, ReturnsFields DEF Answers
  <2> QED BY <1>3, <2>1, <2>4 DEF n, c, ref
<1> QED BY <1>2, <1>4, <1>5

\* Not the zeros whose sign FLOOR decides: those differ by design.
LEMMA SignsRight ==
  ASSUME NEW df \in decFloat, NEW s, s.round \in Roundings
  PROVE  /\ ~(s.round = "FLOOR" /\ DFISZERO(df)) =>
              /\ Right("Plus", df, df, s.round, decFloatPlus(df, s))
              /\ Right("Minus", df, df, s.round, decFloatMinus(df, s))
         /\ Right("Abs", df, df, s.round, decFloatAbs(df, s))
<1> DEFINE n == AsNumber(df)
           c == FormatOf(s.round)
           d == decCanonical(df)
<1>1. /\ d.neg = df.neg /\ d.kind = df.kind /\ d.coef = df.coef /\ d.exp = df.exp
      /\ d \in decFloat /\ df.neg \in BOOLEAN /\ n.neg = df.neg
      /\ decNaN(df) = decNaNs(df, df)
      /\ df.kind \in {"fin", "inf", "nan", "snan"}
      /\ df.kind = "inf" => df.coef = 0 /\ df.exp = 0
  BY Canonical, DatumParts, AsNumberFields DEF decCanonical, decNaN, Datum, Encoding
<1>2. {"Plus", "Minus", "Abs"} \subseteq Ordinary \cap Ref!Determined
      /\ Ref!Unary("Plus") /\ Ref!Unary("Minus") /\ Ref!Unary("Abs")
  BY DEF Ordinary, Ref!Promised, Ref!Determined, Ref!Logicals, Ref!Unary
<1>3. /\ Ref!Reference("Plus", n, n, c) = Ref!RefUnary(n.neg, n, c)
      /\ Ref!Reference("Minus", n, n, c) = Ref!RefUnary(~n.neg, n, c)
      /\ Ref!Reference("Abs", n, n, c) = Ref!RefUnary(FALSE, n, c)
  BY DEF Ref!Reference, Ref!Logicals
<1> HIDE DEF d
<1>4. ASSUME NEW neg \in BOOLEAN, NEW neg2, ~DFISNAN(df),
             neg = IF df.kind = "inf" THEN neg2 ELSE (neg2 /\ (df.coef # 0 \/ s.round = "FLOOR"))
      PROVE  LET ref == Ref!RefUnary(neg2, n, c)
             IN  Answers(Quietly(GivenSign(d, neg)), ref) /\ Pair(ref)
  <2> DEFINE m == GivenSign(d, neg)
             out == Quietly(m)
  <2>1. m.neg = neg /\ m.kind = df.kind /\ m.coef = df.coef /\ m.exp = df.exp
    BY <1>1, Resigned
  <2>2. out.n = m /\ out.status = {}
    BY ReturnsFields
  <2> HIDE DEF m, out
  <2>3. LET ref == Ref!RefUnary(neg2, AsNumber(df), FormatOf(s.round))
        IN  Answers(out, ref) /\ Pair(ref)
    BY <1>4, <2>1, <2>2, SignAnswers
  <2> QED BY <2>3 DEF m, out
<1> DEFINE p == df.neg /\ ~DFISZERO(df)
           q == ~df.neg /\ ~DFISZERO(df)
<1>5. /\ p \in BOOLEAN /\ q \in BOOLEAN /\ FALSE \in BOOLEAN
      /\ ~DFISNAN(df) => /\ decFloatPlus(df, s) = Quietly(GivenSign(d, p))
                         /\ decFloatMinus(df, s) = Quietly(GivenSign(d, q))
                         /\ decFloatAbs(df, s) = Quietly(GivenSign(d, FALSE))
      /\ DFISNAN(df) => /\ decFloatPlus(df, s) = decNaNs(df, df)
                        /\ decFloatMinus(df, s) = decNaNs(df, df)
                        /\ decFloatAbs(df, s) = decNaNs(df, df)
  BY <1>1 DEF d, decFloatPlus, decFloatMinus, decFloatAbs, GivenSign
<1>6. ~(s.round = "FLOOR" /\ DFISZERO(df)) /\ ~DFISNAN(df) =>
        /\ p = IF df.kind = "inf" THEN df.neg ELSE (df.neg /\ (df.coef # 0 \/ s.round = "FLOOR"))
        /\ q = IF df.kind = "inf" THEN ~df.neg ELSE (~df.neg /\ (df.coef # 0 \/ s.round = "FLOOR"))
  BY <1>1 DEF DFISZERO, DFISNAN
<1> HIDE DEF p, q, c
<1>7. ASSUME ~(s.round = "FLOOR" /\ DFISZERO(df))
      PROVE  Right("Plus", df, df, s.round, decFloatPlus(df, s))
  <2> DEFINE out == decFloatPlus(df, s)
  <2>1. ~DFISNAN(df) => LET ref == Ref!Reference("Plus", n, n, c)
                        IN  Answers(out, ref) /\ Pair(ref)
    <3>1. ~DFISNAN(df) => LET ref == Ref!RefUnary(df.neg, n, c)
                          IN  Answers(Quietly(GivenSign(d, p)), ref) /\ Pair(ref)
      BY <1>4, <1>5, <1>6, <1>7
    <3> QED BY <1>1, <1>3, <1>5, <3>1
  <2>2. DFISNAN(df) => out = decNaNs(df, df)
    BY <1>5
  <2> HIDE DEF out
  <2> QED BY <1>2, <2>1, <2>2, UnaryRight DEF out, c
<1>8. ASSUME ~(s.round = "FLOOR" /\ DFISZERO(df))
      PROVE  Right("Minus", df, df, s.round, decFloatMinus(df, s))
  <2> DEFINE out == decFloatMinus(df, s)
  <2>1. ~DFISNAN(df) => LET ref == Ref!Reference("Minus", n, n, c)
                        IN  Answers(out, ref) /\ Pair(ref)
    <3>1. ~DFISNAN(df) => LET ref == Ref!RefUnary(~df.neg, n, c)
                          IN  Answers(Quietly(GivenSign(d, q)), ref) /\ Pair(ref)
      BY <1>4, <1>5, <1>6, <1>8
    <3> QED BY <1>1, <1>3, <1>5, <3>1
  <2>2. DFISNAN(df) => out = decNaNs(df, df)
    BY <1>5
  <2> HIDE DEF out
  <2> QED BY <1>2, <2>1, <2>2, UnaryRight DEF out, c
<1>9. Right("Abs", df, df, s.round, decFloatAbs(df, s))
  <2> DEFINE out == decFloatAbs(df, s)
  <2>1. ~DFISNAN(df) => LET ref == Ref!Reference("Abs", n, n, c)
                        IN  Answers(out, ref) /\ Pair(ref)
    <3>1. ~DFISNAN(df) => LET ref == Ref!RefUnary(FALSE, n, c)
                          IN  Answers(Quietly(GivenSign(d, FALSE)), ref) /\ Pair(ref)
      BY <1>4
    <3> QED BY <1>1, <1>3, <1>5, <3>1
  <2>2. DFISNAN(df) => out = decNaNs(df, df)
    BY <1>5
  <2> HIDE DEF out
  <2> QED BY <1>2, <2>1, <2>2, UnaryRight DEF out, c
<1> QED BY <1>7, <1>8, <1>9

-----------------------------------------------------------------------------
(* Quantize.                                                               *)
(***************************************************************************)
LEMMA QuantizeFlagsTold ==
  ASSUME NEW a \in BOOLEAN, NEW b \in BOOLEAN, NEW c \in BOOLEAN
  PROVE  LET flags == [Rounded |-> a, Inexact |-> b, Subnormal |-> c]
         IN  Told({f \in DOMAIN flags : flags[f]}) = IF b THEN {"Inexact"} ELSE {}
<1> DEFINE flags == [Rounded |-> a, Inexact |-> b, Subnormal |-> c]
<1>1. DOMAIN flags = {"Rounded", "Inexact", "Subnormal"}
  OBVIOUS
<1>2. flags["Inexact"] = b
  OBVIOUS
<1> HIDE DEF flags
<1>3. Told({f \in DOMAIN flags : flags[f]}) = {f \in {"Inexact"} : flags[f]}
  BY <1>1 DEF Told
<1>4. {f \in {"Inexact"} : flags[f]} = IF b THEN {"Inexact"} ELSE {}
  BY <1>2
<1> QED BY <1>3, <1>4 DEF flags

\* The coefficient of l at the exponent e, and whether it was rounded.
Requantized(l, e, mode) ==
  IF e > l.exp
  THEN Ref!RoundAt(mode, l.neg, l.coef, Ref!Least({e - l.exp, Ref!Digits(l.coef) + 1}))
  ELSE [q |-> l.coef * Ref!Power(10, l.exp - e), inexact |-> FALSE]

QuantizedTo(ref, neg, q, inexact, e) ==
  /\ Pair(ref)
  /\ CoefLength(q) > DECPMAX => ref = Ref!InvalidOperation
  /\ CoefLength(q) <= DECPMAX => /\ ref.n = Ref!Finite(neg, q, e)
                                 /\ Told(ref.status) = IF inexact THEN {"Inexact"} ELSE {}

LEMMA QuantizeToIs ==
  ASSUME NEW l, l.coef \in Nat, l.exp \in Int, NEW e \in DECQTINY .. DECQMAX, NEW mode, NEW q \in Nat,
         NEW inexact \in BOOLEAN, Requantized(l, e, mode).q = q,
         Requantized(l, e, mode).inexact = inexact
  PROVE  QuantizedTo(Ref!RefQuantizeTo(l, e, FormatOf(mode)), l.neg, q, inexact, e)
<1> DEFINE c == FormatOf(mode)
           n == CoefLength(q)
           fits == n <= DECPMAX /\ (q = 0 \/ e + n - 1 <= DECEMAX)
           tiny == q # 0 /\ e + n - 1 < DECEMIN
           rounded == l.coef # 0 /\ e > l.exp
           flags == [Rounded |-> rounded, Inexact |-> inexact, Subnormal |-> tiny]
           ref == Ref!RefQuantizeTo(l, e, c)
           good == [n |-> Ref!Finite(l.neg, q, e), status |-> {f \in DOMAIN flags : flags[f]}]
<1>1. /\ Ref!Etiny(c) = DECQTINY /\ c.emax = DECEMAX /\ c.digits = DECPMAX /\ c.round = mode
      /\ c.emin = DECEMIN
  BY FormatRange
<1>2. e \in Int /\ ~(e < DECQTINY) /\ ~(e > DECEMAX)
  BY Format
<1>3. n \in Nat \ {0} /\ Ref!Digits(q) = n
  BY LengthBounds, SameLength
<1> DEFINE r == Requantized(l, e, mode)
<1>4. ref = IF ~fits THEN Ref!InvalidOperation ELSE good
  <2>0. Ref!RefQuantizeTo(l, e, c)
          = LET fits2 == /\ Ref!Digits(r.q) <= c.digits
                         /\ r.q = 0 \/ e + Ref!Digits(r.q) - 1 <= c.emax
                tiny2 == r.q # 0 /\ e + Ref!Digits(r.q) - 1 < c.emin
                flags2 == [Rounded |-> l.coef # 0 /\ e > l.exp, Inexact |-> r.inexact,
                           Subnormal |-> tiny2]
            IN  IF e < Ref!Etiny(c) \/ e > c.emax \/ ~fits2 THEN Ref!InvalidOperation
                ELSE [n |-> Ref!Finite(l.neg, r.q, e),
                      status |-> {f \in DOMAIN flags2 : flags2[f]}]
    BY <1>1 DEF Ref!RefQuantizeTo, Requantized
  <2> HIDE DEF r, c
  <2>1. r.q = q /\ r.inexact = inexact
    BY DEF r
  <2>2. Ref!Digits(r.q) = n
    BY <1>3, <2>1
  <2> HIDE DEF n
  <2> QED BY <1>1, <1>2, <2>0, <2>1, <2>2
<1>5. fits <=> n <= DECPMAX
  <2> HIDE DEF n
  <2> QED BY <1>2, <1>3, Format
<1>6. good.n = Ref!Finite(l.neg, q, e) /\ Pair(good)
  BY DEF Pair
<1>7. Told(good.status) = IF inexact THEN {"Inexact"} ELSE {}
  <2>1. rounded \in BOOLEAN /\ tiny \in BOOLEAN
    OBVIOUS
  <2>2. good.status = {f \in DOMAIN flags : flags[f]}
    OBVIOUS
  <2> HIDE DEF rounded, tiny, good
  <2> QED BY <2>1, <2>2, QuantizeFlagsTold
<1>8. Pair(Ref!InvalidOperation)
  BY ReferenceParts
<1> HIDE DEF good, fits, n, ref
<1>9. QuantizedTo(ref, l.neg, q, inexact, e)
  <2>1. CASE fits
    BY <1>3, <1>4, <1>5, <1>6, <1>7, <2>1, Format DEF QuantizedTo, n
  <2>2. CASE ~fits
    BY <1>3, <1>4, <1>5, <1>8, <2>2 DEF QuantizedTo, n
  <2> QED BY <2>1, <2>2
<1> QED BY <1>9 DEF ref

\* A coefficient that has no room for its zeros.
LEMMA PaddedLength ==
  ASSUME NEW coef \in Nat \ {0}, NEW pad \in Nat
  PROVE  /\ CoefLength(coef * Power(10, pad)) = CoefLength(coef) + pad
         /\ coef * Power(10, pad) \in Nat
<1> DEFINE zero == 0
           f == Power(10, pad)
<1>1. f \in Nat \ {0}
  BY TenPower
<1>2. zero \in 0 .. f - 1 /\ coef * f \in Nat /\ coef * f + zero = coef * f
  <2> HIDE DEF f
  <2> QED BY <1>1
<1> HIDE DEF zero
<1>3. CoefLength(coef * Power(10, pad) + zero) = CoefLength(coef) + pad
  BY <1>2, TailLength DEF f
<1> QED BY <1>2, <1>3 DEF f

\* What quantize makes of a finite number, rounded in any mode.
LEMMA QuantizeFiniteAnswers ==
  ASSUME NEW dfl \in decFloat, dfl.kind = "fin", NEW e \in DECQTINY .. DECQMAX, NEW s \in Setting
  PROVE  LET ref == Ref!RefQuantizeTo(AsNumber(dfl), e, FormatOf(s.round))
         IN  /\ Answers(QuantizeFinite(dfl, e, s), ref) /\ Pair(ref)
             /\ e >= dfl.exp => QuantizeFinite(dfl, e, s).n.kind = "fin"
<1> DEFINE out == QuantizeFinite(dfl, e, s)
           l == AsNumber(dfl)
           mode == s.round
           ref == Ref!RefQuantizeTo(l, e, FormatOf(mode))
           coef == dfl.coef
           neg == dfl.neg
           x == dfl.exp
           no == FALSE
<1>1. /\ coef \in 0 .. Power(10, DECPMAX) - 1 /\ x \in Int /\ neg \in BOOLEAN /\ e \in Int
      /\ coef \in Nat /\ no \in BOOLEAN /\ mode \in Roundings /\ x \in DECQTINY .. DECQMAX
  BY DatumParts, FullPower, Format DEF Setting
<1>2. l.neg = neg /\ l.coef = coef /\ l.exp = x
  BY AsNumberFields
<1>3. CoefLength(coef) \in Nat \ {0} /\ CoefLength(coef) <= DECPMAX
  <2> HIDE DEF coef
  <2>1. coef < Power(10, DECPMAX) /\ DECPMAX \in Nat \ {0}
    BY <1>1, FullPower, Format
  <2> QED BY <1>1, <2>1, LengthBounds, Fits
\* What the answer must be.
<1>4. ASSUME NEW q \in 0 .. Power(10, DECPMAX) - 1, NEW inexact \in BOOLEAN, NEW y,
             QuantizedTo(ref, neg, q, inexact, e), y.n = Datum(neg, "fin", q, e),
             y.status = IF inexact THEN {"Inexact"} ELSE {}
      PROVE  Answers(y, ref) /\ Pair(ref) /\ y.n.kind = "fin"
  <2> HIDE DEF ref, neg
  <2>1. AsNumber(Datum(neg, "fin", q, e)) = Ref!Finite(neg, q, e)
    BY <1>1, FiniteIsDatum
  <2>2. CoefLength(q) <= DECPMAX
    BY FullPower, Fits, Format
  <2>3. Told(y.status) = y.status
    BY <1>4 DEF Told
  <2>4. Datum(neg, "fin", q, e).kind = "fin"
    BY DEF Datum, Encoding
  <2> QED BY <1>4, <2>1, <2>2, <2>3, <2>4 DEF Answers, QuantizedTo
<1>5. CASE e > x
  <2> DEFINE r == Ref!RoundAt(mode, neg, coef, Ref!Least({e - x, Ref!Digits(coef) + 1}))
             q == r.q
             inexact == r.inexact
  <2>1. /\ q \in 0 .. Power(10, DECPMAX - 1) /\ out.n = Datum(neg, "fin", q, e)
        /\ inexact \in BOOLEAN /\ out.status = IF inexact THEN {"Inexact"} ELSE {}
    BY <1>1, <1>5, QuantizedIs
  <2>2. q \in Nat /\ q \in 0 .. Power(10, DECPMAX) - 1
    <3> HIDE DEF q
    <3> QED BY <2>1, FullPower
  <2>3. Requantized(l, e, mode) = r
    BY <1>2, <1>5 DEF Requantized
  <2> DEFINE t == Requantized(l, e, mode)
  <2>4. t.q = q /\ t.inexact = inexact
    BY <2>3
  <2> HIDE DEF q, inexact, l, r, out
  <2>5. QuantizedTo(Ref!RefQuantizeTo(l, e, FormatOf(mode)), l.neg, q, inexact, e)
    BY <1>1, <1>2, <2>1, <2>2, <2>4, QuantizeToIs
  <2>6. QuantizedTo(ref, neg, q, inexact, e)
    BY <1>2, <2>5
  <2>7. Answers(out, ref) /\ Pair(ref) /\ out.n.kind = "fin"
    <3> HIDE DEF ref, neg
    <3> QED BY <1>4, <2>1, <2>2, <2>6
  <2> QED BY <2>7 DEF out, l
<1>6. CASE ~(e > x)
  <2> DEFINE pad == x - e
             q == coef * Power(10, pad)
             t == Requantized(l, e, mode)
  <2>1. pad \in Nat
    BY <1>1, <1>6
  <2>2. q \in Nat /\ t.q = q /\ t.inexact = no
    <3>1. Power(10, pad) \in Nat
      BY <2>1, TenPower
    <3>2. q \in Nat
      <4> DEFINE f == Power(10, pad)
      <4> HIDE DEF f, coef, pad
      <4> QED BY <1>1, <3>1 DEF f
    <3>3. t = [q |-> q, inexact |-> no]
      BY <1>2, <1>6, SamePowers DEF Requantized
    <3> QED BY <3>2, <3>3
  <2> HIDE DEF t, l, no
  <2>3. QuantizedTo(Ref!RefQuantizeTo(l, e, FormatOf(mode)), l.neg, q, no, e)
    <3> HIDE DEF q
    <3> QED BY <1>1, <1>2, <2>2, QuantizeToIs DEF t
  <2>4. QuantizedTo(ref, neg, q, no, e)
    BY <1>2, <2>3
  <2>5. CASE coef = 0 \/ e = x \/ pad <= DECPMAX - CoefLength(coef)
    <3> DEFINE y == Quietly(Datum(neg, "fin", q, e))
    <3>1. q \in 0 .. Power(10, DECPMAX) - 1
      <4>1. CASE coef = 0
        BY <1>1, <2>1, <4>1, TenPower, FullPower
      <4>2. CASE pad <= DECPMAX - CoefLength(coef)
        <5>1. CoefLength(coef) + pad <= DECPMAX
          <6> HIDE DEF pad
          <6> QED BY <1>3, <2>1, <4>2, Format
        <5> HIDE DEF pad, coef
        <5> QED BY <1>1, <2>1, <5>1, LongerFits
      <4>3. CASE e = x
        BY <1>1, <4>3, PowerZero
      <4> QED BY <2>5, <4>1, <4>2, <4>3
    <3>2. out = y
      <4>1. CASE e = x
        <5>1. out = Quietly(decCanonical(dfl))
          BY <4>1 DEF QuantizeFinite
        <5>2. q = coef
          BY <1>1, <4>1, PowerZero
        <5> QED BY <4>1, <5>1, <5>2 DEF decCanonical
      <4>2. CASE e < x
        <5>1. out = QuantizePad(dfl, e, pad)
          BY <1>1, <4>2 DEF QuantizeFinite
        <5>2. ~(pad > DECPMAX - CoefLength(coef) /\ coef # 0)
          <6> DEFINE cl == CoefLength(coef)
          <6>0. cl \in Nat /\ x - e # 0
            BY <1>1, <1>3, <4>2
          <6> HIDE DEF cl
          <6> QED BY <1>1, <2>1, <2>5, <6>0, <4>2, Format DEF cl
        <5>3. (IF coef = 0 THEN 0 ELSE coef * Power(10, pad)) = q
          BY <1>1, <2>1, TenPower
        <5> HIDE DEF pad
        <5> QED BY <5>1, <5>2, <5>3 DEF QuantizePad
      <4> QED BY <1>1, <1>6, <4>1, <4>2
    <3>3. y.n = Datum(neg, "fin", q, e) /\ y.status = IF no THEN {"Inexact"} ELSE {}
      BY ReturnsFields DEF no
    <3> HIDE DEF y, q, ref, neg, out
    <3>4. Answers(y, ref) /\ Pair(ref) /\ y.n.kind = "fin"
      BY <1>1, <1>4, <2>4, <3>1, <3>3
    <3> QED BY <3>2, <3>4 DEF out, l, ref
  <2>6. CASE ~(coef = 0 \/ e = x \/ pad <= DECPMAX - CoefLength(coef))
    <3>1. e < x
      BY <1>1, <1>6, <2>6
    <3>2. out = decInvalid
      <4>1. out = QuantizePad(dfl, e, pad)
        BY <1>1, <3>1 DEF QuantizeFinite
      <4>2. pad > DECPMAX - CoefLength(coef) /\ coef # 0
        <5> HIDE DEF pad
        <5> QED BY <1>3, <2>1, <2>6, Format
      <4> QED BY <4>1, <4>2 DEF QuantizePad
    <3>3. CoefLength(q) > DECPMAX
      <4>1. CoefLength(q) = CoefLength(coef) + pad
        <5> HIDE DEF pad
        <5> QED BY <1>1, <2>1, <2>6, PaddedLength
      <4> HIDE DEF q, pad
      <4> QED BY <1>3, <2>1, <2>6, <4>1, Format
    <3>4. ref = Ref!InvalidOperation /\ Pair(ref)
      BY <2>4, <3>3 DEF QuantizedTo
    <3> HIDE DEF out, ref
    <3>5. Answers(out, ref) /\ Pair(ref) /\ ~(e >= x)
      BY <1>1, <3>1, <3>2, <3>4, InvalidAnswers
    <3> QED BY <3>5 DEF out, l, ref
  <2> QED BY <2>5, <2>6
<1> QED BY <1>5, <1>6

LEMMA QuantizeAnswers ==
  ASSUME NEW dfl \in decFloat, NEW dfr \in decFloat, ~AnyNaN(dfl, dfr), NEW s \in Setting
  PROVE  LET ref == Ref!RefQuantize(AsNumber(dfl), AsNumber(dfr), FormatOf(s.round))
         IN  Answers(decFloatQuantize(dfl, dfr, s), ref) /\ Pair(ref)
<1> DEFINE l == AsNumber(dfl)
           r == AsNumber(dfr)
           c == FormatOf(s.round)
           ref == Ref!RefQuantize(l, r, c)
           out == decFloatQuantize(dfl, dfr, s)
<1>1. /\ l.kind = dfl.kind /\ r.kind = dfr.kind /\ r.exp = dfr.exp
      /\ dfl.kind \in {"fin", "inf"} /\ dfr.kind \in {"fin", "inf"}
      /\ dfr.exp \in DECQTINY .. DECQMAX /\ dfl.neg \in BOOLEAN
      /\ dfl.kind = "inf" => l = Ref!Infinite(dfl.neg)
  <2>1. dfl.kind = "inf" => l = Ref!Infinite(dfl.neg)
    <3>1. CoefLength(0) = 1
      BY LengthBounds
    <3> QED BY <3>1, AsNumberIs, InfiniteIs, DatumParts
  <2> QED BY <2>1, AsNumberFields, DatumParts DEF AnyNaN, DFISNAN
<1> HIDE DEF l, r, c, out
<1>2. CASE dfl.kind = "inf" /\ dfr.kind = "inf"
  <2>1. out = Quietly(InfinityDatum(dfl.neg))
    BY <1>2 DEF out, decFloatQuantize, AnyNaN, DFISNAN, DFISINF, decInfinity
  <2>2. ref = Ref!Exactly(Ref!Infinite(dfl.neg))
    BY <1>1, <1>2 DEF Ref!RefQuantize
  <2> HIDE DEF ref
  <2>3. Answers(out, ref) /\ Pair(ref)
    BY <1>1, <2>1, <2>2, InfinityAnswers, ReferenceParts
  <2> QED BY <2>3 DEF ref, out, l, r, c
<1>3. CASE dfl.kind # dfr.kind
  <2>1. out = decInvalid
    BY <1>1, <1>3 DEF out, decFloatQuantize, AnyNaN, DFISNAN, DFISINF
  <2>2. ref = Ref!InvalidOperation
    BY <1>1, <1>3 DEF Ref!RefQuantize
  <2> HIDE DEF ref
  <2>3. Answers(out, ref) /\ Pair(ref)
    BY <2>1, <2>2, InvalidAnswers, ReferenceParts
  <2> QED BY <2>3 DEF ref, out, l, r, c
<1>4. CASE dfl.kind = "fin" /\ dfr.kind = "fin"
  <2> DEFINE e == dfr.exp
             ref2 == Ref!RefQuantizeTo(l, e, c)
  <2>1. out = QuantizeFinite(dfl, e, s)
    BY <1>4 DEF out, decFloatQuantize, AnyNaN, DFISNAN, DFISINF
  <2>2. ref = ref2
    BY <1>1, <1>4 DEF Ref!RefQuantize
  <2>3. Answers(QuantizeFinite(dfl, e, s), ref2) /\ Pair(ref2)
    <3> HIDE DEF e
    <3> QED BY <1>1, <1>4, QuantizeFiniteAnswers DEF l, c, e
  <2> HIDE DEF ref, ref2
  <2>4. Answers(out, ref) /\ Pair(ref)
    BY <2>1, <2>2, <2>3
  <2> QED BY <2>4 DEF ref, out, l, r, c
<1> QED BY <1>1, <1>2, <1>3, <1>4

LEMMA QuantizeRight ==
  ASSUME NEW l \in decFloat, NEW r \in decFloat, NEW s \in Setting
  PROVE  Right("Quantize", l, r, s.round, decFloatQuantize(l, r, s))
<1> DEFINE out == decFloatQuantize(l, r, s)
           ref == Ref!Reference("Quantize", AsNumber(l), AsNumber(r), FormatOf(s.round))
<1>1. "Quantize" \in Ordinary \cap Ref!Determined /\ ~Ref!Unary("Quantize")
  BY DEF Ordinary, Ref!Promised, Ref!Determined, Ref!Logicals, Ref!Unary
<1>2. AnyNaN(l, r) => out = decNaNs(l, r)
  BY DEF decFloatQuantize
<1>3. ref = Ref!RefQuantize(AsNumber(l), AsNumber(r), FormatOf(s.round))
  BY DEF Ref!Reference, Ref!Logicals
<1>4. ~AnyNaN(l, r) => Answers(out, ref) /\ Pair(ref)
  <2> DEFINE ref2 == Ref!RefQuantize(AsNumber(l), AsNumber(r), FormatOf(s.round))
  <2>1. ~AnyNaN(l, r) => Answers(decFloatQuantize(l, r, s), ref2) /\ Pair(ref2)
    BY QuantizeAnswers
  <2> QED BY <1>3, <2>1
<1> HIDE DEF out
<1> QED BY <1>1, <1>2, <1>4, BinaryRight DEF out

-----------------------------------------------------------------------------
(***************************************************************************)
(* Integral values.                                                        *)
(***************************************************************************)
LEMMA ZeroIsExact ==
  ASSUME NEW mode, NEW neg, NEW drop \in Nat
  PROVE  Ref!RoundAt(mode, neg, 0, drop).inexact = FALSE
<1>1. Power(10, drop) \in Nat \ {0}
  BY TenPower
<1> DEFINE unit == Power(10, drop)
<1> HIDE DEF unit
<1>2. 0 % unit = 0
  BY <1>1 DEF unit
<1> QED BY <1>2, SamePowers DEF Ref!RoundAt, unit

\* What the exact conversion answers, and the one that tells nothing.
LEMMA IntegralAnswers ==
  ASSUME NEW df \in decFloat, ~DFISNAN(df), NEW s \in Setting
  PROVE  LET ref == Ref!RefToIntegral(AsNumber(df), s.round)
             exactly == Ref!Exactly(ref.n)
         IN  /\ Answers(decFloatToIntegralExact(df, s), ref) /\ Pair(ref)
             /\ Answers(decFloatToIntegralValue(df, s, s.round), exactly) /\ Pair(exactly)
<1> DEFINE n == AsNumber(df)
           mode == s.round
           c == [s EXCEPT !.round = mode]
           ref == Ref!RefToIntegral(n, mode)
           out == decFloatToIntegralExact(df, s)
           quiet == decFloatToIntegralValue(df, s, mode)
           yes == TRUE
           no == FALSE
           zero == 0
           q == QuantizeFinite(df, zero, c)
           exactly == Ref!Exactly(ref.n)
<1>1. /\ n.neg = df.neg /\ n.kind = df.kind /\ n.coef = df.coef /\ n.exp = df.exp
      /\ df.kind \in {"fin", "inf"} /\ df.exp \in Int /\ df.neg \in BOOLEAN
      /\ df.kind = "inf" => df.coef = 0 /\ df.exp = 0
      /\ c \in Setting /\ c.round = mode /\ df.coef \in Nat
      /\ zero \in DECQTINY .. DECQMAX
  BY AsNumberFields, DatumParts, Format, FullPower DEF DFISNAN, Setting
<1>2. /\ out = decToIntegral(df, s, mode, yes) /\ quiet = decToIntegral(df, s, mode, no)
  BY DEF decFloatToIntegralExact, decFloatToIntegralValue
<1>3. Pair(exactly) /\ exactly.n = ref.n /\ exactly.status = {}
  BY DEF Pair, Ref!Exactly
<1>4. Told({}) = {}
  BY DEF Told
<1> HIDE DEF n, out, quiet
<1>5. CASE df.kind = "inf" \/ df.exp >= 0
  <2>1. ref = Ref!Exactly(n)
    BY <1>1, <1>5 DEF Ref!RefToIntegral
  <2>2. ref.n = n /\ ref.status = {} /\ Pair(ref)
    BY <2>1 DEF Pair, Ref!Exactly
  <2> DEFINE d == IF df.kind = "inf" THEN decInfinity(df) ELSE decCanonical(df)
  <2>3. out = Quietly(d) /\ quiet = Quietly(d)
    BY <1>1, <1>2, <1>5 DEF decToIntegral, DFISINF, DFISNAN
  <2>4. AsNumber(d) = n
    <3>1. d.neg = df.neg /\ d.kind = df.kind /\ d.coef = df.coef /\ d.exp = df.exp
      BY <1>1 DEF decInfinity, InfinityDatum, decCanonical, Datum, Encoding
    <3> HIDE DEF d
    <3> QED BY <3>1, SameParts DEF n
  <2> HIDE DEF d, ref, exactly
  <2>5. /\ Answers(out, ref) /\ Pair(ref)
        /\ Answers(quiet, exactly) /\ Pair(exactly)
    BY <1>3, <1>4, <2>2, <2>3, <2>4, ReturnsFields DEF Answers
  <2> QED BY <2>5 DEF ref, exactly, n, out, quiet
<1>6. CASE df.kind = "fin" /\ df.exp < 0
  <2> DEFINE r == Ref!RoundAt(mode, df.neg, df.coef, Ref!Least({zero - df.exp, Ref!Digits(df.coef) + 1}))
             m == r.q
             inexact == r.inexact
  <2>1. /\ q.n = Datum(df.neg, "fin", m, zero) /\ m \in 0 .. Power(10, DECPMAX - 1)
        /\ inexact \in BOOLEAN /\ q.status = IF inexact THEN {"Inexact"} ELSE {}
    <3> HIDE DEF zero
    <3>1. zero > df.exp
      BY <1>1, <1>6, Format DEF zero
    <3> QED BY <1>1, <1>6, <3>1, QuantizedIs
  <2>2. ref = [n |-> Ref!Finite(df.neg, m, 0),
               status |-> IF df.coef = 0 THEN {} ELSE
                            {"Rounded"} \cup (IF inexact THEN {"Inexact"} ELSE {})]
    <3>1. -df.exp = zero - df.exp /\ ~(df.exp >= 0)
      BY <1>1, <1>6
    <3> HIDE DEF zero
    <3> QED BY <1>1, <1>6, <3>1 DEF Ref!RefToIntegral
  <2>3. df.coef = 0 => ~inexact
    <3>1. Ref!Least({zero - df.exp, Ref!Digits(df.coef) + 1}) \in Nat
      <4> DEFINE a == zero - df.exp
                 b == CoefLength(df.coef) + 1
      <4>1. a \in Nat /\ b \in Nat /\ Ref!Digits(df.coef) + 1 = b
        BY <1>1, <1>6, LengthBounds, SameLength
      <4> HIDE DEF a, b
      <4>2. Ref!Least({a, b}) \in Nat
        BY <4>1, LeastIs
      <4> QED BY <4>1, <4>2 DEF a
    <3> DEFINE k == Ref!Least({zero - df.exp, Ref!Digits(df.coef) + 1})
    <3>2. Ref!RoundAt(mode, df.neg, 0, k).inexact = FALSE
      <4> HIDE DEF k
      <4> QED BY <3>1, ZeroIsExact DEF k
    <3> QED BY <3>2
  <2> HIDE DEF r, m, inexact
  <2>4. AsNumber(q.n) = Ref!Finite(df.neg, m, 0)
    <3>1. m \in 0 .. Power(10, DECPMAX) - 1
      BY <2>1, FullPower
    <3>2. AsNumber(Datum(df.neg, "fin", m, zero)) = Ref!Finite(df.neg, m, zero)
      <4> HIDE DEF zero
      <4> QED BY <1>1, <3>1, FiniteIsDatum
    <3> QED BY <2>1, <3>2
  <2>5. out = q /\ quiet = Quietly(q.n)
    <3>1. decFloatQuantize(df, decFloatZero, c) = q
      BY <1>6, QuantizeToZero
    <3> HIDE DEF q, c
    <3> QED BY <1>1, <1>2, <1>6, <3>1 DEF decToIntegral, DFISINF, DFISNAN, Silent, yes, no, c
  <2> HIDE DEF q
  <2>6. Told(q.status) = Told(ref.status)
    BY <2>1, <2>2, <2>3 DEF Told
  <2>7. Pair(ref) /\ ref.n = Ref!Finite(df.neg, m, 0)
    BY <2>2 DEF Pair
  <2> HIDE DEF ref, exactly
  <2>8. /\ Answers(out, ref) /\ Pair(ref)
        /\ Answers(quiet, exactly) /\ Pair(exactly)
    BY <1>3, <1>4, <2>4, <2>5, <2>6, <2>7, ReturnsFields DEF Answers
  <2> QED BY <2>8 DEF ref, exactly, n, out, quiet
<1> QED BY <1>1, <1>5, <1>6

LEMMA IntegralRight ==
  ASSUME NEW df \in decFloat, NEW s \in Setting
  PROVE  /\ Right("ToIntegralExact", df, df, s.round, decFloatToIntegralExact(df, s))
         /\ Right("ToIntegralValue", df, df, s.round, decFloatToIntegralValue(df, s, s.round))
<1> DEFINE n == AsNumber(df)
           mode == s.round
           c == FormatOf(mode)
           out == decFloatToIntegralExact(df, s)
           quiet == decFloatToIntegralValue(df, s, mode)
           ref == Ref!RefToIntegral(n, mode)
           exactly == Ref!Exactly(ref.n)
<1>1. {"ToIntegralExact", "ToIntegralValue"} \subseteq Ordinary \cap Ref!Determined
      /\ Ref!Unary("ToIntegralExact") /\ Ref!Unary("ToIntegralValue")
  BY DEF Ordinary, Ref!Promised, Ref!Determined, Ref!Logicals, Ref!Unary
<1>2. c.round = mode
  BY FormatRange
<1>3. /\ Ref!Reference("ToIntegralExact", n, n, c) = ref
      /\ Ref!Reference("ToIntegralValue", n, n, c) = exactly
  BY <1>2 DEF Ref!Reference, Ref!Logicals
<1>4. DFISNAN(df) => out = decNaNs(df, df) /\ quiet = decNaNs(df, df)
  BY DEF decFloatToIntegralExact, decFloatToIntegralValue, decToIntegral, decNaN
<1>5. ~DFISNAN(df) => /\ Answers(out, ref) /\ Pair(ref)
                      /\ Answers(quiet, exactly) /\ Pair(exactly)
  BY IntegralAnswers
<1> HIDE DEF out, quiet, ref, exactly
<1>6. Right("ToIntegralExact", df, df, mode, out)
  BY <1>1, <1>3, <1>4, <1>5, UnaryRight
<1>7. Right("ToIntegralValue", df, df, mode, quiet)
  BY <1>1, <1>3, <1>4, <1>5, UnaryRight
<1> QED BY <1>6, <1>7 DEF out, quiet

-----------------------------------------------------------------------------
(***************************************************************************)
(* Exponents.                                                              *)
(***************************************************************************)
LEMMA ScaleBAnswers ==
  ASSUME NEW dfl \in decFloat, NEW dfr \in decFloat, ~AnyNaN(dfl, dfr), NEW s \in Setting
  PROVE  LET ref == Ref!RefScaleB(AsNumber(dfl), AsNumber(dfr), FormatOf(s.round))
         IN  Answers(decFloatScaleB(dfl, dfr, s), ref) /\ Pair(ref)
<1> DEFINE l == AsNumber(dfl)
           r == AsNumber(dfr)
           c == FormatOf(s.round)
           ref == Ref!RefScaleB(l, r, c)
           out == decFloatScaleB(dfl, dfr, s)
           e == IF dfr.neg THEN dfl.exp - dfr.coef ELSE dfl.exp + dfr.coef
<1>1. /\ l.kind = dfl.kind /\ l.neg = dfl.neg /\ l.coef = dfl.coef /\ l.exp = dfl.exp
      /\ r.kind = dfr.kind /\ r.neg = dfr.neg /\ r.coef = dfr.coef /\ r.exp = dfr.exp
      /\ dfl.kind \in {"fin", "inf"} /\ dfl.exp \in Int /\ dfl.coef \in Nat /\ dfr.coef \in Nat
      /\ dfl.neg \in BOOLEAN /\ e \in Int
      /\ dfl.kind = "inf" => l = Ref!Infinite(dfl.neg)
  <2>1. dfl.kind = "inf" => l = Ref!Infinite(dfl.neg)
    <3>1. CoefLength(0) = 1
      BY LengthBounds
    <3> QED BY <3>1, AsNumberIs, InfiniteIs, DatumParts
  <2> QED BY <2>1, AsNumberFields, DatumParts, Format, FullPower DEF AnyNaN, DFISNAN
<1>2. Counts(dfr, SCALEBMAX) <=> Ref!Counts(r, 2 * (c.digits + c.emax))
  <2>1. c.digits = DECPMAX /\ c.emax = DECEMAX
    BY FormatRange
  <2>2. 2 * (c.digits + c.emax) = SCALEBMAX
    BY <2>1, Format DEF SCALEBMAX
  <2> QED BY <1>1, <2>2 DEF Counts, DFISINT, Ref!Counts
<1>3. l.exp + Ref!Signed(r) = e
  BY <1>1 DEF Ref!Signed
<1> HIDE DEF l, r, c, out, e
<1>4. CASE ~Counts(dfr, SCALEBMAX)
  <2>1. out = decInvalid
    BY <1>4 DEF out, decFloatScaleB
  <2>2. ref = Ref!InvalidOperation
    BY <1>2, <1>4 DEF Ref!RefScaleB
  <2> HIDE DEF ref
  <2>3. Answers(out, ref) /\ Pair(ref)
    BY <2>1, <2>2, InvalidAnswers, ReferenceParts
  <2> QED BY <2>3 DEF ref, out, l, r, c
<1>5. CASE Counts(dfr, SCALEBMAX) /\ dfl.kind = "inf"
  <2>1. out = Quietly(InfinityDatum(dfl.neg))
    BY <1>5 DEF out, decFloatScaleB, DFISINF, decInfinity
  <2>2. ref = Ref!Exactly(Ref!Infinite(dfl.neg))
    BY <1>1, <1>2, <1>5 DEF Ref!RefScaleB
  <2> HIDE DEF ref
  <2>3. Answers(out, ref) /\ Pair(ref)
    BY <1>1, <2>1, <2>2, InfinityAnswers, ReferenceParts
  <2> QED BY <2>3 DEF ref, out, l, r, c
<1>6. CASE Counts(dfr, SCALEBMAX) /\ dfl.kind = "fin"
  <2>1. out = decFinalize(bcdnum(dfl.neg, dfl.coef, e), s)
    BY <1>6 DEF out, e, decFloatScaleB, DFISINF, decFloatSetExponent, decFloatGetCoefficient, bcdnum
  <2>2. ref = Ref!RoundTo(dfl.neg, dfl.coef, e, c)
    BY <1>1, <1>2, <1>3, <1>6 DEF Ref!RefScaleB
  <2>3. s.round \in Roundings
    BY DEF Setting
  <2> HIDE DEF ref
  <2>4. Answers(out, ref) /\ Pair(ref)
    <3>1. Pair(Ref!RoundTo(dfl.neg, dfl.coef, e, c))
      BY ReferencePairs
    <3>2. Answers(decFinalize(bcdnum(dfl.neg, dfl.coef, e), s), Ref!RoundTo(dfl.neg, dfl.coef, e, c))
      BY <1>1, <2>3, FinalizeAnswers DEF c
    <3> QED BY <2>1, <2>2, <3>1, <3>2
  <2> QED BY <2>4 DEF ref, out, l, r, c
<1> QED BY <1>1, <1>4, <1>5, <1>6

LEMMA ScaleBRight ==
  ASSUME NEW l \in decFloat, NEW r \in decFloat, NEW s \in Setting
  PROVE  Right("ScaleB", l, r, s.round, decFloatScaleB(l, r, s))
<1> DEFINE out == decFloatScaleB(l, r, s)
           ref == Ref!Reference("ScaleB", AsNumber(l), AsNumber(r), FormatOf(s.round))
<1>1. "ScaleB" \in Ordinary \cap Ref!Determined /\ ~Ref!Unary("ScaleB")
  BY DEF Ordinary, Ref!Promised, Ref!Determined, Ref!Logicals, Ref!Unary
<1>2. AnyNaN(l, r) => out = decNaNs(l, r)
  BY DEF decFloatScaleB
<1>3. ref = Ref!RefScaleB(AsNumber(l), AsNumber(r), FormatOf(s.round))
  BY DEF Ref!Reference, Ref!Logicals
<1>4. ~AnyNaN(l, r) => Answers(out, ref) /\ Pair(ref)
  <2> DEFINE ref2 == Ref!RefScaleB(AsNumber(l), AsNumber(r), FormatOf(s.round))
  <2>1. ~AnyNaN(l, r) => Answers(decFloatScaleB(l, r, s), ref2) /\ Pair(ref2)
    BY ScaleBAnswers
  <2> QED BY <1>3, <2>1
<1> HIDE DEF out
<1> QED BY <1>1, <1>2, <1>4, BinaryRight DEF out

\* A small integer is the number the reference makes of it.
LEMMA SmallIs ==
  ASSUME NEW n \in Int, n < Power(10, DECPMAX), -n < Power(10, DECPMAX)
  PROVE  /\ AsNumber(decFloatFromInt32(n)) = Ref!RefUnity(n)
         /\ \A mode \in Roundings :
              Answers(Small(n), Ref!RoundTo(n < 0, Ref!Abs(n), 0, FormatOf(mode)))
<1> DEFINE neg == n < 0
           m == IF n < 0 THEN -n ELSE n
           zero == 0
<1>1. neg \in BOOLEAN /\ m \in 0 .. Power(10, DECPMAX) - 1 /\ zero \in DECQTINY .. DECQMAX
      /\ Ref!Abs(n) = m
  BY FullPower, Format DEF Ref!Abs
<1>2. decFloatFromInt32(n) = Datum(neg, "fin", m, zero)
  BY DEF decFloatFromInt32
<1>3. Ref!RefUnity(n) = Ref!Finite(neg, m, zero)
  BY <1>1 DEF Ref!RefUnity
<1> HIDE DEF neg, m, zero
<1>4. AsNumber(Datum(neg, "fin", m, zero)) = Ref!Finite(neg, m, zero)
  BY <1>1, FiniteIsDatum
<1>5. ASSUME NEW mode \in Roundings
      PROVE  Answers(Quietly(Datum(neg, "fin", m, zero)), Ref!RoundTo(neg, m, zero, FormatOf(mode)))
  BY <1>1, FitAnswers
<1>6. ASSUME NEW mode \in Roundings
      PROVE  Answers(Small(n), Ref!RoundTo(n < 0, Ref!Abs(n), 0, FormatOf(mode)))
  <2>1. Small(n) = Quietly(Datum(neg, "fin", m, zero))
    BY <1>2 DEF Small
  <2>2. Ref!RoundTo(n < 0, Ref!Abs(n), 0, FormatOf(mode)) = Ref!RoundTo(neg, m, zero, FormatOf(mode))
    BY <1>1 DEF neg, zero
  <2> QED BY <1>5, <2>1, <2>2
<1> QED BY <1>2, <1>3, <1>4, <1>6

LEMMA LogBAnswers ==
  ASSUME NEW df \in decFloat, ~DFISNAN(df), NEW s \in Setting
  PROVE  LET ref == Ref!RefLogB(AsNumber(df), FormatOf(s.round))
         IN  Answers(decFloatLogB(df, s), ref) /\ Pair(ref)
<1> DEFINE n == AsNumber(df)
           c == FormatOf(s.round)
           len == CoefLength(df.coef)
           e == df.exp + len - 1
           out == decFloatLogB(df, s)
           ref == Ref!RefLogB(n, c)
           no == FALSE
           yes == TRUE
<1>1. /\ n.kind = df.kind /\ n.coef = df.coef /\ n.exp = df.exp
      /\ df.kind \in {"fin", "inf"} /\ df.exp \in DECQTINY .. DECQMAX
      /\ df.coef \in Nat /\ df.coef < Power(10, DECPMAX) /\ no \in BOOLEAN /\ yes \in BOOLEAN
      /\ s.round \in Roundings
  BY AsNumberFields, DatumParts, FullPower DEF DFISNAN, Setting
<1>2. len \in Nat \ {0} /\ len <= DECPMAX /\ len = Places(df.coef, 10) /\ Ref!Digits(df.coef) = len
  BY <1>1, Fits, LengthBounds, Format, SameLength
<1>3. ~DFISINF(df) => decFloatDigits(df) = len
  BY <1>2, Format DEF decFloatDigits, decGetDigits
<1> HIDE DEF len, n, c, out, no, yes
<1>4. e \in Int /\ e < Power(10, DECPMAX) /\ -e < Power(10, DECPMAX)
  <2>1. e >= DECQTINY /\ e <= DECEMAX /\ e \in Int
    BY <1>1, <1>2, Format
  <2>2. DECQTINY = 2 - DECEMAX - DECPMAX /\ 2 * DECEMAX < Power(10, DECPMAX)
    BY Format, LogBAssumption
  <2> QED BY <2>1, <2>2, Format, FullPower
<1>5. CASE df.kind = "inf"
  <2>1. out = Quietly(InfinityDatum(no)) /\ ref = Ref!Exactly(Ref!Infinite(no))
    BY <1>1, <1>5 DEF out, decFloatLogB, DFISNAN, DFISINF, Ref!RefLogB, no
  <2> HIDE DEF ref
  <2>2. Answers(out, ref) /\ Pair(ref)
    BY <1>1, <2>1, InfinityAnswers, ReferenceParts
  <2> QED BY <2>2 DEF ref, out, n, c
<1>6. CASE df.kind = "fin" /\ df.coef = 0
  <2>1. out = Returns(InfinityDatum(yes), {"Division_by_zero"})
    BY <1>6 DEF out, decFloatLogB, DFISNAN, DFISINF, DFISZERO, yes
  <2>2. ref = [n |-> Ref!Infinite(yes), status |-> {"Division_by_zero"}]
    BY <1>1, <1>6 DEF Ref!RefLogB, yes
  <2>3. Pair(ref) /\ ref.n = Ref!Infinite(yes) /\ ref.status = {"Division_by_zero"}
    BY <2>2 DEF Pair
  <2> HIDE DEF ref
  <2>4. out.n = InfinityDatum(yes) /\ out.status = {"Division_by_zero"}
    BY <2>1, ReturnsFields
  <2>5. Answers(out, ref) /\ Pair(ref)
    BY <1>1, <2>3, <2>4, InfinityAnswers DEF Answers
  <2> QED BY <2>5 DEF ref, out, n, c
<1>7. CASE df.kind = "fin" /\ df.coef # 0
  <2>1. out = Small(e)
    BY <1>3, <1>7 DEF out, decFloatLogB, DFISNAN, DFISINF, DFISZERO
  <2>2. ref = Ref!RoundTo(e < 0, Ref!Abs(e), 0, c)
    BY <1>1, <1>2, <1>7 DEF Ref!RefLogB
  <2> HIDE DEF ref, e
  <2>3. Answers(out, ref) /\ Pair(ref)
    BY <1>1, <1>4, <2>1, <2>2, SmallIs, ReferencePairs DEF c
  <2> QED BY <2>3 DEF ref, out, n, c
<1> QED BY <1>1, <1>5, <1>6, <1>7

LEMMA LogBRight ==
  ASSUME NEW df \in decFloat, NEW s \in Setting
  PROVE  Right("LogB", df, df, s.round, decFloatLogB(df, s))
<1> DEFINE n == AsNumber(df)
           c == FormatOf(s.round)
           out == decFloatLogB(df, s)
           ref == Ref!RefLogB(n, c)
<1>1. "LogB" \in Ordinary \cap Ref!Determined /\ Ref!Unary("LogB")
  BY DEF Ordinary, Ref!Promised, Ref!Determined, Ref!Logicals, Ref!Unary
<1>2. Ref!Reference("LogB", n, n, c) = ref
  BY DEF Ref!Reference, Ref!Logicals
<1>3. DFISNAN(df) => out = decNaNs(df, df)
  BY DEF decFloatLogB, decNaN
<1>4. ~DFISNAN(df) => Answers(out, ref) /\ Pair(ref)
  BY LogBAnswers
<1> HIDE DEF out, ref
<1>5. Right("LogB", df, df, s.round, out)
  BY <1>1, <1>2, <1>3, <1>4, UnaryRight
<1> QED BY <1>5 DEF out

-----------------------------------------------------------------------------
(***************************************************************************)
(* Comparisons.                                                            *)
(***************************************************************************)
\* A coefficient with k zeros appended, against another one.
LEMMA Weighs ==
  ASSUME NEW lc \in Nat \ {0}, NEW rc \in Nat \ {0}, NEW k \in Nat
  PROVE  LET a == lc * Power(10, k)
             m == CoefLength(lc) + k
             n == CoefLength(rc)
         IN  /\ a \in Nat /\ m \in Nat /\ n \in Nat
             /\ m > n => a > rc
             /\ m < n => a < rc
<1> DEFINE a == lc * Power(10, k)
           m == CoefLength(lc) + k
           n == CoefLength(rc)
           f == Power(10, m)
           g == Power(10, n)
<1>1. CoefLength(a) = m /\ a \in Nat
  BY PaddedLength
<1>2. m \in Nat \ {0} /\ n \in Nat \ {0} /\ a < f /\ rc < g
  <2>1. n \in Nat \ {0} /\ rc < g
    BY LengthBounds
  <2>2. CoefLength(lc) \in Nat \ {0}
    BY LengthBounds
  <2>3. m \in Nat \ {0}
    BY <2>2
  <2>4. a < f
    <3> HIDE DEF a
    <3> QED BY <1>1, LengthBounds
  <2> QED BY <2>1, <2>3, <2>4
<1>3. f \in Nat /\ g \in Nat
  <2> HIDE DEF m, n
  <2> QED BY <1>2, TenPower
<1> HIDE DEF a
<1>4. m > n => ~(a < g)
  <2> HIDE DEF m, n
  <2>1. a < Power(10, n) <=> CoefLength(a) <= n
    BY <1>1, <1>2, Fits
  <2> QED BY <1>1, <1>2, <2>1
<1>5. m < n => ~(rc < f)
  <2> HIDE DEF m
  <2>1. rc < Power(10, m) <=> CoefLength(rc) <= m
    BY <1>2, Fits
  <2> QED BY <1>2, <2>1
<1> HIDE DEF m, n, f, g
<1> QED BY <1>1, <1>2, <1>3, <1>4, <1>5 DEF a, m, n

\* The coefficients at the lower one of their exponents.
AtLower(coef, x, y) == coef * Power(10, x - (IF x <= y THEN x ELSE y))

MagnitudeIs(m, lc, lx, rc, rx) ==
  LET tl == lx + CoefLength(lc)
      tr == rx + CoefLength(rc)
  IN  /\ m \in {-1, 0, 1}
      /\ tl > tr => m = 1
      /\ tl < tr => m = -1
      /\ tl = tr => m = Signum(AtLower(lc, lx, rx) - AtLower(rc, rx, lx))

LEMMA MagnitudesCompare ==
  ASSUME NEW lc \in 1 .. Power(10, DECPMAX) - 1, NEW lx \in Int,
         NEW rc \in 1 .. Power(10, DECPMAX) - 1, NEW rx \in Int
  PROVE  /\ MagnitudeIs(CompareMagnitude(lc, rc, lx - rx, FALSE), lc, lx, rc, rx)
         /\ lx + CoefLength(lc) \in Int /\ rx + CoefLength(rc) \in Int
         /\ AtLower(lc, lx, rx) \in Nat /\ AtLower(rc, rx, lx) \in Nat
<1> DEFINE k == lx - rx
           m == CompareMagnitude(lc, rc, k, FALSE)
           cl == CoefLength(lc)
           cr == CoefLength(rc)
           a == AtLower(lc, lx, rx)
           b == AtLower(rc, rx, lx)
<1>1. lc \in Nat \ {0} /\ rc \in Nat \ {0} /\ DECPMAX \in Nat \ {0, 1}
  BY FullPower, Format
<1>2. cl \in 1 .. DECPMAX /\ cr \in 1 .. DECPMAX
  <2>1. lc < Power(10, DECPMAX) /\ rc < Power(10, DECPMAX)
    BY FullPower
  <2> QED BY <1>1, <2>1, Fits, LengthBounds
<1>3. \A x \in Int : Signum(x) \in {-1, 0, 1} /\ (x > 0 => Signum(x) = 1) /\ (x < 0 => Signum(x) = -1)
  BY DEF Signum
<1> DEFINE Done == /\ MagnitudeIs(m, lc, lx, rc, rx)
                   /\ lx + CoefLength(lc) \in Int /\ rx + CoefLength(rc) \in Int
                   /\ AtLower(lc, lx, rx) \in Nat /\ AtLower(rc, rx, lx) \in Nat
<1>0. ASSUME m \in {-1, 0, 1}, lx + cl > rx + cr => m = 1, lx + cl < rx + cr => m = -1,
             lx + cl = rx + cr => m = Signum(a - b), a \in Nat, b \in Nat
      PROVE  Done
  <2>1. MagnitudeIs(m, lc, lx, rc, rx)
    <3> HIDE DEF m
    <3> QED BY <1>0 DEF MagnitudeIs
  <2>2. lx + CoefLength(lc) \in Int /\ rx + CoefLength(rc) \in Int
    BY <1>2
  <2> QED BY <1>0, <2>1, <2>2
<1> SUFFICES Done
  OBVIOUS
<1> HIDE DEF Done
<1>4. CASE k >= 0
  <2> DEFINE long == lc * Power(10, k)
  <2>1. k \in Nat
    BY <1>4
  <2>2. a = long /\ b = rc
    <3>1. rx <= lx
      BY <1>4
    <3>2. Power(10, 0) = 1
      BY PowerZero
    <3>3. lx - (IF lx <= rx THEN lx ELSE rx) = k /\ rx - (IF rx <= lx THEN rx ELSE lx) = 0
      BY <3>1
    <3> QED BY <1>1, <3>2, <3>3 DEF AtLower
  <2>3. /\ long \in Nat
        /\ cl + k > cr => long > rc
        /\ cl + k < cr => long < rc
    <3> HIDE DEF k
    <3> QED BY <1>1, <2>1, Weighs
  <2>4. m = IF k >= DECPMAX THEN 1 ELSE Signum(long - rc)
    <3>1. ~(k <= -DECPMAX)
      BY <1>1, <2>1
    <3>2. m = IF k >= DECPMAX THEN 1 ELSE IF k <= -DECPMAX THEN -1
              ELSE IF k >= 0 THEN Signum(lc * Power(10, k) - rc) ELSE Signum(lc - rc * Power(10, -k))
      BY DEF CompareMagnitude
    <3> HIDE DEF m, k
    <3> QED BY <1>4, <3>1, <3>2
  <2> HIDE DEF m, a, b, long, cl, cr
  <2>5. CASE k >= DECPMAX
    <3>1. lx + cl > rx + cr
      BY <1>1, <1>2, <2>5
    <3> QED BY <1>0, <1>1, <1>2, <2>2, <2>3, <2>4, <2>5, <3>1
  <2>6. CASE ~(k >= DECPMAX)
    <3>1. /\ lx + cl > rx + cr <=> cl + k > cr
          /\ lx + cl < rx + cr <=> cl + k < cr
      BY <1>2
    <3>2. m = Signum(a - b) /\ a - b \in Int
      BY <1>1, <2>2, <2>3, <2>4, <2>6
    <3>3. /\ lx + cl > rx + cr => m = 1
          /\ lx + cl < rx + cr => m = -1
          /\ m \in {-1, 0, 1}
      BY <1>1, <1>3, <2>2, <2>3, <3>1, <3>2
    <3> QED BY <1>0, <1>1, <1>2, <2>2, <2>3, <3>2, <3>3
  <2> QED BY <2>5, <2>6
<1>5. CASE ~(k >= 0)
  <2> DEFINE j == -k
             long == rc * Power(10, j)
  <2>1. j \in Nat \ {0}
    BY <1>5
  <2>2. a = lc /\ b = long
    <3>1. lx <= rx
      BY <1>5
    <3>2. Power(10, 0) = 1
      BY PowerZero
    <3>3. lx - (IF lx <= rx THEN lx ELSE rx) = 0 /\ rx - (IF rx <= lx THEN rx ELSE lx) = j
      BY <1>5
    <3> QED BY <1>1, <3>2, <3>3 DEF AtLower
  <2>3. /\ long \in Nat
        /\ cr + j > cl => long > lc
        /\ cr + j < cl => long < lc
    <3> HIDE DEF j
    <3> QED BY <1>1, <2>1, Weighs
  <2>4. m = IF j >= DECPMAX THEN -1 ELSE Signum(lc - long)
    <3>1. ~(k >= DECPMAX) /\ (k <= -DECPMAX <=> j >= DECPMAX)
      BY <1>1, <1>5
    <3>2. m = IF k >= DECPMAX THEN 1 ELSE IF k <= -DECPMAX THEN -1
              ELSE IF k >= 0 THEN Signum(lc * Power(10, k) - rc) ELSE Signum(lc - rc * Power(10, -k))
      BY DEF CompareMagnitude
    <3> HIDE DEF m, k
    <3> QED BY <1>5, <3>1, <3>2
  <2> HIDE DEF m, a, b, long, cl, cr
  <2>5. CASE j >= DECPMAX
    <3>1. lx + cl < rx + cr
      BY <1>1, <1>2, <2>5
    <3> QED BY <1>0, <1>1, <1>2, <2>2, <2>3, <2>4, <2>5, <3>1
  <2>6. CASE ~(j >= DECPMAX)
    <3>1. /\ lx + cl > rx + cr <=> cr + j < cl
          /\ lx + cl < rx + cr <=> cr + j > cl
      BY <1>2
    <3>2. m = Signum(a - b) /\ a - b \in Int
      BY <1>1, <2>2, <2>3, <2>4, <2>6
    <3>3. /\ lx + cl > rx + cr => m = 1
          /\ lx + cl < rx + cr => m = -1
          /\ m \in {-1, 0, 1}
      BY <1>1, <1>3, <2>2, <2>3, <3>1, <3>2
    <3> QED BY <1>0, <1>1, <1>2, <2>2, <2>3, <3>2, <3>3
  <2> QED BY <2>5, <2>6
<1> QED BY <1>4, <1>5

\* What the reference compares by: rank, then the place of the first digit,
\* then value.
NumberRank(n) == CASE n.kind = "inf" -> IF n.neg THEN -2 ELSE 2
                   [] n.kind # "inf" /\ n.coef = 0 -> 0
                   [] OTHER -> IF n.neg THEN -1 ELSE 1

FirstPlace(n) == n.exp + Ref!Digits(n.coef)

Distance(l, r) ==
  LET e == Ref!Least({l.exp, r.exp})
  IN  CASE NumberRank(l) # NumberRank(r) \/ NumberRank(l) \in {-2, 0, 2} ->
             NumberRank(l) - NumberRank(r)
        [] NumberRank(l) = NumberRank(r) /\ NumberRank(l) \in {-1, 1} /\ FirstPlace(l) # FirstPlace(r) ->
             NumberRank(l) * (FirstPlace(l) - FirstPlace(r))
        [] OTHER -> Ref!AtExponent(l, e) - Ref!AtExponent(r, e)

LEMMA CompareByDistance ==
  ASSUME NEW l, NEW r
  PROVE  Ref!RefCompare(l, r) = Signum(Distance(l, r))
BY DEF Ref!RefCompare, Signum, Distance, NumberRank, FirstPlace

LEMMA Ranks ==
  ASSUME NEW n, n.kind \in {"fin", "inf"}, n.neg \in BOOLEAN
  PROVE  NumberRank(n) = IF n.kind = "inf" THEN IF n.neg THEN -2 ELSE 2
                         ELSE IF n.coef = 0 THEN 0
                         ELSE IF n.neg THEN -1 ELSE 1
BY DEF NumberRank

\* Numbers of one sign, neither zero nor infinite.
LEMMA SameSignCompare ==
  ASSUME NEW l \in decFloat, NEW r \in decFloat, l.kind = "fin", r.kind = "fin",
         l.neg = r.neg, l.coef # 0, r.coef # 0
  PROVE  LET m == CompareMagnitude(l.coef, r.coef, l.exp - r.exp, FALSE)
         IN  Ref!RefCompare(AsNumber(l), AsNumber(r)) = IF l.neg THEN -m ELSE m
<1> DEFINE m == CompareMagnitude(l.coef, r.coef, l.exp - r.exp, FALSE)
           x == AsNumber(l)
           y == AsNumber(r)
           a == AtLower(l.coef, l.exp, r.exp)
           b == AtLower(r.coef, r.exp, l.exp)
           tl == l.exp + CoefLength(l.coef)
           tr == r.exp + CoefLength(r.coef)
           e == Ref!Least({l.exp, r.exp})
           d == Distance(x, y)
<1>1. /\ l.coef \in 1 .. Power(10, DECPMAX) - 1 /\ r.coef \in 1 .. Power(10, DECPMAX) - 1
      /\ l.exp \in Int /\ r.exp \in Int /\ l.neg \in BOOLEAN
  BY DatumParts, Format
<1>2. /\ x.kind = "fin" /\ x.neg = l.neg /\ x.coef = l.coef /\ x.exp = l.exp
      /\ y.kind = "fin" /\ y.neg = l.neg /\ y.coef = r.coef /\ y.exp = r.exp
  BY AsNumberFields
<1>3. MagnitudeIs(m, l.coef, l.exp, r.coef, r.exp) /\ tl \in Int /\ tr \in Int /\ a \in Nat /\ b \in Nat
  BY <1>1, MagnitudesCompare
<1> HIDE DEF m, x, y
<1>4. NumberRank(x) = (IF l.neg THEN -1 ELSE 1) /\ NumberRank(y) = NumberRank(x)
  BY <1>1, <1>2, Ranks
<1>5. FirstPlace(x) = tl /\ FirstPlace(y) = tr
  BY <1>2, SameLength DEF FirstPlace
<1>6. /\ Ref!AtExponent(x, e) = IF l.neg THEN -a ELSE a
      /\ Ref!AtExponent(y, e) = IF l.neg THEN -b ELSE b
  <2>1. e = IF l.exp <= r.exp THEN l.exp ELSE r.exp
    BY <1>1, LeastIs
  <2> DEFINE f == Power(10, l.exp - e)
             g == Power(10, r.exp - e)
  <2>2. a = l.coef * f /\ b = r.coef * g /\ f \in Nat /\ g \in Nat
    <3>1. l.exp - e \in Nat /\ r.exp - e \in Nat
      BY <1>1, <2>1
    <3>2. f \in Nat /\ g \in Nat
      <4> HIDE DEF e
      <4> QED BY <3>1, TenPower
    <3>3. (IF l.exp <= r.exp THEN l.exp ELSE r.exp) = (IF r.exp <= l.exp THEN r.exp ELSE l.exp)
      BY <1>1
    <3> HIDE DEF e
    <3> QED BY <2>1, <3>2, <3>3 DEF AtLower
  <2>3. Ref!AtExponent(x, e) = (IF l.neg THEN -l.coef ELSE l.coef) * f
        /\ Ref!AtExponent(y, e) = (IF l.neg THEN -r.coef ELSE r.coef) * g
    BY <1>2, SamePowers DEF Ref!AtExponent, Ref!Signed
  <2>4. (-l.coef) * f = -(l.coef * f) /\ (-r.coef) * g = -(r.coef * g)
    <3> HIDE DEF f, g
    <3> QED BY <1>1, <2>2, FullPower
  <2> QED BY <2>2, <2>3, <2>4
<1>7. d = IF tl # tr THEN (IF l.neg THEN -1 ELSE 1) * (tl - tr)
          ELSE IF l.neg THEN (-a) - (-b) ELSE a - b
  <2> HIDE DEF a, b, tl, tr
  <2>1. NumberRank(x) \notin {-2, 0, 2} /\ NumberRank(x) \in {-1, 1}
    BY <1>4
  <2> DEFINE k == NumberRank(x)
  <2>2. k = (IF l.neg THEN -1 ELSE 1) /\ NumberRank(y) = k /\ k \notin {-2, 0, 2} /\ k \in {-1, 1}
    BY <1>4, <2>1
  <2>3. d = LET z == Ref!Least({x.exp, y.exp})
            IN  CASE k # NumberRank(y) \/ k \in {-2, 0, 2} -> k - NumberRank(y)
                  [] k = NumberRank(y) /\ k \in {-1, 1} /\ FirstPlace(x) # FirstPlace(y) ->
                       k * (FirstPlace(x) - FirstPlace(y))
                  [] OTHER -> Ref!AtExponent(x, z) - Ref!AtExponent(y, z)
    BY DEF Distance
  <2> HIDE DEF k
  <2>4. d = IF tl # tr THEN k * (tl - tr) ELSE Ref!AtExponent(x, e) - Ref!AtExponent(y, e)
    BY <1>2, <1>5, <2>2, <2>3
  <2> HIDE DEF d, e
  <2> QED BY <1>6, <2>2, <2>4
<1> HIDE DEF d
<1>8. Signum(d) = IF l.neg THEN -m ELSE m
  <2>1. /\ m \in {-1, 0, 1}
        /\ tl > tr => m = 1
        /\ tl < tr => m = -1
        /\ tl = tr => m = Signum(a - b)
    BY <1>3 DEF MagnitudeIs
  <2> HIDE DEF a, b, tl, tr
  <2>2. CASE tl # tr
    <3>1. d = IF l.neg THEN -(tl - tr) ELSE tl - tr
      BY <1>3, <1>7, <2>2
    <3> QED BY <1>3, <2>1, <2>2, <3>1 DEF Signum
  <2>3. CASE tl = tr
    <3>1. d = IF l.neg THEN b - a ELSE a - b
      BY <1>3, <1>7, <2>3
    <3> QED BY <1>3, <2>1, <2>3, <3>1 DEF Signum
  <2> QED BY <2>2, <2>3
<1>9. Ref!RefCompare(x, y) = IF l.neg THEN -m ELSE m
  BY <1>8, CompareByDistance DEF d
<1> QED BY <1>9 DEF x, y, m

\* The comparison of any two that are not NaNs.
LEMMA ComparesRight ==
  ASSUME NEW l \in decFloat, NEW r \in decFloat, ~AnyNaN(l, r)
  PROVE  Ref!RefCompare(AsNumber(l), AsNumber(r)) = decNumCompare(l, r, FALSE)
<1> DEFINE x == AsNumber(l)
           y == AsNumber(r)
           i == NumberRank(x)
           j == NumberRank(y)
           ref == Ref!RefCompare(x, y)
           out == decNumCompare(l, r, FALSE)
<1>1. /\ l.kind \in {"fin", "inf"} /\ r.kind \in {"fin", "inf"}
      /\ l.neg \in BOOLEAN /\ r.neg \in BOOLEAN
      /\ l.kind = "inf" => l.coef = 0
      /\ r.kind = "inf" => r.coef = 0
  BY DatumParts DEF AnyNaN, DFISNAN
<1>2. /\ x.kind = l.kind /\ x.neg = l.neg /\ x.coef = l.coef
      /\ y.kind = r.kind /\ y.neg = r.neg /\ y.coef = r.coef
  BY AsNumberFields
<1> HIDE DEF x, y
<1>3. /\ i = IF l.kind = "inf" THEN IF l.neg THEN -2 ELSE 2
             ELSE IF l.coef = 0 THEN 0 ELSE IF l.neg THEN -1 ELSE 1
      /\ j = IF r.kind = "inf" THEN IF r.neg THEN -2 ELSE 2
             ELSE IF r.coef = 0 THEN 0 ELSE IF r.neg THEN -1 ELSE 1
  BY <1>1, <1>2, Ranks
<1> HIDE DEF i, j
<1>4. i # j \/ i \in {-2, 0, 2} => ref = Signum(i - j)
  <2>1. i # j \/ i \in {-2, 0, 2} => Distance(x, y) = i - j
    BY DEF Distance, i, j
  <2> QED BY <2>1, CompareByDistance
<1> DEFINE same == CompareSameSign(l, r, FALSE)
           m == CompareMagnitude(l.coef, r.coef, l.exp - r.exp, FALSE)
<1> HIDE DEF m
<1>a. same = IF l.kind = "inf" THEN IF r.kind = "inf" THEN 0 ELSE 1
             ELSE IF r.kind = "inf" THEN -1
             ELSE IF l.coef = 0 THEN IF r.coef = 0 THEN 0 ELSE -1
             ELSE IF r.coef = 0 THEN 1 ELSE m
  BY DEF CompareSameSign, DFISINF, m
<1> HIDE DEF same
<1>b. out = IF l.neg # r.neg
            THEN IF l.kind = "fin" /\ l.coef = 0 /\ r.kind = "fin" /\ r.coef = 0 THEN 0
                 ELSE IF l.neg THEN -1 ELSE 1
            ELSE IF l.neg THEN -same ELSE same
  BY DEF decNumCompare, DiffSign, DFISZERO, same
<1> HIDE DEF out
<1>5. i # j \/ i \in {-2, 0, 2} => Signum(i - j) = out
  <2>1. Signum(i - j) = IF i < j THEN -1 ELSE IF i > j THEN 1 ELSE 0
    BY <1>3 DEF Signum
  <2>2. CASE l.neg /\ r.neg
    BY <1>1, <1>3, <1>a, <1>b, <2>1, <2>2
  <2>3. CASE ~l.neg /\ ~r.neg
    BY <1>1, <1>3, <1>a, <1>b, <2>1, <2>3
  <2>4. CASE l.neg /\ ~r.neg
    <3>1. out = IF l.kind = "fin" /\ l.coef = 0 /\ r.kind = "fin" /\ r.coef = 0 THEN 0 ELSE -1
      BY <1>1, <1>b, <2>4
    <3>2. /\ i = IF l.kind = "inf" THEN -2 ELSE IF l.coef = 0 THEN 0 ELSE -1
          /\ j = IF r.kind = "inf" THEN 2 ELSE IF r.coef = 0 THEN 0 ELSE 1
      BY <1>3, <2>4
    <3> QED BY <1>1, <2>1, <3>1, <3>2
  <2>5. CASE ~l.neg /\ r.neg
    <3>1. out = IF l.kind = "fin" /\ l.coef = 0 /\ r.kind = "fin" /\ r.coef = 0 THEN 0 ELSE 1
      BY <1>1, <1>b, <2>5
    <3>2. /\ i = IF l.kind = "inf" THEN 2 ELSE IF l.coef = 0 THEN 0 ELSE 1
          /\ j = IF r.kind = "inf" THEN -2 ELSE IF r.coef = 0 THEN 0 ELSE -1
      BY <1>3, <2>5
    <3> QED BY <1>1, <2>1, <3>1, <3>2
  <2> QED BY <1>1, <2>2, <2>3, <2>4, <2>5
<1>6. ~(i # j \/ i \in {-2, 0, 2}) => ref = out
  <2> SUFFICES ASSUME ~(i # j \/ i \in {-2, 0, 2}) PROVE ref = out
    OBVIOUS
  <2>1. l.kind = "fin" /\ r.kind = "fin" /\ l.coef # 0 /\ r.coef # 0 /\ l.neg = r.neg
    BY <1>1, <1>3
  <2>2. ref = IF l.neg THEN -m ELSE m
    BY <2>1, SameSignCompare DEF x, y, m
  <2>3. out = IF l.neg THEN -m ELSE m
    BY <2>1, <1>a, <1>b
  <2> QED BY <2>2, <2>3
<1>7. ref = out
  BY <1>4, <1>5, <1>6
<1> QED BY <1>7 DEF x, y, out
=============================================================================
