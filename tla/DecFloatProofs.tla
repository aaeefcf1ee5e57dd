---------------------------- MODULE DecFloatProofs ----------------------------
(***************************************************************************)
(* decFloats of every precision and exponent range: rounding into the      *)
(* format is the reference's, every operation returns a datum the words    *)
(* can encode, and packed decimal brings back what was put away.           *)
(***************************************************************************)
EXTENDS DecFloatCalculator, DecPowersProofs

(***************************************************************************)
(* The constants, powers of ten and lengths of coefficients.               *)
(***************************************************************************)
LEMMA Format ==
  /\ DECPMAX \in Nat \ {0, 1} /\ DECEMAX \in Nat \ {0} /\ DECPMAX <= DECEMAX
  /\ DECPMAX - 1 \in Nat \ {0}
  /\ DECEMIN = 1 - DECEMAX /\ DECEMIN \in Int
  /\ DECQTINY = DECEMIN - (DECPMAX - 1) /\ DECQTINY \in Int /\ DECQTINY < DECEMIN
  /\ DECQMAX = DECEMAX - (DECPMAX - 1) /\ DECQMAX \in Nat \ {0}
BY FormatAssumption DEF DECEMIN, DECQTINY, DECQMAX

LEMMA TenPower == ASSUME NEW n \in Nat PROVE Power(10, n) \in Nat \ {0}
BY PowerType

LEMMA FullPower ==
  /\ Power(10, DECPMAX) \in Nat \ {0} /\ Power(10, DECPMAX - 1) \in Nat \ {0}
  /\ Power(10, DECPMAX) = 10 * Power(10, DECPMAX - 1)
<1>1. DECPMAX - 1 \in Nat /\ (DECPMAX - 1) + 1 = DECPMAX
  BY Format
<1> QED BY <1>1, Format, TenPower, PowerNext

LEMMA LengthBounds ==
  ASSUME NEW c \in Nat
  PROVE  /\ CoefLength(c) \in Nat \ {0} /\ CoefLength(c) = Places(c, 10)
         /\ c < Power(10, CoefLength(c))
         /\ c # 0 => c >= Power(10, CoefLength(c) - 1)
         /\ c = 0 => CoefLength(c) = 1
BY PlacesBounds, PlacesStep DEF CoefLength

\* A coefficient fits exactly when its digits do.
LEMMA Fits ==
  ASSUME NEW c \in Nat, NEW m \in Nat \ {0}
  PROVE  c < Power(10, m) <=> CoefLength(c) <= m
<1>1. c < Power(10, m) => CoefLength(c) <= m
  BY PlacesAtMost DEF CoefLength
<1>2. c >= Power(10, m) => CoefLength(c) > m
  BY PlacesAtLeast DEF CoefLength
<1> QED BY <1>1, <1>2, TenPower, LengthBounds

\* A number with zeros appended, if there is room for them.
LEMMA LongerFits ==
  ASSUME NEW coef \in Nat, NEW k \in Nat, CoefLength(coef) + k <= DECPMAX
  PROVE  coef * Power(10, k) \in 0 .. Power(10, DECPMAX) - 1
<1> DEFINE n == CoefLength(coef)
           f == Power(10, k)
           g == Power(10, n)
           h == Power(10, DECPMAX)
<1>1. n \in Nat /\ coef < g
  BY LengthBounds
<1>2. f \in Nat \ {0} /\ g \in Nat \ {0} /\ h \in Nat \ {0}
  BY <1>1, TenPower, FullPower
<1>3. g * f <= h
  <2>1. n + k \in Nat /\ n + k <= DECPMAX /\ DECPMAX \in Nat
    BY <1>1, Format
  <2> HIDE DEF n
  <2>2. Power(10, n + k) <= Power(10, DECPMAX)
    BY <2>1, PowerMono
  <2>3. Power(10, n + k) = g * f
    BY <1>1, PowerSum
  <2> QED BY <2>2, <2>3
<1> HIDE DEF f, g, h
<1>4. (coef + 1) * f <= g * f
  BY <1>1, <1>2
<1>5. (coef + 1) * f = coef * f + f /\ coef * f \in Nat
  BY <1>2
<1>6. g * f \in Nat
  BY <1>2
<1>7. coef * f \in 0 .. h - 1
  BY <1>2, <1>3, <1>4, <1>5, <1>6
<1> QED BY <1>7 DEF f, h

\* The reference has its own powers and lengths.
LEMMA SamePowers == ASSUME NEW b, NEW n PROVE Ref!Power(b, n) = Power(b, n)
BY DEF Ref!Power, Power

LEMMA SameLength == ASSUME NEW c PROVE Ref!Digits(c) = CoefLength(c)
BY DEF Ref!Digits, Ref!Places, Places, CoefLength

\* A decNumber.
Figure(neg, kind, digits, coef, exp) ==
  [neg |-> neg, kind |-> kind, digits |-> digits, coef |-> coef, exp |-> exp]

LEMMA NumberOf ==
  ASSUME NEW neg, NEW kind, NEW coef \in 0 .. Power(10, DECPMAX) - 1, NEW exp
  PROVE  AsNumber(Datum(neg, kind, coef, exp)) = Figure(neg, kind, CoefLength(coef), coef, exp)
<1>1. CoefLength(coef) <= DECPMAX /\ CoefLength(coef) \in Nat
  BY Fits, Format, FullPower, LengthBounds
<1>2. decGetDigits(coef, DECPMAX) = CoefLength(coef)
  BY <1>1, Format DEF decGetDigits, CoefLength
<1> QED BY <1>2 DEF AsNumber, Datum, Encoding, Figure
-----------------------------------------------------------------------------
(***************************************************************************)
(* A digit with a sticky rest stands to half as the remainder does.        *)
(***************************************************************************)
LEMMA StickyDigit ==
  ASSUME NEW d \in 0 .. 9, NEW h \in Nat \ {0}, NEW rest \in 0 .. h - 1
  PROVE  /\ Sticky(d, rest) \in 0 .. 9
         /\ Sticky(d, rest) = 0 <=> d * h + rest = 0
         /\ Sticky(d, rest) > 5 <=> 2 * (d * h + rest) > 10 * h
         /\ Sticky(d, rest) = 5 <=> 2 * (d * h + rest) = 10 * h
<1> DEFINE s == Sticky(d, rest)
<1>1. s = IF rest = 0 THEN d ELSE IF d = 0 THEN 1 ELSE IF d = 5 THEN 6 ELSE d
  BY DEF Sticky, DECSTICKYTAB
<1> HIDE DEF s
<1>2. CASE d = 0
  BY <1>1, <1>2 DEF s
<1>3. CASE d \in 1 .. 4
  <2>1. d * h + rest # 0 /\ 2 * (d * h + rest) < 10 * h
    <3>1. d * h <= 4 * h /\ d * h >= h
      BY <1>3
    <3> QED BY <3>1
  <2> QED BY <1>1, <1>3, <2>1 DEF s
<1>4. CASE d = 5
  BY <1>1, <1>4 DEF s
<1>5. CASE d \in 6 .. 9
  <2>1. d * h + rest # 0 /\ 2 * (d * h + rest) > 10 * h
    <3>1. d * h >= 6 * h
      BY <1>5
    <3> QED BY <3>1
  <2> QED BY <1>1, <1>5, <2>1 DEF s
<1> QED BY <1>2, <1>3, <1>4, <1>5

\* What is kept, and what is rounded at, are quotient and remainder.  (The
\* reference need not divide by more than a digit beyond the number.)
UnitOf(coef, drop) ==
  Power(10, IF drop <= CoefLength(coef) + 1 THEN drop ELSE CoefLength(coef) + 1)

LEMMA DroppedDigits ==
  ASSUME NEW coef \in Nat \ {0}, NEW drop \in Nat \ {0}
  PROVE  LET unit == UnitOf(coef, drop)
             rr == Reround(coef, drop)
         IN  /\ unit \in Nat \ {0}
             /\ Kept(coef, drop) = coef \div unit
             /\ rr \in 0 .. 9
             /\ rr = 0 <=> coef % unit = 0
             /\ rr > 5 <=> 2 * (coef % unit) > unit
             /\ rr = 5 <=> 2 * (coef % unit) = unit
<1> DEFINE unit == UnitOf(coef, drop)
           rr == Reround(coef, drop)
           n == CoefLength(coef)
<1>1. n \in Nat \ {0} /\ coef < Power(10, n) /\ Power(10, n) \in Nat \ {0}
  BY LengthBounds, TenPower
<1>2. CASE drop > n
  <2>1. Power(10, n + 1) = 10 * Power(10, n) /\ unit \in {Power(10, n + 1)}
    BY <1>1, <1>2, PowerNext DEF UnitOf
  <2>2. rr = 1 /\ Kept(coef, drop) = 0
    BY <1>1, <1>2 DEF Reround, Kept, Sticky, DECSTICKYTAB
  <2> HIDE DEF unit, rr, n
  <2>3. unit \in Nat \ {0} /\ coef < unit /\ 2 * coef < unit
    BY <2>1, <1>1
  <2>4. coef \div unit = 0 /\ coef % unit = coef
    BY <2>3
  <2> QED BY <2>2, <2>3, <2>4 DEF unit, rr
<1>3. CASE drop <= n
  <2> DEFINE h == Power(10, drop - 1)
             x == coef \div h
             d == x % 10
             rest == coef % h
             q == x \div 10
  <2>1. drop - 1 \in Nat /\ (drop - 1) + 1 = drop
    OBVIOUS
  <2>2. h \in Nat \ {0} /\ Power(10, drop) = 10 * h
    BY <2>1, TenPower, PowerNext
  <2>3. unit = 10 * h
    BY <1>1, <1>3, <2>2 DEF UnitOf
  <2>4. rr = Sticky(d, rest)
    BY <1>1, <1>3 DEF Reround
  <2>5. Kept(coef, drop) = coef \div (10 * h)
    <3>1. CASE drop = n
      <4>1. Kept(coef, drop) = 0 /\ coef < 10 * h
        BY <3>1, <1>1, <2>2 DEF Kept
      <4> HIDE DEF h
      <4>2. coef \div (10 * h) = 0
        BY <4>1, <2>2
      <4> QED BY <4>1, <4>2
    <3>2. CASE drop < n
      BY <3>2, <1>1, <2>2 DEF Kept
    <3> QED BY <3>1, <3>2, <1>1, <1>3
  <2> HIDE DEF h, n, unit, rr
  <2>6. coef = x * h + rest /\ rest \in 0 .. h - 1 /\ x \in Nat
    BY <2>2
  <2> HIDE DEF rest, x
  <2>7. x = q * 10 + d /\ d \in 0 .. 9 /\ q \in Nat
    BY <2>6
  <2> HIDE DEF q, d
  <2>8. coef = q * (10 * h) + (d * h + rest) /\ d * h + rest \in 0 .. (10 * h) - 1
    <3>1. (q * 10 + d) * h = q * (10 * h) + d * h
      BY <2>2, <2>7
    <3>2. d * h <= 9 * h /\ d * h \in Nat
      BY <2>2, <2>7
    <3> QED BY <3>1, <3>2, <2>2, <2>6, <2>7
  <2>9. coef \div (10 * h) = q /\ coef % (10 * h) = d * h + rest
    <3> DEFINE y == 10 * h
               r == d * h + rest
    <3>1. y \in Nat \ {0} /\ r \in 0 .. y - 1
      BY <2>2, <2>8
    <3> HIDE DEF y, r
    <3>2. coef = q * y + r
      BY <2>8 DEF y, r
    <3>3. coef \div y = q /\ coef % y = r
      BY <3>1, <3>2, <2>7, DivUnique
    <3> QED BY <3>3 DEF y, r
  <2>10. /\ rr \in 0 .. 9
         /\ rr = 0 <=> d * h + rest = 0
         /\ rr > 5 <=> 2 * (d * h + rest) > 10 * h
         /\ rr = 5 <=> 2 * (d * h + rest) = 10 * h
    BY <2>2, <2>4, <2>6, <2>7, StickyDigit
  <2>11. unit \in Nat \ {0}
    BY <2>2, <2>3
  <2> QED BY <2>3, <2>5, <2>9, <2>10, <2>11 DEF unit, rr
<1> QED BY <1>1, <1>2, <1>3

\* The eight modes: the digit decides as the remainder does.
LEMMA BumpsRight ==
  ASSUME NEW mode \in Roundings, NEW neg \in BOOLEAN, NEW q \in Nat,
         NEW unit \in Nat \ {0}, NEW rem \in Nat, NEW rr \in 0 .. 9,
         rr = 0 <=> rem = 0, rr > 5 <=> 2 * rem > unit, rr = 5 <=> 2 * rem = unit
  PROVE  /\ Ref!RoundsUp(mode, neg, q, rem, unit) \in BOOLEAN
         /\ Bumps(mode, neg, rr, q % 10) <=> Ref!RoundsUp(mode, neg, q, rem, unit)
         /\ rr = 0 => ~Ref!RoundsUp(mode, neg, q, rem, unit)
<1>1. (q % 10) % 2 = q % 2 /\ (q % 10 \in {0, 5} <=> q % 5 = 0)
  OBVIOUS
<1>2. CASE mode = "HALF_EVEN"
  BY <1>1, <1>2 DEF Bumps, Ref!RoundsUp
<1>3. CASE mode = "DOWN"
  BY <1>3 DEF Bumps, Ref!RoundsUp
<1>4. CASE mode = "HALF_DOWN"
  BY <1>4 DEF Bumps, Ref!RoundsUp
<1>5. CASE mode = "HALF_UP"
  BY <1>5 DEF Bumps, Ref!RoundsUp
<1>6. CASE mode = "UP"
  BY <1>6 DEF Bumps, Ref!RoundsUp
<1>7. CASE mode = "CEILING"
  BY <1>7 DEF Bumps, Ref!RoundsUp
<1>8. CASE mode = "FLOOR"
  BY <1>8 DEF Bumps, Ref!RoundsUp
<1>9. CASE mode = "05UP"
  BY <1>1, <1>9 DEF Bumps, Ref!RoundsUp
<1> QED BY <1>2, <1>3, <1>4, <1>5, <1>6, <1>7, <1>8, <1>9 DEF Roundings
-----------------------------------------------------------------------------
(***************************************************************************)
(* The end of decFinalize: fold-down, clamping of zeros and overflow.      *)
(***************************************************************************)
FormatOf(mode) == [digits |-> DECPMAX, emax |-> DECEMAX, emin |-> DECEMIN,
                   round |-> mode, traps |-> {}, status |-> {},
                   clamp |-> TRUE, extended |-> TRUE]

LEMMA FormatRange ==
  ASSUME NEW mode
  PROVE  /\ Ref!Etop(FormatOf(mode)) = DECQMAX /\ Ref!Etiny(FormatOf(mode)) = DECQTINY
         /\ FormatOf(mode).digits = DECPMAX /\ FormatOf(mode).emax = DECEMAX
         /\ FormatOf(mode).emin = DECEMIN /\ FormatOf(mode).round = mode
         /\ FormatOf(mode).clamp = TRUE
BY Format DEF FormatOf, Ref!Etop, Ref!Etiny

LEMMA FiniteIs ==
  ASSUME NEW neg, NEW coef, NEW exp
  PROVE  Ref!Finite(neg, coef, exp) = Figure(neg, "fin", CoefLength(coef), coef, exp)
BY SameLength DEF Ref!Finite, Ref!NumberWith, Figure

LEMMA InfiniteIs ==
  ASSUME NEW neg PROVE Ref!Infinite(neg) = Figure(neg, "inf", 1, 0, 0)
BY DEF Ref!Infinite, Figure

LEMMA FiniteIsDatum ==
  ASSUME NEW neg \in BOOLEAN, NEW coef \in 0 .. Power(10, DECPMAX) - 1,
         NEW exp \in DECQTINY .. DECQMAX
  PROVE  /\ Datum(neg, "fin", coef, exp) \in decFloat
         /\ AsNumber(Datum(neg, "fin", coef, exp)) = Ref!Finite(neg, coef, exp)
<1>1. Datum(neg, "fin", coef, exp) \in FiniteDatum
  BY DEF Datum, Encoding, FiniteDatum
<1> QED BY <1>1, NumberOf, FiniteIs DEF decFloat

LEMMA NinesLength == CoefLength(Power(10, DECPMAX) - 1) = DECPMAX
<1>1. /\ Power(10, DECPMAX - 1) <= Power(10, DECPMAX) - 1
      /\ Power(10, DECPMAX) - 1 < Power(10, (DECPMAX - 1) + 1)
      /\ Power(10, DECPMAX) - 1 \in Nat /\ DECPMAX - 1 \in Nat /\ (DECPMAX - 1) + 1 = DECPMAX
  BY FullPower, Format
<1> QED BY <1>1, PlacesUnique DEF CoefLength

LEMMA OverflowRight ==
  ASSUME NEW mode \in Roundings, NEW neg \in BOOLEAN, NEW num, num.neg = neg,
         NEW s, s.round = mode
  PROVE  LET out == Overflowed(num, s)
         IN  /\ AsNumber(out.n) = Ref!OverflowResult(neg, FormatOf(mode)).n
             /\ out.status = {"Overflow", "Inexact"}
             /\ out.n \in decFloat /\ out.n.canonical
<1> DEFINE most == Power(10, DECPMAX) - 1
           c == FormatOf(mode)
<1>1. most \in 0 .. Power(10, DECPMAX) - 1 /\ 0 \in 0 .. Power(10, DECPMAX) - 1
  BY FullPower
<1>2. Nmax(neg) \in decFloat /\ AsNumber(Nmax(neg)) = Ref!Finite(neg, most, DECQMAX)
  BY <1>1, FiniteIsDatum, Format DEF Nmax
<1>3. InfinityDatum(neg) \in InfiniteDatum
  BY DEF InfinityDatum, Datum, Encoding, InfiniteDatum
<1>4. AsNumber(InfinityDatum(neg)) = Ref!Infinite(neg)
  <2>1. AsNumber(InfinityDatum(neg)) = Figure(neg, "inf", CoefLength(0), 0, 0)
    BY <1>1, NumberOf DEF InfinityDatum
  <2>2. CoefLength(0) = 1
    BY LengthBounds
  <2> QED BY <2>1, <2>2, InfiniteIs
<1>5. Ref!Nmax(neg, c) = Ref!Finite(neg, most, DECQMAX)
  BY FormatRange, SamePowers DEF Ref!Nmax
<1>6. Ref!OverflowResult(neg, c).n = IF Confined(mode, neg) THEN Ref!Finite(neg, most, DECQMAX)
                                                            ELSE Ref!Infinite(neg)
  BY <1>5, FormatRange DEF Ref!OverflowResult, Confined
<1>7. Overflowed(num, s) = Returns(IF Confined(mode, neg) THEN Nmax(neg) ELSE InfinityDatum(neg),
                                     {"Overflow", "Inexact"})
  BY DEF Overflowed
<1>8. Nmax(neg).canonical /\ InfinityDatum(neg).canonical
  BY DEF Nmax, InfinityDatum, Datum, Encoding
<1> QED BY <1>2, <1>3, <1>4, <1>6, <1>7, <1>8 DEF Returns, decFloat

Over(coef, exp) == coef # 0 /\ exp + CoefLength(coef) - 1 > DECEMAX

LEMMA HighEndRight ==
  ASSUME NEW mode \in Roundings, NEW neg \in BOOLEAN, NEW coef \in 0 .. Power(10, DECPMAX) - 1,
         NEW exp \in Int, exp >= DECQTINY, NEW s, s.round = mode
  PROVE  LET out == HighEnd(bcdnum(neg, coef, exp), s)
         IN  /\ out.n \in decFloat /\ out.n.canonical
             /\ Over(coef, exp) => /\ AsNumber(out.n) = Ref!OverflowResult(neg, FormatOf(mode)).n
                                   /\ out.status = {"Overflow", "Inexact"}
                                   /\ exp > DECQMAX
             /\ ~Over(coef, exp) =>
                  /\ AsNumber(out.n) = IF exp > DECQMAX
                       THEN Ref!Finite(neg, coef * Power(10, exp - DECQMAX), DECQMAX)
                       ELSE Ref!Finite(neg, coef, exp)
                  /\ out.status = {}
<1> DEFINE num == bcdnum(neg, coef, exp)
           out == HighEnd(num, s)
           n == CoefLength(coef)
<1>1. num = [neg |-> neg, kind |-> "fin", coef |-> coef, exp |-> exp]
  BY DEF bcdnum
<1>2. n \in Nat \ {0} /\ n <= DECPMAX /\ coef \in Nat
  BY Fits, Format, FullPower, LengthBounds
<1>3. CASE exp <= DECQMAX
  <2>1. out = Quietly(Datum(neg, "fin", coef, exp))
    BY <1>1, <1>3 DEF HighEnd, LaidOut, decFloatFromBCD
  <2>2. ~Over(coef, exp)
    BY <1>2, <1>3, Format DEF Over
  <2>3. exp \in DECQTINY .. DECQMAX /\ ~(exp > DECQMAX)
    BY <1>3, Format
  <2>4. Datum(neg, "fin", coef, exp).canonical
    BY DEF Datum, Encoding
  <2>5. /\ Datum(neg, "fin", coef, exp) \in decFloat
        /\ AsNumber(Datum(neg, "fin", coef, exp)) = Ref!Finite(neg, coef, exp)
    BY <2>3, FiniteIsDatum
  <2>6. out.n = Datum(neg, "fin", coef, exp) /\ out.status = {}
    <3> HIDE DEF out
    <3> QED BY <2>1 DEF Quietly, Returns
  <2> HIDE DEF out
  <2> QED BY <2>2, <2>3, <2>4, <2>5, <2>6 DEF out
<1>4. CASE exp > DECQMAX /\ ~Over(coef, exp)
  <2> DEFINE long == coef * Power(10, exp - DECQMAX)
  <2>1. exp - DECQMAX \in Nat /\ Power(10, exp - DECQMAX) \in Nat \ {0}
    BY <1>4, Format, TenPower
  <2>2. long \in 0 .. Power(10, DECPMAX) - 1
    <3>1. CASE coef = 0
      <4>1. long = 0
        BY <3>1, <2>1
      <4> QED BY <4>1, FullPower
    <3>2. CASE coef # 0
      <4>1. n + (exp - DECQMAX) <= DECPMAX
        BY <3>2, <1>2, <1>4, Format DEF Over
      <4> DEFINE k == exp - DECQMAX
      <4>2. k \in Nat /\ CoefLength(coef) + k <= DECPMAX
        BY <2>1, <4>1
      <4> HIDE DEF k
      <4>3. coef * Power(10, k) \in 0 .. Power(10, DECPMAX) - 1
        BY <1>2, <4>2, LongerFits
      <4> QED BY <4>3 DEF k
    <3> QED BY <3>1, <3>2
  <2> HIDE DEF long
  <2>3. out = Quietly(Datum(neg, "fin", long, DECQMAX))
    <3>1. CASE coef = 0
      <4>1. long = 0
        BY <3>1, <2>1 DEF long
      <4> QED BY <4>1, <3>1, <1>1, <1>4, Format DEF HighEnd, LaidOut, decFloatFromBCD
    <3>2. CASE coef # 0
      <4>1. ~(exp + CoefLength(coef) - 1 > DECEMAX)
        BY <3>2, <1>4 DEF Over
      <4>2. ~(exp <= DECQMAX)
        BY <1>4, Format
      <4> QED BY <3>2, <4>1, <4>2, <1>1 DEF HighEnd, LaidOut, decFloatFromBCD, long
    <3> QED BY <3>1, <3>2
  <2>4. DECQMAX \in DECQTINY .. DECQMAX
    BY Format
  <2>5. Datum(neg, "fin", long, DECQMAX).canonical
    BY DEF Datum, Encoding
  <2>6. /\ Datum(neg, "fin", long, DECQMAX) \in decFloat
        /\ AsNumber(Datum(neg, "fin", long, DECQMAX)) = Ref!Finite(neg, long, DECQMAX)
    BY <2>2, <2>4, FiniteIsDatum
  <2>7. out.n = Datum(neg, "fin", long, DECQMAX) /\ out.status = {}
    <3> HIDE DEF out
    <3> QED BY <2>3 DEF Quietly, Returns
  <2> HIDE DEF out
  <2> QED BY <1>4, <2>5, <2>6, <2>7 DEF out, long
<1>5. CASE Over(coef, exp)
  <2>1. exp > DECQMAX
    BY <1>2, <1>5, Format DEF Over
  <2>2. out = Overflowed(num, s)
    BY <2>1, <1>1, <1>5, Format DEF HighEnd, Over
  <2>3. num.neg = neg
    BY <1>1
  <2> HIDE DEF num, out
  <2>4. /\ AsNumber(out.n) = Ref!OverflowResult(neg, FormatOf(mode)).n
        /\ out.status = {"Overflow", "Inexact"}
        /\ out.n \in decFloat /\ out.n.canonical
    BY <2>2, <2>3, OverflowRight
  <2> QED BY <1>5, <2>1, <2>4 DEF num, out
<1>6. exp <= DECQMAX \/ exp > DECQMAX
  BY Format
<1> QED BY <1>3, <1>4, <1>5, <1>6
-----------------------------------------------------------------------------
(***************************************************************************)
(* decFinalize is the reference's rounding.  Rounded, Subnormal and        *)
(* Clamped, of which a decFloat says nothing, are not told.                *)
(***************************************************************************)
LEMMA NumFields ==
  ASSUME NEW neg, NEW coef, NEW exp
  PROVE  /\ bcdnum(neg, coef, exp).neg = neg /\ bcdnum(neg, coef, exp).kind = "fin"
         /\ bcdnum(neg, coef, exp).coef = coef /\ bcdnum(neg, coef, exp).exp = exp
BY DEF bcdnum

LEMMA MostIs ==
  ASSUME NEW a \in Int, NEW b \in Int, NEW c \in Int
  PROVE  Ref!Most({a, b, c}) = IF b <= a /\ c <= a THEN a ELSE IF c <= b THEN b ELSE c
<1> DEFINE m == IF b <= a /\ c <= a THEN a ELSE IF c <= b THEN b ELSE c
           Top(x) == \A y \in {a, b, c} : x >= y
<1>1. m \in {a, b, c} /\ Top(m)
  OBVIOUS
<1>2. \A x \in {a, b, c} : Top(x) => x = m
  BY <1>1
<1>3. Ref!Most({a, b, c}) = CHOOSE x \in {a, b, c} : Top(x)
  BY DEF Ref!Most
<1> HIDE DEF m, Top
<1>4. Ref!Most({a, b, c}) = m
  BY <1>1, <1>2, <1>3
<1> QED BY <1>4 DEF m

LEMMA LeastIs ==
  ASSUME NEW a \in Int, NEW b \in Int
  PROVE  Ref!Least({a, b}) = IF a <= b THEN a ELSE b
<1> DEFINE m == IF a <= b THEN a ELSE b
           Low(x) == \A y \in {a, b} : x <= y
<1>1. m \in {a, b} /\ Low(m)
  OBVIOUS
<1>2. \A x \in {a, b} : Low(x) => x = m
  BY <1>1
<1>3. Ref!Least({a, b}) = CHOOSE x \in {a, b} : Low(x)
  BY DEF Ref!Least
<1> HIDE DEF m, Low
<1>4. Ref!Least({a, b}) = m
  BY <1>1, <1>2, <1>3
<1> QED BY <1>4 DEF m

LEMMA ZeroRounds ==
  ASSUME NEW mode \in Roundings, NEW neg \in BOOLEAN, NEW exp \in Int,
         NEW s, s.round = mode
  PROVE  LET out == decFinalize(bcdnum(neg, 0, exp), s)
             exact == Ref!RoundTo(neg, 0, exp, FormatOf(mode))
         IN  /\ out.n \in decFloat /\ out.n.canonical
             /\ AsNumber(out.n) = exact.n
             /\ out.status = Told(exact.status) /\ out.status = {}
<1> DEFINE num == bcdnum(neg, 0, exp)
           e == IF exp < DECQTINY THEN DECQTINY ELSE exp
           low == bcdnum(neg, 0, e)
           out == decFinalize(num, s)
           top == HighEnd(low, s)
           exact == Ref!RoundTo(neg, 0, exp, FormatOf(mode))
<1>1. CoefLength(0) = 1
  BY LengthBounds
<1>2. Drop(num) = IF 1 - DECPMAX < DECQTINY - exp THEN DECQTINY - exp ELSE 1 - DECPMAX
  BY <1>1, NumFields DEF Drop
<1>3. RoundOff(num, Drop(num), s) = [num |-> low, status |-> {}]
  <2>1. CASE exp >= DECQTINY
    <3>1. Drop(num) <= 0 /\ e = exp
      BY <2>1, <1>2, Format
    <3> QED BY <3>1 DEF RoundOff
  <2>2. CASE exp < DECQTINY
    <3> DEFINE drop == DECQTINY - exp
    <3>1. Drop(num) = drop /\ drop \in Nat \ {0} /\ exp + drop = DECQTINY /\ e = DECQTINY
      BY <2>2, <1>2, Format
    <3>2. Kept(0, drop) = 0
      BY <1>1, <3>1 DEF Kept
    <3>3. Reround(0, drop) = 0
      <4>1. CASE drop > 1
        BY <4>1, <1>1 DEF Reround, Sticky
      <4>2. CASE drop = 1
        <5>1. Power(10, drop - 1) = 1
          BY <4>2, PowerZero
        <5> QED BY <4>2, <5>1, <1>1 DEF Reround, Sticky
      <4> QED BY <4>1, <4>2, <3>1
    <3> HIDE DEF drop
    <3>4. RoundOff(num, drop, s) = RoundedAt(bcdnum(neg, 0, DECQTINY), 0, s)
      BY <3>1, <3>2, <3>3, NumFields DEF RoundOff
    <3> QED BY <3>1, <3>4 DEF RoundedAt
  <2> QED BY <2>1, <2>2, Format
<1>4. out = Flagging(top, {})
  BY <1>3, NumFields DEF decFinalize, Finished
<1>5. e \in Int /\ e >= DECQTINY /\ 0 \in 0 .. Power(10, DECPMAX) - 1 /\ ~Over(0, e)
  BY Format, FullPower DEF Over
<1>6. /\ top.n \in decFloat /\ top.n.canonical /\ top.status = {}
      /\ AsNumber(top.n) = IF e > DECQMAX THEN Ref!Finite(neg, 0 * Power(10, e - DECQMAX), DECQMAX)
                                          ELSE Ref!Finite(neg, 0, e)
  <2> HIDE DEF e
  <2> DEFINE z == 0
  <2>1. z \in 0 .. Power(10, DECPMAX) - 1 /\ ~Over(z, e)
    BY <1>5
  <2> HIDE DEF z
  <2>2. LET t == HighEnd(bcdnum(neg, z, e), s)
        IN  /\ t.n \in decFloat /\ t.n.canonical /\ t.status = {}
            /\ AsNumber(t.n) = IF e > DECQMAX
                 THEN Ref!Finite(neg, z * Power(10, e - DECQMAX), DECQMAX)
                 ELSE Ref!Finite(neg, z, e)
    BY <1>5, <2>1, HighEndRight
  <2> QED BY <2>2 DEF z
<1>7. e > DECQMAX => 0 * Power(10, e - DECQMAX) = 0
  <2>1. e > DECQMAX => e - DECQMAX \in Nat
    BY <1>5, Format
  <2> QED BY <2>1, TenPower
<1>8. out.n = top.n /\ out.status = {}
  <2> HIDE DEF top, out
  <2>1. top = [n |-> top.n, status |-> top.status]
    <3> HIDE DEF low
    <3> QED BY DEF top, HighEnd, LaidOut, Overflowed, Quietly, Returns
  <2> QED BY <1>4, <1>6, <2>1 DEF Flagging, Returns
<1>9. exact = Ref!RoundZero(neg, exp, FormatOf(mode))
  BY DEF Ref!RoundTo
<1>10. exact.n = Ref!Finite(neg, 0, IF e > DECQMAX THEN DECQMAX ELSE e)
  <2> DEFINE z == IF exp > DECQMAX THEN DECQMAX ELSE IF exp < DECQTINY THEN DECQTINY ELSE exp
  <2>1. exact.n = Ref!Finite(neg, 0, z)
    <3> HIDE DEF exact
    <3> QED BY <1>9, FormatRange DEF Ref!RoundZero
  <2>2. z = IF e > DECQMAX THEN DECQMAX ELSE e
    BY Format
  <2> HIDE DEF exact, z, e
  <2> QED BY <2>1, <2>2
<1>11. exact.status \in {{}, {"Clamped"}}
  BY <1>9 DEF Ref!RoundZero
<1>12. Told(exact.status) = {}
  BY <1>11 DEF Told
<1>13. AsNumber(top.n) = exact.n
  BY <1>6, <1>7, <1>10
<1> HIDE DEF out, top, exact
<1> QED BY <1>6, <1>8, <1>12, <1>13 DEF out, exact

\* The digits dropped, by code and reference.
DropOf(coef, exp) ==
  LET long == CoefLength(coef) - DECPMAX
      low == DECQTINY - exp
  IN  IF long <= 0 /\ low <= 0 THEN 0 ELSE IF long < low THEN low ELSE long

RoundedOf(mode, neg, coef, drop) ==
  Ref!RoundAt(mode, neg, coef, IF drop <= CoefLength(coef) + 1 THEN drop ELSE CoefLength(coef) + 1)

LEMMA DropIs ==
  ASSUME NEW neg, NEW coef \in Nat, NEW exp \in Int
  PROVE  /\ DropOf(coef, exp) \in Nat
         /\ DropOf(coef, exp) = 0 => Drop(bcdnum(neg, coef, exp)) <= 0
         /\ DropOf(coef, exp) # 0 => /\ Drop(bcdnum(neg, coef, exp)) = DropOf(coef, exp)
                                     /\ DropOf(coef, exp) > 0
         /\ Drop(bcdnum(neg, coef, exp)) \in Int
         /\ DropOf(coef, exp) = Ref!Most({0, CoefLength(coef) - DECPMAX, DECQTINY - exp})
         /\ DropOf(coef, exp) >= CoefLength(coef) - DECPMAX
         /\ DropOf(coef, exp) >= DECQTINY - exp
         /\ DropOf(coef, exp) \in {0, CoefLength(coef) - DECPMAX, DECQTINY - exp}
<1> DEFINE long == CoefLength(coef) - DECPMAX
           low == DECQTINY - exp
<1>1. long \in Int /\ low \in Int
  BY Format, LengthBounds
<1>2. Drop(bcdnum(neg, coef, exp)) = IF long < low THEN low ELSE long
  BY NumFields DEF Drop
<1>3. Ref!Most({0, long, low})
        = IF long <= 0 /\ low <= 0 THEN 0 ELSE IF low <= long THEN long ELSE low
  <2> HIDE DEF long, low
  <2> QED BY <1>1, MostIs
<1>4. DropOf(coef, exp) = IF long <= 0 /\ low <= 0 THEN 0 ELSE IF long < low THEN low ELSE long
  BY DEF DropOf
<1> HIDE DEF long, low
<1> QED BY <1>1, <1>2, <1>3, <1>4 DEF long, low

\* What is kept has the precision's digits, and one more at most by a carry.
LEMMA KeptFits ==
  ASSUME NEW coef \in Nat \ {0}, NEW drop \in Nat, drop >= CoefLength(coef) - DECPMAX
  PROVE  coef \div UnitOf(coef, drop) < Power(10, DECPMAX)
<1> DEFINE n == CoefLength(coef)
           unit == UnitOf(coef, drop)
<1>1. n \in Nat \ {0} /\ coef < Power(10, n) /\ Power(10, n) \in Nat \ {0}
  BY LengthBounds, TenPower
<1> DEFINE k == IF drop <= n + 1 THEN drop ELSE n + 1
<1>2. k \in Nat /\ n <= DECPMAX + k /\ unit = Power(10, k)
  BY <1>1, Format DEF UnitOf
<1> HIDE DEF n, k, unit
<1>3. Power(10, n) <= Power(10, DECPMAX + k)
  BY <1>1, <1>2, Format, PowerMono
<1>4. Power(10, DECPMAX + k) = Power(10, DECPMAX) * unit
  BY <1>2, Format, PowerSum
<1>5. unit \in Nat \ {0}
  BY <1>2, TenPower
<1> DEFINE f == Power(10, DECPMAX)
           q == coef \div unit
<1>6. f \in Nat \ {0}
  BY FullPower
<1>7. q \in Nat /\ q * unit <= coef
  BY <1>5
<1> HIDE DEF f, q
<1>8. q * unit < f * unit
  BY <1>1, <1>3, <1>4, <1>5, <1>6, <1>7 DEF f
<1>9. q < f
  <2> SUFFICES ASSUME f <= q PROVE FALSE
    BY <1>6, <1>7
  <2>1. f * unit <= q * unit
    BY <1>5, <1>6, <1>7
  <2> QED BY <2>1, <1>5, <1>6, <1>7, <1>8
<1> QED BY <1>9 DEF f, q, unit

LEMMA RoundedIs ==
  ASSUME NEW mode \in Roundings, NEW neg \in BOOLEAN, NEW coef \in Nat \ {0},
         NEW drop \in Nat \ {0}, drop >= CoefLength(coef) - DECPMAX
  PROVE  LET r == RoundedOf(mode, neg, coef, drop)
             rr == Reround(coef, drop)
             kept == Kept(coef, drop)
         IN  /\ kept \in 0 .. Power(10, DECPMAX) - 1
             /\ r.inexact \in BOOLEAN /\ (r.inexact <=> rr # 0)
             /\ rr = 0 => r.q = kept
             /\ r.q = kept + (IF Bumps(mode, neg, rr, kept % 10) THEN 1 ELSE 0)
<1> DEFINE r == RoundedOf(mode, neg, coef, drop)
           rr == Reround(coef, drop)
           kept == Kept(coef, drop)
           unit == UnitOf(coef, drop)
           q == coef \div unit
           rem == coef % unit
           up == Ref!RoundsUp(mode, neg, q, rem, unit)
<1>1. /\ unit \in Nat \ {0} /\ kept = q /\ rr \in 0 .. 9 /\ (rr = 0 <=> rem = 0)
      /\ (rr > 5 <=> 2 * rem > unit) /\ (rr = 5 <=> 2 * rem = unit)
  BY DroppedDigits
<1>2. q < Power(10, DECPMAX)
  BY KeptFits
<1>3. r = [q |-> IF up THEN q + 1 ELSE q, inexact |-> rem # 0]
  BY SamePowers DEF Ref!RoundAt, RoundedOf, UnitOf
<1> HIDE DEF unit
<1>4. q \in Nat /\ rem \in Nat
  BY <1>1
<1> HIDE DEF q, rem, rr, r, kept
<1>5. /\ up \in BOOLEAN
      /\ Bumps(mode, neg, rr, q % 10) <=> up
      /\ rr = 0 => ~up
  BY <1>1, <1>4, BumpsRight
<1> HIDE DEF up
<1>6. kept \in 0 .. Power(10, DECPMAX) - 1
  BY <1>1, <1>2, <1>4, FullPower
<1>7. r.q = (IF up THEN q + 1 ELSE q) /\ r.inexact = (rem # 0)
  BY <1>3
<1>8. r.inexact \in BOOLEAN /\ (r.inexact <=> rr # 0) /\ (rr = 0 => r.q = kept)
  BY <1>1, <1>5, <1>7
<1>9. r.q = kept + (IF Bumps(mode, neg, rr, kept % 10) THEN 1 ELSE 0)
  BY <1>1, <1>4, <1>5, <1>7
<1> QED BY <1>6, <1>8, <1>9 DEF r, rr, kept

\* A number is tiny as it was before rounding, whichever exponent one looks at.
LEMMA UnderflowSame ==
  ASSUME NEW coef \in Nat \ {0}, NEW exp \in Int, NEW drop \in Nat \ {0},
         drop = DropOf(coef, exp)
  PROVE  LET e == exp + drop
             kept == Kept(coef, drop)
         IN  (e < DECEMIN /\ e + CoefLength(kept) - 1 < DECEMIN)
               <=> exp + CoefLength(coef) - 1 < DECEMIN
<1> DEFINE n == CoefLength(coef)
           e == exp + drop
           kept == Kept(coef, drop)
           k == CoefLength(kept)
<1>1. n \in Nat \ {0} /\ coef >= Power(10, n - 1) /\ n - 1 \in Nat
  BY LengthBounds
<1>2. drop \in {n - DECPMAX, DECQTINY - exp}
  BY DropIs
<1>3. CASE drop < n
  <2>1. drop <= n - 1
    BY <1>1, <1>3
  <2>2. Power(10, drop) <= Power(10, n - 1) /\ Power(10, n - 1) \in Nat /\ Power(10, drop) \in Nat
    BY <1>1, <2>1, PowerMono, TenPower
  <2>3. coef >= Power(10, drop)
    <3> HIDE DEF n
    <3> QED BY <1>1, <2>2
  <2>4. kept = coef \div Power(10, drop)
    BY <1>1, <1>3 DEF Kept
  <2>5. n = drop + k /\ kept \in Nat \ {0}
    BY <2>3, <2>4, PlacesShift DEF CoefLength
  <2>6. k \in Nat \ {0}
    BY <2>5, LengthBounds
  <2> HIDE DEF n, k, kept
  <2>7. (e < DECEMIN /\ e + k - 1 < DECEMIN) <=> exp + n - 1 < DECEMIN
    BY <1>1, <2>5, <2>6, Format
  <2> QED BY <2>7 DEF n, k, kept
<1>4. CASE drop >= n
  <2>1. kept = 0 /\ k = 1
    BY <1>4, LengthBounds DEF Kept
  <2>2. e = DECQTINY
    BY <1>1, <1>2, <1>4, Format
  <2> HIDE DEF n, k, kept
  <2>3. e < DECEMIN /\ e + k - 1 < DECEMIN
    BY <2>1, <2>2, Format
  <2>4. exp + n - 1 < DECEMIN
    BY <1>1, <1>4, <2>2, Format
  <2> QED BY <2>3, <2>4 DEF n, k, kept
<1> QED BY <1>1, <1>3, <1>4

CarriedCoef(q) == IF q = Power(10, DECPMAX) THEN Power(10, DECPMAX - 1) ELSE q
CarriedBy(q) == IF q = Power(10, DECPMAX) THEN 1 ELSE 0

LEMMA RoundOffRight ==
  ASSUME NEW mode \in Roundings, NEW neg \in BOOLEAN, NEW coef \in Nat \ {0},
         NEW exp \in Int, NEW s, s.round = mode
  PROVE  LET num == bcdnum(neg, coef, exp)
             drop == DropOf(coef, exp)
             r == RoundedOf(mode, neg, coef, drop)
             tiny == exp + CoefLength(coef) - 1 < DECEMIN
         IN  /\ r.q \in 0 .. Power(10, DECPMAX) /\ r.inexact \in BOOLEAN
             /\ RoundOff(num, Drop(num), s)
                  = [num |-> bcdnum(neg, CarriedCoef(r.q), exp + drop + CarriedBy(r.q)),
                     status |-> IF r.inexact
                                THEN {"Inexact"} \cup IF tiny THEN {"Underflow"} ELSE {}
                                ELSE {}]
<1> DEFINE num == bcdnum(neg, coef, exp)
           drop == DropOf(coef, exp)
           r == RoundedOf(mode, neg, coef, drop)
           tiny == exp + CoefLength(coef) - 1 < DECEMIN
           rr == Reround(coef, drop)
           kept == Kept(coef, drop)
<1>1. drop \in Nat /\ drop >= CoefLength(coef) - DECPMAX
  BY DropIs
<1>2. CASE drop = 0
  <2>1. Drop(num) <= 0
    BY <1>2, DropIs
  <2>2. coef < Power(10, DECPMAX)
    <3>1. CoefLength(coef) <= DECPMAX
      BY <1>1, <1>2, LengthBounds, Format
    <3> QED BY <3>1, Fits, Format
  <2>3. r = [q |-> IF Ref!RoundsUp(mode, neg, coef \div 1, coef % 1, 1) THEN (coef \div 1) + 1
                                                                        ELSE coef \div 1,
             inexact |-> coef % 1 # 0]
    <3>1. Ref!Power(10, 0) = 1 /\ drop <= CoefLength(coef) + 1
      BY <1>2, SamePowers, PowerZero, LengthBounds
    <3> HIDE DEF drop
    <3> QED BY <1>2, <3>1 DEF Ref!RoundAt, RoundedOf
  <2>4. coef \div 1 = coef /\ coef % 1 = 0
    OBVIOUS
  <2>5. ~Ref!RoundsUp(mode, neg, coef, 0, 1)
    BY BumpsRight
  <2>6. r.q = coef /\ ~r.inexact /\ r.inexact \in BOOLEAN
    <3> HIDE DEF r
    <3> QED BY <2>3, <2>4, <2>5
  <2>7. RoundOff(num, Drop(num), s) = [num |-> num, status |-> {}]
    BY <2>1 DEF RoundOff
  <2>8. CarriedCoef(coef) = coef /\ CarriedBy(coef) = 0
    BY <2>2, FullPower DEF CarriedCoef, CarriedBy
  <2>9. exp + drop + CarriedBy(coef) = exp
    BY <1>2, <2>8
  <2> HIDE DEF r, drop
  <2>10. r.q \in 0 .. Power(10, DECPMAX)
    BY <2>2, <2>6, FullPower
  <2> QED BY <2>6, <2>7, <2>8, <2>9, <2>10 DEF r, drop
<1>3. CASE drop # 0
  <2>1. Drop(num) = drop /\ drop > 0
    BY <1>3, DropIs
  <2>2. /\ kept \in 0 .. Power(10, DECPMAX) - 1
        /\ r.inexact \in BOOLEAN /\ (r.inexact <=> rr # 0)
        /\ rr = 0 => r.q = kept
        /\ r.q = kept + (IF Bumps(mode, neg, rr, kept % 10) THEN 1 ELSE 0)
    BY <1>1, <1>3, RoundedIs
  <2>3. r.q \in 0 .. Power(10, DECPMAX)
    <3> HIDE DEF r, kept, rr
    <3> QED BY <2>2, FullPower
  <2> DEFINE e == exp + drop
             cut == bcdnum(neg, kept, e)
  <2>4. RoundOff(num, Drop(num), s) = RoundedAt(cut, rr, s)
    <3>1. num.neg = neg /\ num.coef = coef /\ num.exp = exp
      BY NumFields
    <3> HIDE DEF drop, num
    <3>2. Drop(num) = drop /\ ~(drop <= 0)
      BY <1>1, <2>1
    <3> QED BY <3>1, <3>2 DEF RoundOff
  <2>5. RoundFlags(cut) = {"Inexact"} \cup IF tiny THEN {"Underflow"} ELSE {}
    <3>1. (e < DECEMIN /\ e + CoefLength(kept) - 1 < DECEMIN) <=> tiny
      BY <1>1, <1>3, UnderflowSame
    <3> HIDE DEF e, kept, tiny
    <3> QED BY <3>1, NumFields DEF RoundFlags
  <2>6. CASE rr = 0
    <3>1. RoundedAt(cut, rr, s) = [num |-> cut, status |-> {}] /\ ~r.inexact /\ r.q = kept
      <4> HIDE DEF r, rr, kept, cut
      <4> QED BY <2>2, <2>6 DEF RoundedAt
    <3>2. CarriedCoef(kept) = kept /\ CarriedBy(kept) = 0
      <4> HIDE DEF kept
      <4> QED BY <2>2, FullPower DEF CarriedCoef, CarriedBy
    <3>3. e + CarriedBy(kept) = e
      BY <1>1, <3>2
    <3> HIDE DEF r, rr, kept
    <3> QED BY <2>2, <2>3, <2>4, <3>1, <3>2, <3>3 DEF r, rr, kept
  <2>7. CASE rr # 0
    <3>1. RoundedAt(cut, rr, s)
            = [num |-> Bump(cut, IF Bumps(s.round, cut.neg, rr, cut.coef % 10) THEN 1 ELSE 0),
               status |-> RoundFlags(cut)]
      <4> HIDE DEF rr, cut
      <4> QED BY <2>7 DEF RoundedAt
    <3> HIDE DEF kept, rr, e, drop, r
    <3>2. Bump(cut, IF Bumps(s.round, cut.neg, rr, cut.coef % 10) THEN 1 ELSE 0)
            = Carried(bcdnum(neg, r.q, e))
      BY <2>2, NumFields DEF Bump
    <3>3. e \in Int
      BY <1>1 DEF e
    <3>4. Carried(bcdnum(neg, r.q, e)) = bcdnum(neg, CarriedCoef(r.q), e + CarriedBy(r.q))
      BY <3>3, NumFields DEF Carried, CarriedCoef, CarriedBy
    <3>5. r.inexact
      BY <2>2, <2>7
    <3>6. RoundOff(num, Drop(num), s)
            = [num |-> bcdnum(neg, CarriedCoef(r.q), e + CarriedBy(r.q)),
               status |-> {"Inexact"} \cup IF tiny THEN {"Underflow"} ELSE {}]
      BY <2>4, <2>5, <3>1, <3>2, <3>4
    <3> QED BY <2>2, <2>3, <3>5, <3>6 DEF e, drop, r
  <2> QED BY <2>6, <2>7
<1> QED BY <1>2, <1>3

LEMMA FlagsTold ==
  ASSUME NEW a \in BOOLEAN, NEW b \in BOOLEAN, NEW c \in BOOLEAN, NEW d \in BOOLEAN,
         NEW e \in BOOLEAN
  PROVE  LET flags == [Rounded |-> a, Inexact |-> b, Subnormal |-> c, Underflow |-> d,
                       Clamped |-> e]
         IN  Told({f \in DOMAIN flags : flags[f]})
               = (IF b THEN {"Inexact"} ELSE {}) \cup (IF d THEN {"Underflow"} ELSE {})
<1> DEFINE flags == [Rounded |-> a, Inexact |-> b, Subnormal |-> c, Underflow |-> d,
                     Clamped |-> e]
<1>1. DOMAIN flags = {"Rounded", "Inexact", "Subnormal", "Underflow", "Clamped"}
  OBVIOUS
<1>2. flags["Inexact"] = b /\ flags["Underflow"] = d
  OBVIOUS
<1> HIDE DEF flags
<1>3. Told({f \in DOMAIN flags : flags[f]}) = {f \in {"Inexact", "Underflow"} : flags[f]}
  BY <1>1 DEF Told
<1>4. {f \in {"Inexact", "Underflow"} : flags[f]}
        = (IF b THEN {"Inexact"} ELSE {}) \cup (IF d THEN {"Underflow"} ELSE {})
  BY <1>2
<1> QED BY <1>3, <1>4 DEF flags

\* What the reference makes of a rounded number, in the terms of the code.
StatusOf(inexact, coef, exp) ==
  IF inexact THEN {"Inexact"} \cup IF exp + CoefLength(coef) - 1 < DECEMIN
                                    THEN {"Underflow"} ELSE {}
             ELSE {}

FittedAs(exact, mode, neg, q, e, st) ==
  /\ Over(q, e) => /\ exact.n = Ref!OverflowResult(neg, FormatOf(mode)).n
                   /\ Told(exact.status) = {"Overflow", "Inexact"}
  /\ ~Over(q, e) =>
       /\ exact.n = IF e > DECQMAX THEN Ref!Finite(neg, q * Power(10, e - DECQMAX), DECQMAX)
                                   ELSE Ref!Finite(neg, q, e)
       /\ Told(exact.status) = st

LEMMA FittedIs ==
  ASSUME NEW mode \in Roundings, NEW neg \in BOOLEAN, NEW coef \in Nat \ {0},
         NEW exp \in Int, NEW drop \in Nat, NEW r,
         r.q \in 0 .. Power(10, DECPMAX), r.inexact \in BOOLEAN
  PROVE  FittedAs(Ref!Fitted(neg, coef, exp, drop, r, FormatOf(mode)), mode, neg,
                  CarriedCoef(r.q), exp + drop + CarriedBy(r.q),
                  StatusOf(r.inexact, coef, exp))
<1> DEFINE c == FormatOf(mode)
           exact == Ref!Fitted(neg, coef, exp, drop, r, c)
           q == CarriedCoef(r.q)
           e == exp + drop + CarriedBy(r.q)
           tiny == exp + CoefLength(coef) - 1 < DECEMIN
           folded == e > DECQMAX
           flags == [Rounded |-> drop > 0, Inexact |-> r.inexact, Subnormal |-> tiny,
                     Underflow |-> tiny /\ r.inexact, Clamped |-> folded \/ q = 0]
<1>1. (IF r.q = Power(10, DECPMAX) THEN r.q \div 10 ELSE r.q) = q
  <2>1. (10 * Power(10, DECPMAX - 1)) \div 10 = Power(10, DECPMAX - 1)
    BY FullPower
  <2> QED BY <2>1, FullPower DEF CarriedCoef
<1>2. exact = IF q # 0 /\ e + CoefLength(q) - 1 > DECEMAX THEN Ref!OverflowResult(neg, c)
              ELSE [n |-> IF folded THEN Ref!Finite(neg, q * Power(10, e - DECQMAX), DECQMAX)
                                    ELSE Ref!Finite(neg, q, e),
                    status |-> {f \in DOMAIN flags : flags[f]}]
  <2> HIDE DEF c
  <2>1. /\ c.digits = DECPMAX /\ c.emax = DECEMAX /\ c.emin = DECEMIN /\ c.clamp = TRUE
        /\ Ref!Etop(c) = DECQMAX
    BY FormatRange DEF c
  <2>2. exp + drop + (IF r.q = Power(10, DECPMAX) THEN 1 ELSE 0) = e
    BY DEF CarriedBy
  <2> HIDE DEF q, e
  <2> QED BY <1>1, <2>1, <2>2, SamePowers, SameLength DEF Ref!Fitted
<1>3. Told({f \in DOMAIN flags : flags[f]})
        = (IF r.inexact THEN {"Inexact"} ELSE {})
            \cup (IF tiny /\ r.inexact THEN {"Underflow"} ELSE {})
  <2> DEFINE a == drop > 0
             k == folded \/ q = 0
             d == tiny /\ r.inexact
             i == r.inexact
  <2>1. a \in BOOLEAN /\ k \in BOOLEAN /\ d \in BOOLEAN /\ tiny \in BOOLEAN /\ i \in BOOLEAN
    OBVIOUS
  <2> HIDE DEF a, k, d, tiny, i
  <2>2. LET fl == [Rounded |-> a, Inexact |-> i, Subnormal |-> tiny, Underflow |-> d,
                   Clamped |-> k]
        IN  Told({f \in DOMAIN fl : fl[f]})
              = (IF i THEN {"Inexact"} ELSE {}) \cup (IF d THEN {"Underflow"} ELSE {})
    BY <2>1, FlagsTold
  <2> QED BY <2>2 DEF a, k, d, i
<1>4. Told(Ref!OverflowResult(neg, c).status) = {"Overflow", "Inexact"}
  <2>1. Ref!OverflowResult(neg, c).status = {"Overflow", "Inexact", "Rounded"}
    BY DEF Ref!OverflowResult
  <2> QED BY <2>1 DEF Told
<1> DEFINE st == StatusOf(r.inexact, coef, exp)
<1>7. st = IF r.inexact THEN {"Inexact"} \cup IF tiny THEN {"Underflow"} ELSE {} ELSE {}
  BY DEF StatusOf
<1> SUFFICES FittedAs(exact, mode, neg, q, e, st)
  OBVIOUS
<1> HIDE DEF q, e, flags, c, st
<1>5. CASE Over(q, e)
  <2>1. exact = Ref!OverflowResult(neg, c)
    BY <1>2, <1>5 DEF Over
  <2> HIDE DEF exact
  <2> QED BY <1>4, <1>5, <2>1 DEF c, FittedAs
<1>6. CASE ~Over(q, e)
  <2>1. exact = [n |-> IF folded THEN Ref!Finite(neg, q * Power(10, e - DECQMAX), DECQMAX)
                                 ELSE Ref!Finite(neg, q, e),
                 status |-> {f \in DOMAIN flags : flags[f]}]
    BY <1>2, <1>6 DEF Over
  <2> HIDE DEF exact, tiny
  <2>2. exact.n = IF folded THEN Ref!Finite(neg, q * Power(10, e - DECQMAX), DECQMAX)
                            ELSE Ref!Finite(neg, q, e)
    BY <2>1
  <2>3. exact.status = {f \in DOMAIN flags : flags[f]}
    BY <2>1
  <2>4. Told(exact.status) = st
    BY <1>3, <1>7, <2>3
  <2> QED BY <1>6, <2>2, <2>4 DEF FittedAs
<1> QED BY <1>5, <1>6

\* A number so big does not come out tiny, and was not tiny.
LEMMA BigIsNotTiny ==
  ASSUME NEW coef \in Nat \ {0}, NEW exp \in Int, NEW by \in {0, 1},
         exp + DropOf(coef, exp) + by > DECQMAX
  PROVE  ~(exp + CoefLength(coef) - 1 < DECEMIN)
<1> DEFINE n == CoefLength(coef)
           drop == DropOf(coef, exp)
<1>1. n \in Nat \ {0}
  BY LengthBounds
<1>2. drop \in {0, n - DECPMAX, DECQTINY - exp}
  BY DropIs
<1> HIDE DEF n, drop
<1>3. ~(exp + n - 1 < DECEMIN)
  BY <1>1, <1>2, Format DEF drop
<1> QED BY <1>3 DEF n

LEMMA NonZeroRounds ==
  ASSUME NEW mode \in Roundings, NEW neg \in BOOLEAN, NEW coef \in Nat \ {0},
         NEW exp \in Int, NEW s, s.round = mode
  PROVE  LET out == decFinalize(bcdnum(neg, coef, exp), s)
             exact == Ref!RoundTo(neg, coef, exp, FormatOf(mode))
         IN  /\ out.n \in decFloat /\ out.n.canonical
             /\ AsNumber(out.n) = exact.n
             /\ out.status = Told(exact.status) /\ out.status \subseteq DEC_Flags
<1> DEFINE num == bcdnum(neg, coef, exp)
           drop == DropOf(coef, exp)
           r == RoundedOf(mode, neg, coef, drop)
           q == CarriedCoef(r.q)
           by == CarriedBy(r.q)
           e == exp + drop + by
           tiny == exp + CoefLength(coef) - 1 < DECEMIN
           st == StatusOf(r.inexact, coef, exp)
           high == HighEnd(bcdnum(neg, q, e), s)
           out == decFinalize(num, s)
           exact == Ref!RoundTo(neg, coef, exp, FormatOf(mode))
<1>1. /\ r.q \in 0 .. Power(10, DECPMAX) /\ r.inexact \in BOOLEAN
      /\ RoundOff(num, Drop(num), s) = [num |-> bcdnum(neg, q, e), status |-> st]
  BY RoundOffRight DEF StatusOf
<1>2. drop \in Nat /\ drop >= DECQTINY - exp
  BY DropIs
<1>3. exact = Ref!Fitted(neg, coef, exp, drop, r, FormatOf(mode))
  <2> DEFINE c == FormatOf(mode)
             top == CoefLength(coef) + 1
  <2>1. Ref!Most({0, Ref!Digits(coef) - c.digits, Ref!Etiny(c) - exp}) = drop
    BY FormatRange, SameLength, DropIs
  <2>2. Ref!Least({drop, Ref!Digits(coef) + 1}) = IF drop <= top THEN drop ELSE top
    <3>1. top \in Int /\ drop \in Int
      BY <1>2, LengthBounds
    <3> HIDE DEF top, drop
    <3>2. Ref!Least({drop, top}) = IF drop <= top THEN drop ELSE top
      BY <3>1, LeastIs
    <3>3. Ref!Digits(coef) + 1 = top
      BY SameLength DEF top
    <3> QED BY <3>2, <3>3
  <2>3. r = Ref!RoundAt(c.round, neg, coef, IF drop <= top THEN drop ELSE top)
    <3> HIDE DEF drop
    <3> QED BY FormatRange DEF RoundedOf
  <2> HIDE DEF drop, c, top, r
  <2>4. Ref!RoundTo(neg, coef, exp, c) = Ref!Fitted(neg, coef, exp, drop, r, c)
    BY <2>1, <2>2, <2>3 DEF Ref!RoundTo
  <2> QED BY <2>4 DEF c
<1>4. q \in 0 .. Power(10, DECPMAX) - 1 /\ by \in {0, 1}
  <2> HIDE DEF r
  <2> QED BY <1>1, FullPower, Format DEF CarriedCoef, CarriedBy
<1>5. e \in Int /\ e >= DECQTINY
  <2> HIDE DEF drop, by
  <2> QED BY <1>2, <1>4, Format
<1>6. /\ Over(q, e) => /\ exact.n = Ref!OverflowResult(neg, FormatOf(mode)).n
                       /\ Told(exact.status) = {"Overflow", "Inexact"}
      /\ ~Over(q, e) =>
           /\ exact.n = IF e > DECQMAX THEN Ref!Finite(neg, q * Power(10, e - DECQMAX), DECQMAX)
                                       ELSE Ref!Finite(neg, q, e)
           /\ Told(exact.status) = st
  <2> HIDE DEF r, drop
  <2>1. FittedAs(Ref!Fitted(neg, coef, exp, drop, r, FormatOf(mode)), mode, neg,
                 CarriedCoef(r.q), exp + drop + CarriedBy(r.q), StatusOf(r.inexact, coef, exp))
    BY <1>1, <1>2, FittedIs
  <2>2. FittedAs(exact, mode, neg, q, e, st)
    <3> HIDE DEF exact
    <3> QED BY <1>3, <2>1
  <2> HIDE DEF q, e, st, exact
  <2> QED BY <2>2 DEF FittedAs
<1>7. /\ high.n \in decFloat /\ high.n.canonical
      /\ Over(q, e) => /\ AsNumber(high.n) = Ref!OverflowResult(neg, FormatOf(mode)).n
                       /\ high.status = {"Overflow", "Inexact"}
                       /\ e > DECQMAX
      /\ ~Over(q, e) =>
           /\ AsNumber(high.n) = IF e > DECQMAX
                                 THEN Ref!Finite(neg, q * Power(10, e - DECQMAX), DECQMAX)
                                 ELSE Ref!Finite(neg, q, e)
           /\ high.status = {}
  <2> HIDE DEF q, e
  <2> QED BY <1>4, <1>5, HighEndRight DEF high
<1>8. Over(q, e) => st \subseteq {"Inexact"}
  <2> SUFFICES ASSUME Over(q, e) PROVE st \subseteq {"Inexact"}
    OBVIOUS
  <2>1. e > DECQMAX
    <3> HIDE DEF q, e, high
    <3> QED BY <1>7
  <2>2. ~tiny
    <3> HIDE DEF by
    <3> QED BY <2>1, <1>4, BigIsNotTiny
  <2> HIDE DEF r
  <2> QED BY <2>2 DEF StatusOf
<1>9. out = Flagging(high, st)
  <2>1. num.kind = "fin"
    BY NumFields
  <2> HIDE DEF num, st, high, q, e
  <2> QED BY <1>1, <2>1 DEF decFinalize, Finished, high
<1>10. out.n = high.n /\ out.status = high.status \cup st
  <2> DEFINE low == bcdnum(neg, q, e)
  <2>1. high = [n |-> high.n, status |-> high.status]
    <3> HIDE DEF low
    <3> QED BY DEF high, HighEnd, LaidOut, Overflowed, Quietly, Returns
  <2> HIDE DEF high, out, st
  <2> QED BY <1>9, <2>1 DEF Flagging, Returns
<1> HIDE DEF out, high, exact, q, e, st
<1>11. out.n \in decFloat /\ out.n.canonical /\ AsNumber(out.n) = exact.n
  <2>1. CASE Over(q, e)
    BY <1>6, <1>7, <1>10, <2>1
  <2>2. CASE ~Over(q, e)
    BY <1>6, <1>7, <1>10, <2>2
  <2> QED BY <2>1, <2>2
<1>12. out.status = Told(exact.status)
  <2>1. CASE Over(q, e)
    BY <1>6, <1>7, <1>8, <1>10, <2>1
  <2>2. CASE ~Over(q, e)
    BY <1>6, <1>7, <1>10, <2>2
  <2> QED BY <2>1, <2>2
<1>13. out.status \subseteq DEC_Flags
  <2>1. st \subseteq DEC_Flags
    BY DEF st, StatusOf, DEC_Flags, DEC_Errors
  <2>2. high.status \subseteq DEC_Flags
    BY <1>7 DEF DEC_Flags, DEC_Errors
  <2> QED BY <1>10, <2>1, <2>2
<1> QED BY <1>11, <1>12, <1>13 DEF out, exact

\* Any finite number, in any rounding mode.
LEMMA FinalizeRounds ==
  ASSUME NEW mode \in Roundings, NEW neg \in BOOLEAN, NEW coef \in Nat,
         NEW exp \in Int, NEW s, s.round = mode
  PROVE  LET out == decFinalize(bcdnum(neg, coef, exp), s)
             exact == Ref!RoundTo(neg, coef, exp, FormatOf(mode))
         IN  /\ out.n \in decFloat /\ out.n.canonical
             /\ AsNumber(out.n) = exact.n
             /\ out.status = Told(exact.status) /\ out.status \subseteq DEC_Flags
<1>1. CASE coef = 0
  <2>1. {} \subseteq DEC_Flags
    OBVIOUS
  <2> QED BY <1>1, <2>1, ZeroRounds
<1>2. CASE coef # 0
  BY <1>2, NonZeroRounds
<1> QED BY <1>1, <1>2
-----------------------------------------------------------------------------
(***************************************************************************)
(* What functions return.                                                  *)
(***************************************************************************)
Encodable(out) == out.n \in decFloat /\ out.status \subseteq DEC_Flags

LEMMA ReturnsFields ==
  ASSUME NEW df, NEW st
  PROVE  /\ Returns(df, st).n = df /\ Returns(df, st).status = st
         /\ Quietly(df).n = df /\ Quietly(df).status = {}
BY DEF Returns, Quietly

LEMMA QuietlyEncodable ==
  ASSUME NEW df \in decFloat PROVE Encodable(Quietly(df))
BY ReturnsFields DEF Encodable

LEMMA DatumFields ==
  ASSUME NEW neg, NEW kind, NEW coef, NEW exp
  PROVE  /\ Datum(neg, kind, coef, exp).neg = neg /\ Datum(neg, kind, coef, exp).kind = kind
         /\ Datum(neg, kind, coef, exp).coef = coef /\ Datum(neg, kind, coef, exp).exp = exp
         /\ Datum(neg, kind, coef, exp).canonical = TRUE
BY DEF Datum, Encoding

LEMMA FiniteDatumIs ==
  ASSUME NEW neg \in BOOLEAN, NEW coef \in 0 .. Power(10, DECPMAX) - 1,
         NEW exp \in DECQTINY .. DECQMAX
  PROVE  Datum(neg, "fin", coef, exp) \in decFloat
BY FiniteIsDatum

LEMMA InfiniteDatumIs ==
  ASSUME NEW neg \in BOOLEAN
  PROVE  /\ InfinityDatum(neg) \in decFloat
         /\ [InfinityDatum(neg) EXCEPT !.canonical = FALSE] \in decFloat
BY DEF InfinityDatum, Datum, Encoding, InfiniteDatum, decFloat

LEMMA PayloadDatumIs ==
  ASSUME NEW neg \in BOOLEAN, NEW kind \in {"nan", "snan"},
         NEW coef \in 0 .. Power(10, DECPMAX - 1) - 1
  PROVE  Datum(neg, kind, coef, 0) \in decFloat
BY DEF Datum, Encoding, PayloadDatum, decFloat

\* What the fields of a decFloat can be.
LEMMA DatumParts ==
  ASSUME NEW df \in decFloat
  PROVE  /\ df.neg \in BOOLEAN /\ df.kind \in {"fin", "inf", "nan", "snan"}
         /\ df.coef \in 0 .. Power(10, DECPMAX) - 1 /\ df.exp \in DECQTINY .. DECQMAX
         /\ df.canonical \in BOOLEAN
         /\ df.kind = "inf" => df.coef = 0 /\ df.exp = 0
         /\ df.kind \in {"nan", "snan"} => df.coef \in 0 .. Power(10, DECPMAX - 1) - 1 /\ df.exp = 0
<1>1. /\ 0 \in 0 .. Power(10, DECPMAX) - 1
      /\ 0 .. Power(10, DECPMAX - 1) - 1 \subseteq 0 .. Power(10, DECPMAX) - 1
      /\ 0 \in DECQTINY .. DECQMAX
  BY FullPower, Format
<1>2. CASE df \in FiniteDatum
  BY <1>2 DEF FiniteDatum
<1>3. CASE df \in InfiniteDatum
  BY <1>1, <1>3 DEF InfiniteDatum
<1>4. CASE df \in PayloadDatum
  BY <1>1, <1>4 DEF PayloadDatum
<1> QED BY <1>2, <1>3, <1>4 DEF decFloat

\* A decFloat with its encoding, sign or kind of NaN changed.
LEMMA Recoded ==
  ASSUME NEW df \in decFloat, NEW neg \in BOOLEAN, NEW b \in BOOLEAN
  PROVE  /\ [df EXCEPT !.canonical = b] \in decFloat
         /\ [df EXCEPT !.neg = neg] \in decFloat
         /\ df.kind \in {"nan", "snan"} => [df EXCEPT !.kind = "nan"] \in decFloat
<1>1. CASE df \in FiniteDatum
  BY <1>1 DEF decFloat, FiniteDatum
<1>2. CASE df \in InfiniteDatum
  BY <1>2 DEF decFloat, InfiniteDatum
<1>3. CASE df \in PayloadDatum
  BY <1>3 DEF decFloat, PayloadDatum
<1> QED BY <1>1, <1>2, <1>3 DEF decFloat

BcdNum == [neg: BOOLEAN, kind: {"fin"}, coef: Nat, exp: Int]

\* Of a context the functions read the rounding mode.
Setting == [round: Roundings]

LEMMA BcdNumIs ==
  ASSUME NEW neg \in BOOLEAN, NEW coef \in Nat, NEW exp \in Int
  PROVE  bcdnum(neg, coef, exp) \in BcdNum
BY DEF bcdnum, BcdNum

LEMMA FinalizeFinite ==
  ASSUME NEW num \in BcdNum, NEW s \in Setting
  PROVE  LET out == decFinalize(num, s)
         IN  Encodable(out) /\ out.n.canonical /\ out.n.kind \in {"fin", "inf"}
<1> DEFINE neg == num.neg
           coef == num.coef
           exp == num.exp
           mode == s.round
           x == bcdnum(neg, coef, exp)
           out == decFinalize(x, s)
<1>1. num = x
  BY DEF BcdNum, bcdnum
<1>2. neg \in BOOLEAN /\ coef \in Nat /\ exp \in Int /\ mode \in Roundings
  BY DEF BcdNum, Setting
<1> HIDE DEF neg, coef, exp, mode, x
<1>3. /\ out.n \in decFloat /\ out.n.canonical
      /\ AsNumber(out.n) = Ref!RoundTo(neg, coef, exp, FormatOf(mode)).n
      /\ out.status \subseteq DEC_Flags
  BY <1>2, FinalizeRounds DEF x, mode
<1>4. Ref!RoundTo(neg, coef, exp, FormatOf(mode)).n.kind \in {"fin", "inf"}
  <2> DEFINE c == FormatOf(mode)
  <2>1. \A a, b, d : Ref!Finite(a, b, d).kind = "fin" /\ Ref!Infinite(a).kind = "inf"
    BY DEF Ref!Finite, Ref!NumberWith, Ref!Infinite
  <2> HIDE DEF c
  <2>2. Ref!OverflowResult(neg, c).n.kind \in {"fin", "inf"}
    BY <2>1 DEF Ref!OverflowResult, Ref!Nmax
  <2>3. Ref!RoundZero(neg, exp, c).n.kind = "fin"
    BY <2>1 DEF Ref!RoundZero
  <2>4. \A drop, r : Ref!Fitted(neg, coef, exp, drop, r, c).n.kind \in {"fin", "inf"}
    BY <2>1, <2>2 DEF Ref!Fitted
  <2>5. Ref!RoundTo(neg, coef, exp, c).n.kind \in {"fin", "inf"}
    BY <2>3, <2>4 DEF Ref!RoundTo
  <2> QED BY <2>5 DEF c
<1>5. AsNumber(out.n).kind = out.n.kind
  BY DEF AsNumber
<1> QED BY <1>1, <1>3, <1>4, <1>5 DEF Encodable

\* A special value keeps its sign and kind, and of a payload the last digits.
LEMMA FinalizeSpecial ==
  ASSUME NEW neg \in BOOLEAN, NEW kind \in {"inf", "nan", "snan"}, NEW coef \in Nat,
         NEW exp, NEW s
  PROVE  LET out == decFinalize([neg |-> neg, kind |-> kind, coef |-> coef, exp |-> exp], s)
         IN  /\ Encodable(out) /\ out.status = {}
             /\ out.n.neg = neg /\ out.n.kind = kind
             /\ out.n.coef = IF kind = "inf" THEN 0 ELSE coef % Power(10, DECPMAX - 1)
<1> DEFINE out == decFinalize([neg |-> neg, kind |-> kind, coef |-> coef, exp |-> exp], s)
           df == decFloatFromBCD(neg, kind, coef, exp)
           payload == coef % Power(10, DECPMAX - 1)
<1>1. out = Quietly(df)
  BY DEF decFinalize, LaidOut
<1>2. payload \in 0 .. Power(10, DECPMAX - 1) - 1
  BY FullPower
<1> SUFFICES /\ Encodable(out) /\ out.status = {}
             /\ out.n.neg = neg /\ out.n.kind = kind
             /\ out.n.coef = IF kind = "inf" THEN 0 ELSE payload
  OBVIOUS
<1> HIDE DEF out, payload, df
<1>3. CASE kind = "inf"
  <2> DEFINE b == (payload = 0)
  <2>1. df = Encoding(neg, "inf", 0, 0, b)
    BY <1>3 DEF decFloatFromBCD, payload, df
  <2> HIDE DEF b
  <2>2. b \in BOOLEAN
    BY DEF b
  <2>3. df \in decFloat
    BY <2>1, <2>2 DEF Encoding, InfiniteDatum, decFloat
  <2>4. df.neg = neg /\ df.kind = "inf" /\ df.coef = 0
    BY <2>1 DEF Encoding
  <2> QED BY <1>1, <1>3, <2>3, <2>4, ReturnsFields DEF Encodable
<1>4. CASE kind # "inf"
  <2>1. df = Datum(neg, kind, payload, 0) /\ kind \in {"nan", "snan"}
    BY <1>4 DEF decFloatFromBCD, payload, df
  <2>2. df \in decFloat
    BY <1>2, <2>1, PayloadDatumIs
  <2>3. df.neg = neg /\ df.kind = kind /\ df.coef = payload
    <3>1. Datum(neg, kind, payload, 0).neg = neg /\ Datum(neg, kind, payload, 0).kind = kind
            /\ Datum(neg, kind, payload, 0).coef = payload
      BY DEF Datum, Encoding
    <3> QED BY <2>1, <3>1
  <2> QED BY <1>1, <1>4, <2>2, <2>3, ReturnsFields DEF Encodable
<1> QED BY <1>3, <1>4

\* Any of the two.
LEMMA FinalizeAny ==
  ASSUME NEW neg \in BOOLEAN, NEW kind \in {"fin", "inf", "nan", "snan"}, NEW coef \in Nat,
         NEW exp \in Int, NEW s \in Setting
  PROVE  Encodable(decFinalize([neg |-> neg, kind |-> kind, coef |-> coef, exp |-> exp], s))
<1>1. CASE kind = "fin"
  <2>1. [neg |-> neg, kind |-> kind, coef |-> coef, exp |-> exp] \in BcdNum
    BY <1>1 DEF BcdNum
  <2> QED BY <2>1, FinalizeFinite
<1>2. CASE kind # "fin"
  BY <1>2, FinalizeSpecial
<1> QED BY <1>1, <1>2
-----------------------------------------------------------------------------
(***************************************************************************)
(* Arithmetic.                                                             *)
(***************************************************************************)
LEMMA Invalid == Encodable(decInvalid)
<1>1. NaNDatum \in decFloat
  <2>1. 0 \in 0 .. Power(10, DECPMAX - 1) - 1 /\ FALSE \in BOOLEAN /\ "nan" \in {"nan", "snan"}
    BY FullPower
  <2>2. Datum(FALSE, "nan", 0, 0) \in decFloat
    BY <2>1, PayloadDatumIs, Zenon
  <2> QED BY <2>2 DEF NaNDatum
<1>2. {"Invalid_operation"} \subseteq DEC_Flags
  BY DEF DEC_Flags, DEC_Errors, DEC_NaNs
<1> QED BY <1>1, <1>2, ReturnsFields DEF Encodable, decInvalid

LEMMA Canonical ==
  ASSUME NEW df \in decFloat
  PROVE  decCanonical(df) \in decFloat /\ Encodable(Quietly(decCanonical(df)))
<1> DEFINE c == decCanonical(df)
<1>1. c = Datum(df.neg, df.kind, df.coef, df.exp)
  BY DEF decCanonical
<1> SUFFICES c \in decFloat /\ Encodable(Quietly(c))
  OBVIOUS
<1> HIDE DEF c
<1>2. CASE df.kind = "fin"
  <2>1. c = Datum(df.neg, "fin", df.coef, df.exp)
    BY <1>1, <1>2
  <2>2. /\ df.neg \in BOOLEAN /\ df.coef \in 0 .. Power(10, DECPMAX) - 1
        /\ df.exp \in DECQTINY .. DECQMAX
    BY <1>2, DatumParts
  <2> QED BY <2>1, <2>2, FiniteDatumIs, QuietlyEncodable
<1>3. CASE df.kind = "inf"
  <2>1. df.neg \in BOOLEAN /\ df.coef = 0 /\ df.exp = 0
    BY <1>3, DatumParts
  <2>2. c = InfinityDatum(df.neg)
    BY <1>1, <1>3, <2>1 DEF InfinityDatum
  <2> QED BY <2>1, <2>2, InfiniteDatumIs, QuietlyEncodable
<1>4. CASE df.kind \in {"nan", "snan"}
  <2>1. df.neg \in BOOLEAN /\ df.coef \in 0 .. Power(10, DECPMAX - 1) - 1 /\ df.exp = 0
    BY <1>4, DatumParts
  <2>2. c = Datum(df.neg, df.kind, df.coef, 0)
    BY <1>1, <2>1
  <2> QED BY <1>4, <2>1, <2>2, PayloadDatumIs, QuietlyEncodable
<1> QED BY <1>2, <1>3, <1>4, DatumParts

LEMMA InfinityOf ==
  ASSUME NEW df \in decFloat
  PROVE  decInfinity(df) \in decFloat /\ Encodable(Quietly(decInfinity(df)))
BY DatumParts, InfiniteDatumIs, QuietlyEncodable DEF decInfinity

LEMMA NaNs ==
  ASSUME NEW dfl \in decFloat, NEW dfr \in decFloat, AnyNaN(dfl, dfr)
  PROVE  Encodable(decNaNs(dfl, dfr))
<1>1. ASSUME NEW df \in decFloat, DFISNAN(df) PROVE Encodable(QuietNaN(df))
  <2> DEFINE c == decCanonical(df)
  <2>1. c \in decFloat /\ c.kind = df.kind
    <3>1. c.kind = df.kind
      BY DEF decCanonical, Datum, Encoding
    <3> QED BY <3>1, Canonical
  <2>2. c.kind \in {"nan", "snan"}
    BY <1>1, <2>1 DEF DFISNAN
  <2> HIDE DEF c
  <2>3. [c EXCEPT !.kind = "nan"] \in decFloat
    <3>1. c.neg \in BOOLEAN
      BY <2>1, DatumParts
    <3> QED BY <2>1, <2>2, <3>1, Recoded
  <2>4. (IF df.kind = "snan" THEN {"Invalid_operation"} ELSE {}) \subseteq DEC_Flags
    BY DEF DEC_Flags, DEC_Errors, DEC_NaNs
  <2> QED BY <2>3, <2>4, ReturnsFields DEF Encodable, QuietNaN, c
<1> DEFINE x == IF dfl.kind = "snan" THEN dfl ELSE IF dfr.kind = "snan" THEN dfr
                ELSE IF DFISNAN(dfl) THEN dfl ELSE dfr
<1>2. x \in decFloat /\ DFISNAN(x)
  BY DEF AnyNaN, DFISNAN
<1> HIDE DEF x
<1>3. Encodable(QuietNaN(x))
  BY <1>1, <1>2
<1> QED BY <1>3 DEF decNaNs, x

LEMMA NaN ==
  ASSUME NEW df \in decFloat, DFISNAN(df) PROVE Encodable(decNaN(df))
BY NaNs DEF decNaN, AnyNaN

LEMMA NumIs ==
  ASSUME NEW df \in decFloat
  PROVE  /\ Num(df) \in BcdNum /\ Num(df).coef = df.coef
         /\ Num(df).exp = df.exp /\ Num(df).neg = df.neg
<1>1. df.neg \in BOOLEAN /\ df.coef \in Nat /\ df.exp \in Int
  BY DatumParts, FullPower, Format
<1> QED BY <1>1, BcdNumIs, NumFields DEF Num

LEMMA SumIs ==
  ASSUME NEW a \in BcdNum, NEW b \in BcdNum, NEW s \in Setting
  PROVE  Sum(a, b, s) \in BcdNum
<1>1. /\ a.neg \in BOOLEAN /\ a.coef \in Nat /\ a.exp \in Int
      /\ b.neg \in BOOLEAN /\ b.coef \in Nat /\ b.exp \in Int
  BY DEF BcdNum
<1>2. CASE a.neg = b.neg
  <2>1. Sum(a, b, s) = [a EXCEPT !.coef = a.coef + b.coef] /\ a.coef + b.coef \in Nat
    BY <1>1, <1>2 DEF Sum
  <2> QED BY <2>1 DEF BcdNum
<1>3. CASE a.neg # b.neg /\ a.coef > b.coef
  <2>1. Sum(a, b, s) = [a EXCEPT !.coef = a.coef - b.coef] /\ a.coef - b.coef \in Nat
    BY <1>1, <1>3 DEF Sum
  <2> QED BY <2>1 DEF BcdNum
<1>4. CASE a.neg # b.neg /\ a.coef < b.coef
  <2>1. Sum(a, b, s) = [b EXCEPT !.coef = b.coef - a.coef] /\ b.coef - a.coef \in Nat
    BY <1>1, <1>4 DEF Sum
  <2> QED BY <2>1 DEF BcdNum
<1>5. CASE a.neg # b.neg /\ a.coef = b.coef
  <2> DEFINE neg == (s.round = "FLOOR")
  <2>1. Sum(a, b, s) = bcdnum(neg, 0, a.exp)
    BY <1>1, <1>5 DEF Sum, ZeroSum
  <2>2. neg \in BOOLEAN
    OBVIOUS
  <2> HIDE DEF neg
  <2> QED BY <1>1, <2>1, <2>2, BcdNumIs
<1> QED BY <1>1, <1>2, <1>3, <1>4, <1>5

LEMMA Padded ==
  ASSUME NEW num \in BcdNum, NEW exp \in Int, num.exp >= exp
  PROVE  PaddedTo(num, exp) \in BcdNum /\ PaddedTo(num, exp).exp = exp
<1>1. num.coef \in Nat /\ num.exp \in Int /\ num.exp - exp \in Nat
  BY DEF BcdNum
<1> DEFINE long == num.coef * Power(10, num.exp - exp)
<1>2. long \in Nat
  <2> DEFINE f == Power(10, num.exp - exp)
  <2>1. f \in Nat
    BY <1>1, TenPower
  <2> HIDE DEF f
  <2> QED BY <1>1, <2>1 DEF f
<1>3. PaddedTo(num, exp) = [num EXCEPT !.coef = long, !.exp = exp]
  BY DEF PaddedTo
<1> HIDE DEF long
<1> QED BY <1>2, <1>3 DEF BcdNum

LEMMA Aligned ==
  ASSUME NEW hi \in BcdNum, NEW lo \in BcdNum, NEW s \in Setting, hi.exp >= lo.exp
  PROVE  AlignedSum(hi, lo, s) \in BcdNum
<1>1. lo.exp \in Int
  BY DEF BcdNum
<1> QED BY <1>1, Padded, SumIs DEF AlignedSum

LEMMA AddOrderedSafe ==
  ASSUME NEW hi \in decFloat, NEW lo \in decFloat, hi.kind = "fin", lo.kind = "fin",
         hi.exp >= lo.exp, NEW s \in Setting
  PROVE  Encodable(AddOrdered(hi, lo, s))
<1>1. CASE DFISZERO(hi)
  <2>1. decCanonical(lo) \in decFloat
    BY Canonical
  <2> DEFINE neg == (s.round = "FLOOR")
  <2>2. neg \in BOOLEAN
    OBVIOUS
  <2> HIDE DEF neg
  <2>3. [decCanonical(lo) EXCEPT !.neg = neg] \in decFloat
    BY <2>1, <2>2, Recoded
  <2>4. AddZero(lo, DiffSign(hi, lo), s) \in decFloat
    BY <2>1, <2>3 DEF AddZero, neg
  <2> QED BY <1>1, <2>4, QuietlyEncodable DEF AddOrdered
<1>2. CASE ~DFISZERO(hi)
  <2> DEFINE a == Num(hi)
             b == Num(lo)
             c == Brought(a, b)
  <2>1. a \in BcdNum /\ b \in BcdNum /\ a.exp >= b.exp /\ a.exp \in Int /\ b.exp \in Int
    BY NumIs DEF BcdNum
  <2> HIDE DEF a, b
  <2>2. c \in BcdNum /\ a.exp >= c.exp
    <3>1. CASE a.exp - b.exp > 2 * DECPMAX
      <4> DEFINE one == IF b.coef = 0 THEN 0 ELSE 1
                 e == a.exp - DECPMAX - 1
      <4>1. c = [b EXCEPT !.coef = one, !.exp = e]
        BY <3>1 DEF Brought
      <4>2. one \in Nat /\ e \in Int /\ a.exp >= e
        BY <2>1, Format
      <4> HIDE DEF one, e, c
      <4> QED BY <2>1, <4>1, <4>2 DEF BcdNum
    <3>2. CASE ~(a.exp - b.exp > 2 * DECPMAX)
      BY <2>1, <3>2 DEF Brought
    <3> QED BY <3>1, <3>2
  <2> HIDE DEF c
  <2>3. AlignedSum(a, c, s) \in BcdNum
    BY <2>1, <2>2, Aligned
  <2>4. AddOrdered(hi, lo, s) = decFinalize(AlignedSum(a, c, s), s)
    BY <1>2 DEF AddOrdered, a, b, c
  <2> QED BY <2>3, <2>4, FinalizeFinite
<1> QED BY <1>1, <1>2

LEMMA AddSafe ==
  ASSUME NEW dfl \in decFloat, NEW dfr \in decFloat, NEW s \in Setting
  PROVE  Encodable(decFloatAdd(dfl, dfr, s))
<1>1. CASE AnySpecial(dfl, dfr)
  <2>1. Encodable(AddSpecial(dfl, dfr))
    BY NaNs, Invalid, InfinityOf DEF AddSpecial
  <2> QED BY <1>1, <2>1 DEF decFloatAdd
<1>2. CASE ~AnySpecial(dfl, dfr)
  <2>1. dfl.kind = "fin" /\ dfr.kind = "fin"
    BY <1>2 DEF AnySpecial, DFISSPECIAL
  <2>2. CASE SimpleSum(dfl, dfr)
    <3> DEFINE h == Power(10, DECPMAX - 1)
               x == dfl.coef
               y == dfr.coef
               a == x \div h
               b == y \div h
    <3>1. h \in Nat \ {0} /\ Power(10, DECPMAX) = 10 * h /\ x \in Nat /\ y \in Nat
      BY FullPower, DatumParts
    <3>2. a + b <= 8
      BY <2>2 DEF SimpleSum, MSD
    <3>3. x + y \in 0 .. Power(10, DECPMAX) - 1
      <4> HIDE DEF h, x, y
      <4> DEFINE rx == x % h
                 ry == y % h
      <4>1. x = a * h + rx /\ rx \in 0 .. h - 1 /\ a \in Int
        BY <3>1
      <4>3. y = b * h + ry /\ ry \in 0 .. h - 1 /\ b \in Int
        BY <3>1
      <4> HIDE DEF a, b, rx, ry
      <4>2. a * h + b * h = (a + b) * h /\ (a + b) * h <= 8 * h
        BY <3>1, <3>2, <4>1, <4>3
      <4> QED BY <3>1, <4>1, <4>3, <4>2
    <3>4. dfl.neg \in BOOLEAN /\ dfl.exp \in DECQTINY .. DECQMAX
      BY DatumParts
    <3>5. Datum(dfl.neg, "fin", x + y, dfl.exp) \in decFloat
      <4> HIDE DEF x, y
      <4> QED BY <3>3, <3>4, FiniteDatumIs
    <3>6. Encodable(Quietly(Datum(dfl.neg, "fin", x + y, dfl.exp)))
      BY <3>5, QuietlyEncodable
    <3> QED BY <1>2, <2>2, <3>6 DEF decFloatAdd
  <2>3. CASE ~SimpleSum(dfl, dfr)
    <3>1. dfl.exp \in Int /\ dfr.exp \in Int
      BY DatumParts, Format
    <3>2. CASE dfl.exp >= dfr.exp
      BY <1>2, <2>1, <2>3, <3>2, AddOrderedSafe DEF decFloatAdd
    <3>3. CASE ~(dfl.exp >= dfr.exp)
      <4>1. dfr.exp >= dfl.exp
        BY <3>1, <3>3
      <4> QED BY <1>2, <2>1, <2>3, <3>3, <4>1, AddOrderedSafe DEF decFloatAdd
    <3> QED BY <3>2, <3>3
  <2> QED BY <2>2, <2>3
<1> QED BY <1>1, <1>2

LEMMA SubtractSafe ==
  ASSUME NEW dfl \in decFloat, NEW dfr \in decFloat, NEW s \in Setting
  PROVE  Encodable(decFloatSubtract(dfl, dfr, s))
<1> DEFINE neg == ~dfr.neg
           x == IF DFISNAN(dfr) THEN dfr ELSE [dfr EXCEPT !.neg = neg]
<1>1. neg \in BOOLEAN
  OBVIOUS
<1>2. decFloatSubtract(dfl, dfr, s) = decFloatAdd(dfl, x, s)
  BY DEF decFloatSubtract
<1> HIDE DEF neg
<1>3. x \in decFloat
  BY <1>1, Recoded
<1> HIDE DEF x
<1> QED BY <1>2, <1>3, AddSafe

LEMMA ProductIs ==
  ASSUME NEW dfl \in decFloat, NEW dfr \in decFloat
  PROVE  decFiniteMultiply(dfl, dfr) \in BcdNum
<1> DEFINE neg == DiffSign(dfl, dfr)
           c == dfl.coef * dfr.coef
           e == dfl.exp + dfr.exp
<1>1. neg \in BOOLEAN
  BY DEF DiffSign
<1>2. dfl.coef \in Nat /\ dfr.coef \in Nat /\ dfl.exp \in Int /\ dfr.exp \in Int
  BY DatumParts, Format, FullPower
<1>3. c \in Nat /\ e \in Int
  BY <1>2
<1> HIDE DEF neg, c, e
<1>4. bcdnum(neg, c, e) \in BcdNum
  BY <1>1, <1>3, BcdNumIs
<1> QED BY <1>4 DEF decFiniteMultiply, neg, c, e

LEMMA SignsDiffer ==
  ASSUME NEW dfl \in decFloat, NEW dfr \in decFloat
  PROVE  /\ DiffSign(dfl, dfr) \in BOOLEAN
         /\ Encodable(Quietly(InfinityDatum(DiffSign(dfl, dfr))))
<1>1. DiffSign(dfl, dfr) \in BOOLEAN
  BY DEF DiffSign
<1> QED BY <1>1, InfiniteDatumIs, QuietlyEncodable

LEMMA MultiplySafe ==
  ASSUME NEW dfl \in decFloat, NEW dfr \in decFloat, NEW s \in Setting
  PROVE  Encodable(decFloatMultiply(dfl, dfr, s))
BY NaNs, Invalid, SignsDiffer, ProductIs, FinalizeFinite DEF decFloatMultiply

LEMMA Lowered ==
  ASSUME NEW hi \in BcdNum, NEW lo \in BcdNum, hi.exp >= lo.exp
  PROVE  Reduced(hi, lo) \in BcdNum /\ hi.exp >= Reduced(hi, lo).exp
<1> DEFINE n == CoefLength(hi.coef)
           m == CoefLength(lo.coef)
           f == FirstDigit(lo.coef)
           e == ReducedExp(hi)
           far == n + hi.exp - lo.exp - m > DECPMAX + 2
<1>1. hi.coef \in Nat /\ lo.coef \in Nat /\ hi.exp \in Int /\ lo.exp \in Int
  BY DEF BcdNum
<1>2. n \in Nat \ {0} /\ m \in Nat \ {0}
  BY <1>1, LengthBounds
<1>3. f \in Nat
  <2> DEFINE p == Power(10, m - 1)
  <2>1. p \in Nat \ {0}
    BY <1>2, TenPower
  <2>2. f = lo.coef \div p
    BY DEF FirstDigit
  <2> HIDE DEF p, f
  <2> QED BY <1>1, <2>1, <2>2
<1>4. e \in Int /\ hi.exp >= e
  <2> HIDE DEF n
  <2>1. e = (IF hi.exp <= hi.exp + n - DECPMAX THEN hi.exp ELSE hi.exp + n - DECPMAX) - 3
    BY DEF ReducedExp, Least, n
  <2> HIDE DEF e
  <2> QED BY <1>1, <1>2, <2>1, Format
<1>5. Reduced(hi, lo) = IF far THEN [lo EXCEPT !.coef = f, !.exp = e] ELSE lo
  BY DEF Reduced
<1> HIDE DEF f, e, far
<1>6. [lo EXCEPT !.coef = f, !.exp = e] \in BcdNum /\ [lo EXCEPT !.coef = f, !.exp = e].exp = e
  BY <1>3, <1>4 DEF BcdNum
<1> QED BY <1>4, <1>5, <1>6

LEMMA FusedIs ==
  ASSUME NEW hi \in BcdNum, NEW lo \in BcdNum, hi.exp >= lo.exp, NEW s \in Setting
  PROVE  Fused(hi, lo, s) \in BcdNum
<1>1. CASE hi.coef = 0
  <2> DEFINE neg == (s.round = "FLOOR")
  <2>1. neg \in BOOLEAN /\ lo.exp \in Int
    BY DEF BcdNum
  <2> HIDE DEF neg
  <2>2. bcdnum(neg, 0, lo.exp) \in BcdNum
    BY <2>1, BcdNumIs
  <2>3. FuseZero(lo, DiffSign(hi, lo), s) \in BcdNum
    BY <2>2 DEF FuseZero, ZeroSum, neg
  <2> QED BY <1>1, <2>3 DEF Fused
<1>2. CASE hi.coef # 0
  <2> DEFINE x == IF hi.exp = lo.exp THEN lo ELSE Reduced(hi, lo)
  <2>1. x \in BcdNum /\ hi.exp >= x.exp
    BY Lowered
  <2>2. Fused(hi, lo, s) = AlignedSum(hi, x, s)
    BY <1>2 DEF Fused
  <2> HIDE DEF x
  <2> QED BY <2>1, <2>2, Aligned
<1> QED BY <1>1, <1>2

LEMMA FMASafe ==
  ASSUME NEW dfl \in decFloat, NEW dfr \in decFloat, NEW dff \in decFloat, NEW s \in Setting
  PROVE  Encodable(decFloatFMA(dfl, dfr, dff, s))
<1>1. CASE AnyNaN(dfl, dfr) \/ DFISNAN(dff)
  <2>1. Encodable(FMANaN(dfl, dfr, dff))
    <3>1. CASE AnyNaN(dfl, dfr)
      <4>1. dff.kind = "snan" => Encodable(decNaN(dff))
        BY NaN DEF DFISNAN
      <4> QED BY <3>1, <4>1, NaNs DEF FMANaN
    <3>2. CASE ~AnyNaN(dfl, dfr)
      <4>1. ~(dfl.kind = "snan" \/ dfr.kind = "snan") /\ Encodable(decNaN(dff))
        BY <1>1, <3>2, NaN DEF AnyNaN, DFISNAN
      <4> QED BY <3>2, <4>1 DEF FMANaN
    <3> QED BY <3>1, <3>2
  <2> QED BY <1>1, <2>1 DEF decFloatFMA
<1>2. CASE ~(AnyNaN(dfl, dfr) \/ DFISNAN(dff)) /\ (AnySpecial(dfl, dfr) \/ DFISSPECIAL(dff))
  <2>1. Encodable(FMAInfinite(dfl, dfr, dff))
    BY Invalid, SignsDiffer, InfinityOf DEF FMAInfinite
  <2> QED BY <1>2, <2>1 DEF decFloatFMA
<1>3. CASE ~(AnyNaN(dfl, dfr) \/ DFISNAN(dff)) /\ ~(AnySpecial(dfl, dfr) \/ DFISSPECIAL(dff))
  <2> DEFINE a == decFiniteMultiply(dfl, dfr)
             b == Num(dff)
  <2>1. a \in BcdNum /\ b \in BcdNum
    BY ProductIs, NumIs
  <2> HIDE DEF a, b
  <2>2. a.exp \in Int /\ b.exp \in Int
    BY <2>1 DEF BcdNum
  <2>3. FMAFinite(a, b, s) \in BcdNum
    <3>1. CASE a.exp >= b.exp
      BY <2>1, <3>1, FusedIs DEF FMAFinite
    <3>2. CASE ~(a.exp >= b.exp)
      <4>1. b.exp >= a.exp
        BY <2>2, <3>2
      <4> QED BY <2>1, <3>2, <4>1, FusedIs DEF FMAFinite
    <3> QED BY <3>1, <3>2
  <2>4. Encodable(decFinalize(FMAFinite(a, b, s), s))
    BY <2>3, FinalizeFinite
  <2> QED BY <1>3, <2>4 DEF decFloatFMA, a, b
<1> QED BY <1>1, <1>2, <1>3
-----------------------------------------------------------------------------
(***************************************************************************)
(* Division.                                                               *)
(***************************************************************************)
\* Few more units than digits are ever needed of a quotient.
LEMMA UnitsSuffice ==
  ASSUME NEW lc \in Nat \ {0}, NEW rc \in 1 .. Power(10, DECPMAX) - 1
  PROVE  UnitsBeyond(lc, rc) \in Nat /\ Enough(UnitsBeyond(lc, rc), lc, rc)
<1> DEFINE top == 2 * DECPMAX + 2
           T == {k \in Nat : k <= top /\ Enough(k, lc, rc)}
<1>1. top \in T
  <2> DEFINE x == Extra(top)
             b == Power(10, DECPMAX)
             f == Power(10, x)
             g == Power(10, DECPMAX + 2)
             q == (lc * f) \div rc
  <2>1. top \in Nat /\ top = DECPMAX + (DECPMAX + 2)
    BY Format
  <2>2. x \in Nat /\ x >= top
    <3> HIDE DEF top
    <3>1. DIVUNIT \in Nat /\ DIVUNIT >= 1
      BY DivUnitAssumption
    <3>2. top * DIVUNIT \in Nat /\ top * DIVUNIT >= top
      BY <2>1, <3>1
    <3> QED BY <3>2 DEF Extra
  <2>3. b \in Nat \ {0} /\ g \in Nat \ {0} /\ f \in Nat \ {0}
    BY <2>2, TenPower, Format
  <2>4. b * g <= f
    <3>1. Power(10, top) <= f
      <4> HIDE DEF x, top
      <4> QED BY <2>1, <2>2, PowerMono
    <3>2. Power(10, DECPMAX + (DECPMAX + 2)) = b * g
      <4> DEFINE m == DECPMAX + 2
      <4>1. m \in Nat /\ DECPMAX \in Nat
        BY Format
      <4> HIDE DEF m
      <4>2. Power(10, DECPMAX + m) = Power(10, DECPMAX) * Power(10, m)
        BY <4>1, PowerSum
      <4> QED BY <4>2 DEF m
    <3> QED BY <2>1, <3>1, <3>2
  <2> HIDE DEF f
  <2>5. g <= q /\ q \in Nat
    <3> HIDE DEF b, g
    <3>1. rc \in Nat \ {0} /\ rc <= b
      BY <2>3 DEF b
    <3>2. rc * g <= b * g
      BY <2>3, <3>1
    <3>3. f <= lc * f /\ lc * f \in Nat
      BY <2>3
    <3> DEFINE y == lc * f
    <3> HIDE DEF y
    <3>4. rc * g <= y /\ y \in Nat /\ rc * g \in Nat
      <4>1. b * g \in Nat /\ rc * g \in Nat
        BY <2>3, <3>1
      <4> QED BY <2>3, <2>4, <3>2, <3>3, <4>1 DEF y
    <3>5. q = y \div rc
      BY DEF y
    <3> HIDE DEF q
    <3>6. q \in Nat /\ y < (q + 1) * rc
      <4> DEFINE r == y % rc
      <4>1. y = q * rc + r /\ r \in 0 .. rc - 1 /\ q \in Nat
        BY <3>1, <3>4, <3>5
      <4> HIDE DEF r
      <4>2. (q + 1) * rc = q * rc + rc
        BY <3>1, <4>1
      <4> QED BY <3>1, <4>1, <4>2
    <3>7. ~(q + 1 <= g)
      <4> SUFFICES ASSUME q + 1 <= g PROVE FALSE
        OBVIOUS
      <4>1. (q + 1) * rc <= g * rc /\ g * rc = rc * g
        BY <2>3, <3>1, <3>6
      <4>2. (q + 1) * rc \in Nat
        BY <3>1, <3>6
      <4> QED BY <3>4, <3>6, <4>1, <4>2
    <3> QED BY <2>3, <3>6, <3>7
  <2>6. CoefLength(q) > DECPMAX + 1
    <3> HIDE DEF q
    <3>1. DECPMAX + 2 \in Nat /\ 10 \in Nat \ {0, 1}
      BY Format
    <3>2. Places(q, 10) > DECPMAX + 2
      BY <2>5, <3>1, PlacesAtLeast
    <3>3. CoefLength(q) \in Nat /\ CoefLength(q) = Places(q, 10)
      BY <2>5, LengthBounds
    <3> QED BY <3>2, <3>3, Format
  <2> HIDE DEF top
  <2>7. Enough(top, lc, rc)
    BY <2>6 DEF Enough, f
  <2> QED BY <2>1, <2>7
<1> HIDE DEF top
<1>2. PICK k \in T : \A y \in T : k <= y
  <2>1. T \subseteq Nat /\ T # {}
    BY <1>1
  <2> HIDE DEF T
  <2> QED BY <2>1, LeastMember
<1>3. k \in 0 .. top /\ Enough(k, lc, rc) /\ \A j \in 0 .. k - 1 : ~Enough(j, lc, rc)
  <2>1. top \in Nat
    BY <1>1
  <2>2. \A j \in 0 .. k - 1 : j \in Nat /\ j <= top /\ ~(k <= j)
    BY <1>2, <2>1
  <2> QED BY <1>2, <2>1, <2>2
<1> DEFINE P(i) == Enough(i, lc, rc) /\ \A j \in 0 .. i - 1 : ~Enough(j, lc, rc)
<1>4. UnitsBeyond(lc, rc) = CHOOSE i \in 0 .. top : P(i)
  BY DEF UnitsBeyond, top
<1>5. k \in 0 .. top /\ P(k)
  BY <1>3
<1>6. \A i : P(i) => Enough(i, lc, rc)
  OBVIOUS
<1> HIDE DEF P
<1>7. UnitsBeyond(lc, rc) \in 0 .. top /\ P(UnitsBeyond(lc, rc))
  BY <1>4, <1>5
<1> QED BY <1>1, <1>6, <1>7

\* The trailing zeros of a number can be counted.
LEMMA TrailingZerosIs ==
  ASSUME NEW q \in Nat \ {0}
  PROVE  /\ TrailingZeros(q) \in 0 .. CoefLength(q) - 1
         /\ q % Power(10, TrailingZeros(q)) = 0
         /\ (q \div Power(10, TrailingZeros(q))) % 10 # 0
<1> DEFINE n == CoefLength(q)
           Fine(z) == q % Power(10, z) = 0
           T == {y \in Nat : y <= n - 1 /\ Fine(n - 1 - y)}
<1>1. n \in Nat \ {0} /\ q < Power(10, n)
  BY LengthBounds
<1>2. Fine(0)
  <2>1. q % 1 = 0
    OBVIOUS
  <2> QED BY <2>1, PowerZero
<1>3. PICK y \in T : \A x \in T : y <= x
  <2>1. n - 1 \in T
    <3> HIDE DEF n, Fine
    <3>1. n - 1 \in Nat /\ n - 1 - (n - 1) = 0
      BY <1>1
    <3> QED BY <1>2, <3>1
  <2>2. T \subseteq Nat /\ T # {}
    BY <2>1
  <2> HIDE DEF T
  <2> QED BY <2>2, LeastMember
<1> DEFINE z == n - 1 - y
<1>4. z \in 0 .. n - 1 /\ Fine(z)
  <2> HIDE DEF n, Fine
  <2> QED BY <1>1, <1>3
<1>5. (q \div Power(10, z)) % 10 # 0
  <2> SUFFICES ASSUME (q \div Power(10, z)) % 10 = 0 PROVE FALSE
    OBVIOUS
  <2> DEFINE f == Power(10, z)
             x == q \div f
             m == x \div 10
  <2>1. f \in Nat \ {0} /\ Power(10, z + 1) = 10 * f /\ z \in Nat
    BY <1>4, TenPower, PowerNext
  <2>2. q % f = 0
    BY <1>4
  <2>3. q = x * f /\ x \in Nat
    <3> HIDE DEF f
    <3> QED BY <2>1, <2>2
  <2>4. x = m * 10 /\ m \in Nat
    <3> HIDE DEF x
    <3>1. x % 10 = 0
      BY DEF x
    <3>2. x = (x \div 10) * 10 + (x % 10) /\ x \div 10 \in Nat
      BY <2>3
    <3> QED BY <3>1, <3>2
  <2>5. q = m * (10 * f)
    <3> HIDE DEF f, x, m
    <3> QED BY <2>1, <2>3, <2>4
  <2>6. q % (10 * f) = 0
    <3> DEFINE g == 10 * f
               r == 0
    <3>1. g \in Nat \ {0} /\ r \in 0 .. g - 1
      BY <2>1
    <3>2. q = m * g + r
      <4> HIDE DEF m, f
      <4> QED BY <2>1, <2>4, <2>5
    <3>4. m \in Int
      BY <2>4
    <3> HIDE DEF g, m, r, x
    <3>3. q \div g = m /\ q % g = r
      BY <3>1, <3>2, <3>4, DivUnique
    <3> QED BY <3>3 DEF g, r
  <2>7. Fine(z + 1)
    BY <2>1, <2>6
  <2>8. m # 0
    <3> HIDE DEF f, x, m
    <3> QED BY <2>1, <2>5
  <2>9. q >= Power(10, z + 1)
    <3> HIDE DEF f, m
    <3>1. m >= 1
      BY <2>4, <2>8
    <3>2. m * (10 * f) >= 10 * f
      BY <2>1, <2>4, <3>1
    <3> QED BY <2>1, <2>5, <3>2
  <2>10. z + 1 <= n - 1
    <3>1. Places(q, 10) > z + 1
      <4>1. z + 1 \in Nat
        BY <2>1
      <4> HIDE DEF z
      <4> QED BY <4>1, <2>9, PlacesAtLeast
    <3>2. n = Places(q, 10)
      BY LengthBounds
    <3> HIDE DEF n, z
    <3> QED BY <3>1, <3>2, <2>1, <1>1
  <2>11. y - 1 \in Nat /\ n - 1 - (y - 1) = z + 1 /\ y \in Nat
    <3>1. y \in Nat
      BY <1>3
    <3> HIDE DEF n
    <3> QED BY <1>1, <2>10, <3>1
  <2>12. y - 1 \in T
    <3> HIDE DEF n, Fine
    <3>1. y <= n - 1
      BY <1>3
    <3> QED BY <1>1, <2>7, <2>11, <3>1
  <2>13. y <= y - 1
    <3> HIDE DEF T
    <3> QED BY <1>3, <2>12
  <2> QED BY <2>11, <2>13
<1> DEFINE P(i) == Fine(i) /\ (q \div Power(10, i)) % 10 # 0
<1>6. TrailingZeros(q) = CHOOSE i \in 0 .. n - 1 : P(i)
  BY DEF TrailingZeros
<1>7. z \in 0 .. n - 1 /\ P(z)
  BY <1>4, <1>5
<1>8. \A i : P(i) => Fine(i) /\ (q \div Power(10, i)) % 10 # 0
  OBVIOUS
<1> HIDE DEF P, Fine, z, n
<1>9. TrailingZeros(q) \in 0 .. n - 1 /\ P(TrailingZeros(q))
  BY <1>6, <1>7
<1> QED BY <1>8, <1>9 DEF n, Fine

LEMMA NoZerosIs ==
  ASSUME NEW num \in BcdNum, num.coef # 0
  PROVE  WithoutZeros(num, TrailingZeros(num.coef)) \in BcdNum
<1> DEFINE z == TrailingZeros(num.coef)
           f == Power(10, z)
           c == num.coef \div f
           e == num.exp + z
<1>1. num.coef \in Nat \ {0} /\ num.exp \in Int
  BY DEF BcdNum
<1>2. z \in Nat
  <2>1. z \in 0 .. CoefLength(num.coef) - 1
    BY <1>1, TrailingZerosIs
  <2> HIDE DEF z
  <2> QED BY <2>1
<1> HIDE DEF z
<1>3. f \in Nat \ {0}
  BY <1>2, TenPower
<1>4. WithoutZeros(num, z) = [num EXCEPT !.coef = c, !.exp = e]
  BY DEF WithoutZeros
<1> HIDE DEF f
<1>5. c \in Nat /\ e \in Int
  BY <1>1, <1>2, <1>3
<1> HIDE DEF c, e
<1>6. WithoutZeros(num, z) \in BcdNum
  BY <1>4, <1>5 DEF BcdNum
<1> QED BY <1>6 DEF z

LEMMA QuotientIs ==
  ASSUME NEW dfl \in decFloat, NEW dfr \in decFloat, dfl.coef # 0, dfr.coef # 0
  PROVE  Quotient(dfl, dfr) \in BcdNum
<1> DEFINE extra == Extra(UnitsBeyond(dfl.coef, dfr.coef))
           lc == dfl.coef * Power(10, extra)
           rc == dfr.coef
           neg == DiffSign(dfl, dfr)
           exp == dfl.exp - dfr.exp
           q == lc \div rc
           rem == lc % rc
           sticky == StickyQuotient(q, rem)
           num == bcdnum(neg, sticky, exp - extra)
<1>1. /\ dfl.coef \in Nat \ {0} /\ rc \in 1 .. Power(10, DECPMAX) - 1 /\ rc \in Nat \ {0}
      /\ exp \in Int /\ neg \in BOOLEAN
  <2>1. dfl.coef \in 0 .. Power(10, DECPMAX) - 1 /\ dfr.coef \in 0 .. Power(10, DECPMAX) - 1
    BY DatumParts
  <2>2. dfl.exp \in Int /\ dfr.exp \in Int
    BY DatumParts, Format
  <2>3. neg \in BOOLEAN
    BY SignsDiffer
  <2> QED BY <2>1, <2>2, <2>3, FullPower
<1>2. extra \in Nat
  <2> DEFINE k == UnitsBeyond(dfl.coef, dfr.coef)
  <2>1. k \in Nat
    BY <1>1, UnitsSuffice
  <2> HIDE DEF k
  <2>2. k * DIVUNIT \in Nat
    BY <2>1, DivUnitAssumption
  <2> QED BY <2>2 DEF Extra, k
<1> HIDE DEF extra
<1>3. lc \in Nat \ {0}
  <2> DEFINE f == Power(10, extra)
             c == dfl.coef
  <2>1. f \in Nat \ {0} /\ c \in Nat \ {0}
    BY <1>1, <1>2, TenPower
  <2> HIDE DEF f, c
  <2>2. c * f \in Nat \ {0}
    BY <2>1
  <2> QED BY <2>2 DEF f, c
<1> HIDE DEF lc, rc, neg, exp
<1>4. q \in Nat /\ rem \in Nat /\ (rem = 0 => q # 0)
  <2>1. lc = q * rc + rem /\ q \in Nat /\ rem \in Nat
    BY <1>1, <1>3
  <2> HIDE DEF q, rem
  <2> QED BY <1>1, <1>3, <2>1
<1> HIDE DEF q, rem
<1>5. sticky \in Nat /\ (rem = 0 => sticky \in Nat \ {0})
  BY <1>4 DEF StickyQuotient
<1> HIDE DEF sticky
<1>6. num \in BcdNum /\ num.coef = sticky /\ num.exp \in Int
  <2>1. exp - extra \in Int
    BY <1>1, <1>2
  <2> QED BY <1>1, <1>5, <2>1, BcdNumIs, NumFields
<1> HIDE DEF num
<1>7. rem = 0 => WithoutZeros(num, TrailingZeros(num.coef)) \in BcdNum
  BY <1>5, <1>6, NoZerosIs
<1>8. Tidied(num, rem, extra) \in BcdNum
  BY <1>6, <1>7 DEF Tidied
<1>9. Quotient(dfl, dfr) = Tidied(num, rem, extra)
  BY DEF Quotient, QuotientTo, QuotientOf, num, rem, sticky, q, lc, rc, neg, exp, extra
<1> QED BY <1>8, <1>9

LEMMA KeptIs ==
  ASSUME NEW coef \in Nat, NEW drop \in Nat \ {0}
  PROVE  /\ Kept(coef, drop) \in Nat
         /\ coef < Power(10, DECPMAX) => Kept(coef, drop) < Power(10, DECPMAX - 1)
<1> DEFINE f == Power(10, drop)
           h == Power(10, DECPMAX - 1)
           q == coef \div f
<1>1. f \in Nat /\ f >= 10 /\ h \in Nat \ {0} /\ Power(10, DECPMAX) = 10 * h
  <2>1. Power(10, 1) <= Power(10, drop)
    BY PowerMono
  <2>2. Power(10, 1) = 10
    BY PowerOne
  <2>3. Power(10, drop) \in Nat
    BY TenPower
  <2> QED BY <2>1, <2>2, <2>3, FullPower
<1> HIDE DEF f, h
<1>2. q \in Nat /\ q * f <= coef
  BY <1>1
<1>3. Kept(coef, drop) \in {0, q}
  BY DEF Kept, f
<1> HIDE DEF q
<1>4. coef < 10 * h => q < h
  <2> SUFFICES ASSUME coef < 10 * h, ~(q < h) PROVE FALSE
    BY <1>1, <1>2
  <2>1. q * f >= h * 10
    <3>1. q >= h
      BY <1>1, <1>2
    <3>2. q * f >= q * 10
      BY <1>1, <1>2
    <3>3. q * f \in Nat
      BY <1>1, <1>2
    <3> QED BY <1>1, <1>2, <3>1, <3>2, <3>3
  <2>2. q * f \in Nat
    BY <1>1, <1>2
  <2> QED BY <1>1, <1>2, <2>1, <2>2
<1>5. Kept(coef, drop) \in Nat /\ (coef < 10 * h => Kept(coef, drop) < h)
  BY <1>1, <1>2, <1>3, <1>4
<1> QED BY <1>1, <1>5 DEF h

LEMMA IntegerPartIs ==
  ASSUME NEW op, NEW num \in BcdNum
  PROVE  IntegerPart(op, num) \in BcdNum
<1>1. num.coef \in Nat /\ num.exp \in Int
  BY DEF BcdNum
<1>2. CASE num.exp >= 0
  <2>1. PaddedTo(num, 0) \in BcdNum
    BY <1>2, Padded
  <2> QED BY <1>1, <1>2, <2>1 DEF IntegerPart
<1>3. CASE num.exp < 0
  <2> DEFINE k == Kept(num.coef, -num.exp)
             t == Truncated(num, -num.exp)
             up == NearestInteger(t, Reround(num.coef, -num.exp))
  <2>1. k \in Nat
    <3>1. -num.exp \in Nat \ {0}
      BY <1>1, <1>3
    <3> QED BY <1>1, <3>1, KeptIs
  <2> DEFINE e == 0
  <2>2. t = [num EXCEPT !.coef = k, !.exp = e] /\ e \in Int
    BY DEF Truncated
  <2> HIDE DEF k, t, e
  <2>3. t \in BcdNum
    BY <2>1, <2>2 DEF BcdNum
  <2>7. t.coef \in Nat
    BY <2>3 DEF BcdNum
  <2>4. [t EXCEPT !.coef = t.coef + 1] \in BcdNum
    BY <2>3, <2>7 DEF BcdNum
  <2>5. up \in BcdNum
    BY <2>3, <2>4 DEF NearestInteger
  <2>6. IntegerPart(op, num) \in {up, t}
    <3> HIDE DEF up
    <3> QED BY <1>1, <1>3 DEF IntegerPart, up, t
  <2> QED BY <2>3, <2>5, <2>6
<1> QED BY <1>1, <1>2, <1>3

LEMMA RemainderSafe ==
  ASSUME NEW q \in decFloat, NEW dfl \in decFloat, NEW dfr \in decFloat, NEW s \in Setting
  PROVE  Encodable(RemainderOf(q, dfl, dfr, s))
<1> DEFINE neg == ~q.neg
           x == [q EXCEPT !.neg = neg]
           rem == decFloatFMA(x, dfr, dfl, s)
           y == [rem.n EXCEPT !.neg = dfl.neg]
<1>1. x \in decFloat
  <2>1. neg \in BOOLEAN
    OBVIOUS
  <2> HIDE DEF neg
  <2> QED BY <2>1, Recoded
<1>2. RemainderOf(q, dfl, dfr, s) = IF DFISZERO(rem.n) THEN Returns(y, rem.status) ELSE rem
  BY DEF RemainderOf
<1> HIDE DEF x
<1>3. Encodable(rem)
  BY <1>1, FMASafe
<1> HIDE DEF rem
<1>4. y \in decFloat
  <2>1. dfl.neg \in BOOLEAN /\ rem.n \in decFloat
    BY <1>3, DatumParts DEF Encodable
  <2> QED BY <2>1, Recoded
<1> HIDE DEF y
<1> QED BY <1>2, <1>3, <1>4, ReturnsFields DEF Encodable

LEMMA ZeroDatum ==
  ASSUME NEW neg \in BOOLEAN, NEW exp \in DECQTINY .. DECQMAX
  PROVE  SignedZero(neg, exp) \in decFloat /\ Encodable(Quietly(SignedZero(neg, exp)))
<1>1. 0 \in 0 .. Power(10, DECPMAX) - 1
  BY FullPower
<1>2. Datum(neg, "fin", 0, exp) \in decFloat
  BY <1>1, FiniteDatumIs
<1> QED BY <1>2, QuietlyEncodable DEF SignedZero

LEMMA DivideSafe ==
  ASSUME NEW op, NEW dfl \in decFloat, NEW dfr \in decFloat, NEW s \in Setting
  PROVE  Encodable(decDivide(op, dfl, dfr, s))
<1> DEFINE neg == DiffSign(dfl, dfr)
<1>0. neg \in BOOLEAN /\ dfl.neg \in BOOLEAN
  BY SignsDiffer, DatumParts
<1>8. /\ dfl.exp \in Int /\ dfr.exp \in Int
      /\ 0 \in DECQTINY .. DECQMAX /\ DECQTINY \in DECQTINY .. DECQMAX
  BY DatumParts, Format
<1>9. ASSUME NEW flag \in {"Division_undefined", "Division_impossible", "Division_by_zero"}
      PROVE  /\ Encodable(Returns(NaNDatum, {flag}))
             /\ Encodable(Returns(InfinityDatum(neg), {flag}))
  <2>1. {flag} \subseteq DEC_Flags
    BY DEF DEC_Flags, DEC_Errors, DEC_NaNs
  <2>2. NaNDatum \in decFloat
    BY Invalid, ReturnsFields DEF Encodable, decInvalid
  <2>3. InfinityDatum(neg) \in decFloat
    BY <1>0, InfiniteDatumIs
  <2> QED BY <2>1, <2>2, <2>3, ReturnsFields DEF Encodable
<1> HIDE DEF neg
<1>1. Encodable(DivideInfinity(op, dfl, dfr))
  BY Invalid, SignsDiffer DEF DivideInfinity
<1>2. Encodable(DivideByInfinity(op, dfl, dfr))
  <2>1. /\ Encodable(Quietly(decCanonical(dfl)))
        /\ Encodable(Quietly(SignedZero(neg, 0))) /\ Encodable(Quietly(SignedZero(neg, DECQTINY)))
    BY <1>0, <1>8, Canonical, ZeroDatum
  <2> QED BY <2>1 DEF DivideByInfinity, neg
<1>3. Encodable(DivideByZero(op, dfl, dfr))
  BY <1>9, Invalid DEF DivideByZero, neg
<1>4. Encodable(DivideZero(op, dfl, dfr, s))
  <2>1. Encodable(Quietly(SignedZero(neg, 0)))
    BY <1>0, <1>8, ZeroDatum
  <2>2. Least(dfl.exp, dfr.exp) \in Int /\ dfl.exp - dfr.exp \in Int
    BY <1>8 DEF Least
  <2>3. /\ bcdnum(dfl.neg, 0, Least(dfl.exp, dfr.exp)) \in BcdNum
        /\ bcdnum(neg, 0, dfl.exp - dfr.exp) \in BcdNum
    BY <1>0, <2>2, BcdNumIs
  <2>4. /\ Encodable(decFinalize(bcdnum(dfl.neg, 0, Least(dfl.exp, dfr.exp)), s))
        /\ Encodable(decFinalize(bcdnum(neg, 0, dfl.exp - dfr.exp), s))
    BY <2>3, FinalizeFinite
  <2> QED BY <2>1, <2>4 DEF DivideZero, neg
<1>5. ASSUME NEW num \in BcdNum PROVE Encodable(FinishDivide(op, num, dfl, dfr, s))
  <2> DEFINE whole == decFinalize(IntegerPart(op, num), s)
  <2>1. Encodable(whole) /\ Encodable(decFinalize(num, s))
    BY IntegerPartIs, FinalizeFinite
  <2> HIDE DEF whole
  <2>2. Encodable(RemainderOf(whole.n, dfl, dfr, s))
    BY <2>1, RemainderSafe DEF Encodable
  <2> QED BY <1>9, <2>1, <2>2 DEF FinishDivide, whole
<1>6. CASE AnyNaN(dfl, dfr) \/ DFISINF(dfl) \/ DFISINF(dfr) \/ DFISZERO(dfr) \/ DFISZERO(dfl)
  BY <1>1, <1>2, <1>3, <1>4, <1>6, NaNs DEF decDivide
<1>7. CASE ~(AnyNaN(dfl, dfr) \/ DFISINF(dfl) \/ DFISINF(dfr) \/ DFISZERO(dfr) \/ DFISZERO(dfl))
  <2>1. dfl.coef # 0 /\ dfr.coef # 0
    BY <1>7, DatumParts DEF AnyNaN, DFISNAN, DFISINF, DFISZERO
  <2>2. Quotient(dfl, dfr) \in BcdNum
    BY <2>1, QuotientIs
  <2> QED BY <1>5, <1>7, <2>2 DEF decDivide
<1> QED BY <1>6, <1>7
-----------------------------------------------------------------------------
(***************************************************************************)
(* Quantize and rounding to integers.                                      *)
(***************************************************************************)
LEMMA FlagsAreFlags ==
  {"Inexact"} \subseteq DEC_Flags /\ {"Invalid_operation"} \subseteq DEC_Flags
  /\ {"Division_by_zero"} \subseteq DEC_Flags
BY DEF DEC_Flags, DEC_Errors, DEC_NaNs

LEMMA QuantizeFiniteSafe ==
  ASSUME NEW dfl \in decFloat, dfl.kind = "fin", NEW exp \in DECQTINY .. DECQMAX,
         NEW s \in Setting
  PROVE  Encodable(QuantizeFinite(dfl, exp, s))
<1> DEFINE coef == dfl.coef
           neg == dfl.neg
<1>1. coef \in Nat /\ coef < Power(10, DECPMAX) /\ neg \in BOOLEAN /\ exp \in Int /\ dfl.exp \in Int
  BY DatumParts, Format, FullPower
<1>2. CASE exp = dfl.exp
  BY <1>2, Canonical DEF QuantizeFinite
<1>3. CASE exp > dfl.exp
  <2> DEFINE drop == exp - dfl.exp
             low == Kept(coef, drop)
             kept == Datum(neg, "fin", low, exp)
             rr == Reround(coef, drop)
             x == IF Bumps(s.round, neg, rr, low % 10) THEN low + 1 ELSE low
             y == Datum(neg, "fin", x, exp)
  <2>1. drop \in Nat \ {0}
    BY <1>1, <1>3
  <2> HIDE DEF drop, coef
  <2>2. low \in Nat /\ low < Power(10, DECPMAX - 1)
    BY <1>1, <2>1, KeptIs
  <2> HIDE DEF low, rr
  <2>3. low \in 0 .. Power(10, DECPMAX) - 1 /\ x \in 0 .. Power(10, DECPMAX) - 1
    BY <2>2, FullPower
  <2>4. kept \in decFloat /\ y \in decFloat
    BY <1>1, <2>3, FiniteDatumIs
  <2>5. QuantizeFinite(dfl, exp, s) = QuantizeDrop(neg, low, exp, rr, s)
    BY <1>1, <1>3 DEF QuantizeFinite, low, rr, drop, coef
  <2>6. QuantizeDrop(neg, low, exp, rr, s)
          = IF rr = 0 THEN Quietly(kept) ELSE Returns(y, {"Inexact"})
    BY DEF QuantizeDrop
  <2> HIDE DEF y, kept
  <2> QED BY <2>4, <2>5, <2>6, QuietlyEncodable, ReturnsFields, FlagsAreFlags DEF Encodable
<1>4. CASE exp < dfl.exp
  <2> DEFINE pad == dfl.exp - exp
             long == IF coef = 0 THEN 0 ELSE coef * Power(10, pad)
             y == Datum(neg, "fin", long, exp)
             bad == pad > DECPMAX - CoefLength(coef) /\ coef # 0
  <2>1. pad \in Nat /\ CoefLength(coef) \in Nat
    BY <1>1, <1>4, LengthBounds
  <2> HIDE DEF pad
  <2>2. QuantizeFinite(dfl, exp, s) = QuantizePad(dfl, exp, pad)
    BY <1>1, <1>4 DEF QuantizeFinite, pad
  <2>3. QuantizePad(dfl, exp, pad) = IF bad THEN decInvalid ELSE Quietly(y)
    BY DEF QuantizePad
  <2>4. ~bad => long \in 0 .. Power(10, DECPMAX) - 1
    <3>1. CASE coef = 0
      BY <3>1, FullPower
    <3>2. CASE coef # 0
      <4> SUFFICES ASSUME ~bad PROVE long \in 0 .. Power(10, DECPMAX) - 1
        OBVIOUS
      <4>1. CoefLength(coef) + pad <= DECPMAX
        BY <2>1, <3>2, Format
      <4> HIDE DEF coef
      <4>2. coef * Power(10, pad) \in 0 .. Power(10, DECPMAX) - 1
        BY <1>1, <2>1, <4>1, LongerFits
      <4> QED BY <3>2, <4>2
    <3> QED BY <3>1, <3>2
  <2> HIDE DEF long, bad
  <2>5. ~bad => y \in decFloat
    BY <1>1, <2>4, FiniteDatumIs
  <2> HIDE DEF y
  <2> QED BY <2>2, <2>3, <2>5, Invalid, QuietlyEncodable
<1> QED BY <1>1, <1>2, <1>3, <1>4

LEMMA QuantizeSafe ==
  ASSUME NEW dfl \in decFloat, NEW dfr \in decFloat, NEW s \in Setting
  PROVE  Encodable(decFloatQuantize(dfl, dfr, s))
<1>1. AnyNaN(dfl, dfr) => Encodable(decNaNs(dfl, dfr))
  BY NaNs
<1>2. dfl.kind = "fin" => Encodable(QuantizeFinite(dfl, dfr.exp, s))
  BY DatumParts, QuantizeFiniteSafe
<1>3. ~AnyNaN(dfl, dfr) /\ ~DFISINF(dfl) => dfl.kind = "fin"
  BY DatumParts DEF AnyNaN, DFISNAN, DFISINF
<1> QED BY <1>1, <1>2, <1>3, Invalid, InfinityOf DEF decFloatQuantize

\* A number rounded at a higher exponent, as quantize does it.
LEMMA QuantizedIs ==
  ASSUME NEW dfl \in decFloat, dfl.kind = "fin", NEW exp \in DECQTINY .. DECQMAX,
         exp > dfl.exp, NEW s \in Setting
  PROVE  LET out == QuantizeFinite(dfl, exp, s)
             r == Ref!RoundAt(s.round, dfl.neg, dfl.coef,
                              Ref!Least({exp - dfl.exp, Ref!Digits(dfl.coef) + 1}))
         IN  /\ r.q \in 0 .. Power(10, DECPMAX - 1)
             /\ out.n = Datum(dfl.neg, "fin", r.q, exp)
             /\ r.inexact \in BOOLEAN
             /\ out.status = IF r.inexact THEN {"Inexact"} ELSE {}
<1> DEFINE coef == dfl.coef
           neg == dfl.neg
           drop == exp - dfl.exp
           low == Kept(coef, drop)
           rr == Reround(coef, drop)
           mode == s.round
           top == CoefLength(coef) + 1
           r == Ref!RoundAt(mode, neg, coef, Ref!Least({drop, Ref!Digits(coef) + 1}))
           out == QuantizeFinite(dfl, exp, s)
           bump == Bumps(mode, neg, rr, low % 10)
<1>1. /\ coef \in Nat /\ coef < Power(10, DECPMAX) /\ neg \in BOOLEAN /\ exp \in Int
      /\ dfl.exp \in Int /\ mode \in Roundings
  BY DatumParts, Format, FullPower DEF Setting
<1>2. drop \in Nat \ {0}
  BY <1>1
<1>3. r = RoundedOf(mode, neg, coef, drop)
  <2>1. top \in Int /\ drop \in Int
    BY <1>1, <1>2, LengthBounds
  <2> HIDE DEF drop, top
  <2>2. Ref!Least({drop, top}) = IF drop <= top THEN drop ELSE top
    BY <2>1, LeastIs
  <2>3. Ref!Digits(coef) + 1 = top
    BY SameLength DEF top
  <2> QED BY <2>2, <2>3 DEF RoundedOf, top
<1>4. out = QuantizeDrop(neg, low, exp, rr, s)
  BY <1>1 DEF QuantizeFinite
<1>5. low \in Nat /\ low < Power(10, DECPMAX - 1)
  <2> HIDE DEF drop, coef
  <2> QED BY <1>1, <1>2, KeptIs
<1>6. /\ r.inexact \in BOOLEAN /\ (r.inexact <=> rr # 0)
      /\ rr = 0 => r.q = low
      /\ r.q = low + (IF bump THEN 1 ELSE 0)
  <2> HIDE DEF drop, low, rr, mode, coef, neg, r
  <2>1. CASE coef = 0
    <3> DEFINE unit == UnitOf(coef, drop)
               f == Power(10, drop - 1)
               up == Ref!RoundsUp(mode, neg, 0, 0, unit)
    <3>1. CoefLength(coef) = 1
      BY <1>1, <2>1, LengthBounds
    <3>2. low = 0
      BY <1>2, <3>1 DEF Kept, low
    <3>3. rr = 0
      <4>1. f \in Nat \ {0}
        BY <1>2, TenPower
      <4> HIDE DEF f
      <4>2. 0 \div f = 0 /\ 0 % f = 0
        BY <4>1
      <4> QED BY <2>1, <4>2 DEF rr, Reround, Sticky, f
    <3>4. unit \in Nat \ {0}
      BY <1>2, <3>1, TenPower DEF UnitOf
    <3>5. r = [q |-> IF Ref!RoundsUp(mode, neg, coef \div unit, coef % unit, unit)
                     THEN (coef \div unit) + 1 ELSE coef \div unit,
               inexact |-> coef % unit # 0]
      BY <1>3, SamePowers DEF Ref!RoundAt, RoundedOf, UnitOf
    <3> HIDE DEF unit
    <3>6. 0 \div unit = 0 /\ 0 % unit = 0
      BY <3>4
    <3>7. ~up /\ ~Bumps(mode, neg, 0, 0 % 10)
      BY <1>1, <3>4, BumpsRight
    <3>8. ~bump
      BY <3>2, <3>3, <3>7
    <3>9. r = [q |-> IF up THEN 0 + 1 ELSE 0, inexact |-> FALSE]
      BY <2>1, <3>5, <3>6
    <3> HIDE DEF up, bump
    <3> QED BY <3>2, <3>3, <3>7, <3>8, <3>9
  <2>2. CASE coef # 0
    <3>1. coef \in Nat \ {0}
      BY <1>1, <2>2
    <3>2. drop >= CoefLength(coef) - DECPMAX
      <4>1. CoefLength(coef) <= DECPMAX /\ CoefLength(coef) \in Nat
        BY <1>1, Fits, Format, LengthBounds
      <4> QED BY <4>1, <1>2, Format
    <3> QED BY <1>1, <1>2, <1>3, <3>1, <3>2, RoundedIs DEF low, rr
  <2> QED BY <2>1, <2>2
<1>7. r.q \in 0 .. Power(10, DECPMAX - 1)
  <2> HIDE DEF low, r, bump
  <2> QED BY <1>5, <1>6, FullPower
<1>8. out.n = Datum(neg, "fin", r.q, exp) /\ out.status = IF r.inexact THEN {"Inexact"} ELSE {}
  <2> DEFINE kept == Datum(neg, "fin", low, exp)
             x == IF bump THEN low + 1 ELSE low
             y == Datum(neg, "fin", x, exp)
  <2>1. QuantizeDrop(neg, low, exp, rr, s)
          = IF rr = 0 THEN Quietly(kept) ELSE Returns(y, {"Inexact"})
    BY DEF QuantizeDrop
  <2> HIDE DEF low, r, bump, rr, out
  <2>2. rr # 0 => r.q = x
    BY <1>5, <1>6
  <2> HIDE DEF x
  <2>3. CASE rr = 0
    <3>1. out = Quietly(kept) /\ kept = Datum(neg, "fin", r.q, exp)
      BY <1>4, <1>6, <2>1, <2>3
    <3> HIDE DEF kept
    <3> QED BY <1>6, <2>3, <3>1, ReturnsFields
  <2>4. CASE rr # 0
    <3>1. out = Returns(y, {"Inexact"}) /\ y = Datum(neg, "fin", r.q, exp)
      BY <1>4, <2>1, <2>2, <2>4
    <3> HIDE DEF y
    <3> QED BY <1>6, <2>4, <3>1, ReturnsFields
  <2> QED BY <2>3, <2>4
<1> HIDE DEF r, out
<1> QED BY <1>6, <1>7, <1>8 DEF r, out

LEMMA ZeroIs == decFloatZero \in decFloat
<1>1. 0 \in DECQTINY .. DECQMAX /\ FALSE \in BOOLEAN
  BY Format
<1>2. SignedZero(FALSE, 0) \in decFloat
  BY <1>1, ZeroDatum, Zenon
<1> QED BY <1>2 DEF SignedZero, decFloatZero

LEMMA ToIntegralSafe ==
  ASSUME NEW df \in decFloat, NEW s \in Setting, NEW rmode \in Roundings, NEW exact
  PROVE  /\ Encodable(decToIntegral(df, s, rmode, exact))
         /\ decToInt32(df, s, rmode, exact, TRUE).status \subseteq DEC_Flags
         /\ decToInt32(df, s, rmode, exact, FALSE).status \subseteq DEC_Flags
<1> DEFINE c == [s EXCEPT !.round = rmode]
           r == decFloatQuantize(df, decFloatZero, c)
           out == Silent(exact, r)
<1>1. c \in Setting
  BY DEF Setting
<1> HIDE DEF c
<1>2. Encodable(r)
  BY <1>1, QuantizeSafe, ZeroIs
<1> HIDE DEF r
<1>3. Encodable(out)
  BY <1>2, ReturnsFields DEF Silent, Encodable
<1> HIDE DEF out
<1>4. Encodable(decToIntegral(df, s, rmode, exact))
  BY <1>3, NaN, InfinityOf, Canonical DEF decToIntegral, out, r, c
<1>5. ASSUME NEW x, NEW y \in BOOLEAN, x.status \subseteq DEC_Flags
      PROVE  ToInt32Of(x, y).status \subseteq DEC_Flags
  <2> DEFINE none == 0
             res == IntResult(x.n, y)
             bad == {"Invalid_operation"}
  <2>1. ToInt32Of(x, y) = IF DFISSPECIAL(x.n) THEN Returns(none, x.status \cup bad)
                          ELSE Returns(res.n, res.status \cup x.status)
    BY DEF ToInt32Of, Flagging
  <2>2. res.status \subseteq bad
    <3> DEFINE k == x.n.coef
               m == -k
    <3>1. /\ Returns(none, bad).status = bad
          /\ Quietly(k).status = {} /\ Quietly(m).status = {}
      BY ReturnsFields
    <3>2. res \in {Returns(none, bad), Quietly(k), Quietly(m)}
      BY <1>5 DEF IntResult
    <3> HIDE DEF res, k, m, none
    <3> QED BY <3>1, <3>2
  <2> HIDE DEF res, none
  <2>3. /\ Returns(none, x.status \cup bad).status = x.status \cup bad
        /\ Returns(res.n, res.status \cup x.status).status = res.status \cup x.status
    BY DEF Returns
  <2>4. ToInt32Of(x, y).status \in {x.status \cup bad, res.status \cup x.status}
    BY <2>1, <2>3
  <2> QED BY <1>5, <2>2, <2>4, FlagsAreFlags
<1>6. Quietly(df).status \subseteq DEC_Flags /\ out.status \subseteq DEC_Flags
  BY <1>3, ReturnsFields DEF Encodable
<1>7. ASSUME NEW y \in BOOLEAN PROVE decToInt32(df, s, rmode, exact, y).status \subseteq DEC_Flags
  <2>1. Returns(0, {"Invalid_operation"}).status \subseteq DEC_Flags
    BY ReturnsFields, FlagsAreFlags
  <2>2. decToInt32(df, s, rmode, exact, y)
          = IF DFISSPECIAL(df) THEN Returns(0, {"Invalid_operation"})
            ELSE IF df.exp = 0 THEN ToInt32Of(Quietly(df), y) ELSE ToInt32Of(out, y)
    BY DEF decToInt32, out, r, c
  <2> QED BY <1>5, <1>6, <2>1, <2>2
<1> QED BY <1>4, <1>7

\* The integers of the type, and a coefficient with its sign.
IntRange(unsign) == IF unsign THEN 0 .. 2 * INT32MAX + 1 ELSE -INT32MAX - 1 .. INT32MAX

WithSign(neg, coef) == IF neg THEN -coef ELSE coef

LEMMA IntResultRight ==
  ASSUME NEW df, df.neg \in BOOLEAN, df.coef \in Nat, NEW unsign \in BOOLEAN
  PROVE  LET v == WithSign(df.neg, df.coef)
         IN  IntResult(df, unsign) = IF v \in IntRange(unsign) THEN Quietly(v)
                                     ELSE Returns(0, {"Invalid_operation"})
<1> DEFINE v == WithSign(df.neg, df.coef)
           bad == Returns(0, {"Invalid_operation"})
           c == df.coef
<1>1. v \in Int /\ v = (IF df.neg THEN -c ELSE c) /\ c \in Nat
  BY DEF WithSign
<1>2. INT32MAX \in Nat
  BY IntAssumption
<1>3. CASE unsign
  <2>1. IntResult(df, unsign) = IF c > 2 * INT32MAX + 1 \/ (df.neg /\ c # 0) THEN bad ELSE Quietly(c)
    BY <1>3 DEF IntResult
  <2>2. v \in IntRange(unsign) <=> ~(c > 2 * INT32MAX + 1 \/ (df.neg /\ c # 0))
    <3> HIDE DEF v, c
    <3> QED BY <1>1, <1>2, <1>3 DEF IntRange
  <2>3. v \in IntRange(unsign) => v = c
    <3> HIDE DEF v, c
    <3> QED BY <1>1, <2>2
  <2> HIDE DEF v, c, bad
  <2> QED BY <2>1, <2>2, <2>3 DEF v, c, bad
<1>4. CASE ~unsign
  <2>1. IntResult(df, unsign) = IF c > INT32MAX /\ ~(df.neg /\ c = INT32MAX + 1) THEN bad
                                ELSE Quietly(v)
    BY <1>4 DEF IntResult, WithSign
  <2>2. v \in IntRange(unsign) <=> ~(c > INT32MAX /\ ~(df.neg /\ c = INT32MAX + 1))
    <3> HIDE DEF v, c
    <3> QED BY <1>1, <1>2, <1>4 DEF IntRange
  <2> HIDE DEF v, c, bad
  <2> QED BY <2>1, <2>2 DEF v, c, bad
<1> QED BY <1>3, <1>4

\* The integer of a decFloat that has one, and the flags.
LEMMA ToInt32OfRight ==
  ASSUME NEW neg \in BOOLEAN, NEW coef \in Nat, NEW r, NEW unsign \in BOOLEAN,
         r.n.kind = "fin", r.n.neg = neg, r.n.coef = coef
  PROVE  LET out == ToInt32Of(r, unsign)
             v == WithSign(neg, coef)
         IN  IF v \in IntRange(unsign) THEN out.n = v /\ out.status = r.status
             ELSE out.n = 0 /\ "Invalid_operation" \in out.status
<1> DEFINE v == WithSign(neg, coef)
           x == r.n
           got == IntResult(x, unsign)
           out == ToInt32Of(r, unsign)
           bad == {"Invalid_operation"}
<1>1. out = Returns(got.n, got.status \cup r.status)
  BY DEF ToInt32Of, Flagging, DFISSPECIAL
<1>2. got = IF v \in IntRange(unsign) THEN Quietly(v) ELSE Returns(0, bad)
  BY IntResultRight
<1> HIDE DEF got, out, v
<1>3. out.n = got.n /\ out.status = got.status \cup r.status
  BY <1>1, ReturnsFields
<1>4. CASE v \in IntRange(unsign)
  BY <1>2, <1>3, <1>4, ReturnsFields DEF out, v
<1>5. CASE v \notin IntRange(unsign)
  BY <1>2, <1>3, <1>5, ReturnsFields DEF out, v
<1> QED BY <1>4, <1>5 DEF out, v

\* What IntegersInRange says of a conversion.
IntegerRight(df, mode, unsign, n, flags) ==
  LET whole == Ref!RefToIntegral(AsNumber(df), mode).n
      value == Ref!Signed(whole) * Power(10, IF whole.exp > 0 THEN whole.exp ELSE 0)
  IN  IF df.kind = "fin" /\ value \in IntRange(unsign)
      THEN n = value /\ flags \subseteq {"Inexact"}
      ELSE n = 0 /\ "Invalid_operation" \in flags

LEMMA NumberParts ==
  ASSUME NEW df
  PROVE  /\ AsNumber(df).neg = df.neg /\ AsNumber(df).kind = df.kind
         /\ AsNumber(df).coef = df.coef /\ AsNumber(df).exp = df.exp
BY DEF AsNumber

LEMMA QuantizeToZero ==
  ASSUME NEW df, df.kind = "fin", NEW c
  PROVE  decFloatQuantize(df, decFloatZero, c) = QuantizeFinite(df, 0, c)
<1>1. decFloatZero.kind = "fin" /\ decFloatZero.exp = 0
  BY DEF decFloatZero, Datum, Encoding
<1> QED BY <1>1 DEF decFloatQuantize, AnyNaN, DFISNAN, DFISINF

LEMMA SilentParts ==
  ASSUME NEW exact \in BOOLEAN, NEW out, out.status \subseteq {"Inexact"}
  PROVE  Silent(exact, out).n = out.n /\ Silent(exact, out).status \subseteq {"Inexact"}
BY ReturnsFields DEF Silent

LEMMA ToInt32Right ==
  ASSUME NEW df \in decFloat, NEW s \in Setting, NEW rmode \in Roundings,
         NEW exact \in BOOLEAN, NEW unsign \in BOOLEAN
  PROVE  LET out == decToInt32(df, s, rmode, exact, unsign)
         IN  IntegerRight(df, rmode, unsign, out.n, out.status)
<1> DEFINE c == [s EXCEPT !.round = rmode]
           r == QuantizeFinite(df, 0, c)
           out == decToInt32(df, s, rmode, exact, unsign)
           whole == Ref!RefToIntegral(AsNumber(df), rmode).n
           value == Ref!Signed(whole) * Power(10, IF whole.exp > 0 THEN whole.exp ELSE 0)
           neg == df.neg
           coef == df.coef
           q == Silent(exact, r)
<1>1. c \in Setting /\ c.round = rmode
  BY DEF Setting
<1> HIDE DEF c
<1>2. neg \in BOOLEAN /\ coef \in Nat /\ coef < Power(10, DECPMAX) /\ df.exp \in DECQTINY .. DECQMAX
  BY DatumParts, FullPower
<1>3. CASE df.kind # "fin"
  <2>1. out = Returns(0, {"Invalid_operation"})
    BY <1>3 DEF decToInt32, DFISSPECIAL
  <2> HIDE DEF out, whole
  <2>2. out.n = 0 /\ "Invalid_operation" \in out.status
    BY <2>1, ReturnsFields
  <2> QED BY <1>3, <2>2 DEF IntegerRight, out
<1>4. CASE df.kind = "fin" /\ df.exp >= 0
  <2>1. whole = AsNumber(df)
    <3>1. Ref!RefToIntegral(AsNumber(df), rmode) = Ref!Exactly(AsNumber(df))
      BY <1>4, NumberParts DEF Ref!RefToIntegral
    <3> QED BY <3>1 DEF Ref!Exactly
  <2>2. value = WithSign(neg, coef) * Power(10, df.exp)
    <3> HIDE DEF whole
    <3>1. Ref!Signed(whole) = WithSign(neg, coef)
      BY <2>1, NumberParts DEF Ref!Signed, WithSign
    <3>2. (IF whole.exp > 0 THEN whole.exp ELSE 0) = df.exp
      BY <1>2, <1>4, <2>1, NumberParts, Format
    <3> QED BY <3>1, <3>2
  <2>3. WithSign(neg, coef) \in Int
    BY <1>2 DEF WithSign
  <2>4. CASE df.exp = 0
    <3> DEFINE v == WithSign(neg, coef)
               x == Quietly(df)
    <3>1. out = ToInt32Of(x, unsign)
      BY <1>4, <2>4 DEF decToInt32, DFISSPECIAL
    <3>2. value = v
      <4> HIDE DEF value, v
      <4> QED BY <2>2, <2>3, <2>4, PowerZero DEF v
    <3>3. x.n = df /\ x.status = {}
      BY ReturnsFields
    <3> HIDE DEF x, v
    <3>4. IF v \in IntRange(unsign) THEN out.n = v /\ out.status = x.status
          ELSE out.n = 0 /\ "Invalid_operation" \in out.status
      <4> HIDE DEF out
      <4> QED BY <1>2, <1>4, <3>1, <3>3, ToInt32OfRight DEF v
    <3> HIDE DEF out, value
    <3>5. IF value \in IntRange(unsign) THEN out.n = value /\ out.status \subseteq {"Inexact"}
          ELSE out.n = 0 /\ "Invalid_operation" \in out.status
      BY <3>2, <3>3, <3>4
    <3> QED BY <1>4, <3>5 DEF IntegerRight, out, value
  <2>5. CASE df.exp > 0
    <3> DEFINE len == CoefLength(coef)
               f == Power(10, df.exp)
               more == coef * f
               y == Datum(neg, "fin", IF coef = 0 THEN 0 ELSE more, 0)
    <3>1. df.exp \in Nat \ {0} /\ f \in Nat \ {0} /\ more \in Nat
      <4>1. df.exp \in Nat \ {0}
        BY <1>2, <2>5, Format
      <4>2. f \in Nat \ {0}
        BY <4>1, TenPower
      <4> HIDE DEF f
      <4> QED BY <1>2, <4>1, <4>2
    <3>2. out = ToInt32Of(q, unsign)
      BY <1>4, <2>5, QuantizeToZero DEF decToInt32, DFISSPECIAL, c
    <3>3. r = IF df.exp > DECPMAX - len /\ coef # 0 THEN decInvalid ELSE Quietly(y)
      <4>1. r = QuantizePad(df, 0, df.exp - 0)
        BY <1>2, <2>5, Format DEF QuantizeFinite
      <4>2. df.exp - 0 = df.exp
        BY <3>1
      <4> QED BY <4>1, <4>2 DEF QuantizePad
    <3>4. value = WithSign(neg, more)
      <4> HIDE DEF value, f
      <4> QED BY <1>2, <2>2, <3>1 DEF WithSign, f
    <3>5. CASE df.exp > DECPMAX - len /\ coef # 0
      <4>1. more >= Power(10, DECPMAX)
        <5> DEFINE g == Power(10, len - 1)
                   h == Power(10, DECPMAX)
        <5>1. len \in Nat \ {0} /\ coef >= g /\ g \in Nat \ {0} /\ h \in Nat
          BY <1>2, <3>5, LengthBounds, TenPower, FullPower
        <5>2. DECPMAX <= (len - 1) + df.exp /\ (len - 1) + df.exp \in Nat /\ len - 1 \in Nat
          BY <5>1, <3>1, <3>5, Format
        <5>3. h <= g * f
          <6>1. h <= Power(10, (len - 1) + df.exp)
            BY <5>2, Format, PowerMono
          <6>2. Power(10, (len - 1) + df.exp) = Power(10, len - 1) * Power(10, df.exp)
            <7> DEFINE i == len - 1
                       j == df.exp
            <7>1. i \in Nat /\ j \in Nat
              BY <5>2, <3>1
            <7> HIDE DEF i, j
            <7>2. Power(10, i + j) = Power(10, i) * Power(10, j)
              BY <7>1, PowerSum
            <7> QED BY <7>2 DEF i, j
          <6> QED BY <6>1, <6>2
        <5> HIDE DEF g, h, f
        <5>4. g * f <= coef * f
          BY <5>1, <3>1, <1>2
        <5>5. g * f \in Nat /\ coef * f \in Nat
          BY <5>1, <3>1, <1>2
        <5> QED BY <5>1, <5>3, <5>4, <5>5 DEF h
      <4>2. value \notin IntRange(unsign)
        <5> HIDE DEF value, more
        <5> QED BY <3>1, <3>4, <4>1, IntAssumption, FullPower DEF WithSign, IntRange
      <4>3. q.n = NaNDatum
        <5> DEFINE e == {"Invalid_operation"}
        <5>1. r = Returns(NaNDatum, e)
          BY <3>3, <3>5 DEF decInvalid
        <5> HIDE DEF r, e
        <5> QED BY <5>1, ReturnsFields DEF Silent
      <4>4. NaNDatum.kind = "nan"
        BY DEF NaNDatum, Datum, Encoding
      <4> HIDE DEF q, out, value
      <4>5. out = Returns(0, q.status \cup {"Invalid_operation"})
        BY <3>2, <4>3, <4>4 DEF ToInt32Of, DFISSPECIAL
      <4>6. out.n = 0 /\ "Invalid_operation" \in out.status
        BY <4>5, ReturnsFields
      <4> QED BY <4>2, <4>6 DEF IntegerRight, out, value
    <3>6. CASE ~(df.exp > DECPMAX - len /\ coef # 0)
      <4>1. (IF coef = 0 THEN 0 ELSE more) = more
        <5> HIDE DEF f
        <5> QED BY <1>2, <3>1
      <4>2. y.kind = "fin" /\ y.neg = neg /\ y.coef = more
        BY <4>1 DEF Datum, Encoding
      <4>3. q.n = y /\ q.status = {}
        <5>1. r = Quietly(y)
          BY <3>3, <3>6
        <5> HIDE DEF r, y
        <5> QED BY <5>1, ReturnsFields DEF Silent
      <4> HIDE DEF q, y, out, value, more
      <4>4. LET v == WithSign(neg, more)
            IN  IF v \in IntRange(unsign) THEN out.n = v /\ out.status = q.status
                ELSE out.n = 0 /\ "Invalid_operation" \in out.status
        BY <1>2, <3>1, <3>2, <4>2, <4>3, ToInt32OfRight
      <4>5. IF value \in IntRange(unsign) THEN out.n = value /\ out.status \subseteq {"Inexact"}
            ELSE out.n = 0 /\ "Invalid_operation" \in out.status
        BY <3>4, <4>3, <4>4
      <4> QED BY <1>4, <4>5 DEF IntegerRight, out, value
    <3> QED BY <3>5, <3>6
  <2> QED BY <1>2, <1>4, <2>4, <2>5, Format
<1>5. CASE df.kind = "fin" /\ df.exp < 0
  <2> DEFINE zero == 0
             a == Ref!RoundAt(c.round, neg, coef, Ref!Least({zero - df.exp, Ref!Digits(coef) + 1}))
             y == Datum(neg, "fin", a.q, zero)
  <2>1. zero \in DECQTINY .. DECQMAX /\ zero > df.exp
    BY <1>2, <1>5, Format
  <2> HIDE DEF zero
  <2>2. /\ a.q \in 0 .. Power(10, DECPMAX - 1)
        /\ QuantizeFinite(df, zero, c).n = y
        /\ a.inexact \in BOOLEAN
        /\ QuantizeFinite(df, zero, c).status = IF a.inexact THEN {"Inexact"} ELSE {}
    BY <1>1, <1>5, <2>1, QuantizedIs
  <2>3. r = QuantizeFinite(df, zero, c)
    BY DEF zero
  <2>4. whole = Ref!Finite(neg, a.q, 0)
    <3> DEFINE n == AsNumber(df)
               b == Ref!RoundAt(rmode, n.neg, n.coef, Ref!Least({-n.exp, Ref!Digits(n.coef) + 1}))
    <3>1. b = a
      <4>1. -n.exp = zero - df.exp
        BY <1>2, NumberParts, Format DEF zero
      <4> QED BY <1>1, <4>1, NumberParts
    <3>2. n.kind = "fin" /\ n.neg = neg /\ ~(n.exp >= 0)
      BY <1>2, <1>5, NumberParts, Format
    <3> HIDE DEF a, n
    <3>3. Ref!RefToIntegral(n, rmode).n = Ref!Finite(n.neg, b.q, 0)
      BY <3>2 DEF Ref!RefToIntegral
    <3> HIDE DEF b
    <3> QED BY <3>1, <3>2, <3>3 DEF n
  <2> HIDE DEF a, y
  <2>5. a.q \in Nat
    BY <2>2, FullPower
  <2>6. value = WithSign(neg, a.q)
    <3>1. whole.neg = neg /\ whole.coef = a.q /\ whole.exp = 0
      BY <2>4, FiniteIs DEF Figure
    <3> HIDE DEF whole
    <3>2. Ref!Signed(whole) = WithSign(neg, a.q)
      BY <3>1 DEF Ref!Signed, WithSign
    <3>3. WithSign(neg, a.q) \in Int
      BY <2>5 DEF WithSign
    <3>4. value = Ref!Signed(whole) * Power(10, 0)
      BY <3>1
    <3> QED BY <3>2, <3>3, <3>4, PowerZero
  <2>7. y.kind = "fin" /\ y.neg = neg /\ y.coef = a.q
    BY DEF y, Datum, Encoding
  <2>8. out = ToInt32Of(q, unsign)
    BY <1>5, QuantizeToZero DEF decToInt32, DFISSPECIAL, c
  <2> HIDE DEF out, value, r
  <2>9. r.n = y /\ r.status \subseteq {"Inexact"}
    BY <2>2, <2>3
  <2>10. q.n = y /\ q.status \subseteq {"Inexact"}
    BY <2>9, SilentParts
  <2> HIDE DEF q
  <2>11. LET v == WithSign(neg, a.q)
         IN  IF v \in IntRange(unsign) THEN out.n = v /\ out.status = q.status
             ELSE out.n = 0 /\ "Invalid_operation" \in out.status
    BY <1>2, <2>5, <2>7, <2>8, <2>10, ToInt32OfRight
  <2>12. IF value \in IntRange(unsign) THEN out.n = value /\ out.status \subseteq {"Inexact"}
         ELSE out.n = 0 /\ "Invalid_operation" \in out.status
    BY <2>6, <2>10, <2>11
  <2> QED BY <1>5, <2>12 DEF IntegerRight, out, value
<1> QED BY <1>2, <1>3, <1>4, <1>5, Format
-----------------------------------------------------------------------------
(***************************************************************************)
(* Comparisons, extremes, signs and neighbours.                            *)
(***************************************************************************)
LEMMA SmallSafe ==
  ASSUME NEW n \in Int, n < Power(10, DECPMAX), -n < Power(10, DECPMAX)
  PROVE  Encodable(Small(n))
<1> DEFINE neg == n < 0
           c == IF n < 0 THEN -n ELSE n
<1>1. neg \in BOOLEAN /\ c \in 0 .. Power(10, DECPMAX) - 1 /\ 0 \in DECQTINY .. DECQMAX
  BY FullPower, Format
<1> HIDE DEF neg, c
<1>2. Encodable(Quietly(Datum(neg, "fin", c, 0)))
  BY <1>1, FiniteDatumIs, QuietlyEncodable
<1> QED BY <1>2 DEF Small, decFloatFromInt32, neg, c

Sign3 == {-1, 0, 1}

LEMMA SignSafe == ASSUME NEW n \in Sign3 PROVE Encodable(Small(n))
<1>1. n \in Int /\ n < Power(10, DECPMAX) /\ -n < Power(10, DECPMAX)
  BY FullPower DEF Sign3
<1> QED BY <1>1, SmallSafe

LEMMA CompareIs ==
  ASSUME NEW dfl, NEW dfr, NEW tot
  PROVE  decNumCompare(dfl, dfr, tot) \in Sign3
<1>1. \A x : Signum(x) \in Sign3
  BY DEF Signum, Sign3
<1> DEFINE c == CompareSameSign(dfl, dfr, tot)
<1>2. \A a, b, d : CompareMagnitude(a, b, d, tot) \in Sign3
  BY <1>1 DEF CompareMagnitude, Sign3
<1>3. c \in Sign3
  BY <1>1, <1>2 DEF CompareSameSign, Sign3
<1> HIDE DEF c
<1>4. -c \in Sign3
  BY <1>3 DEF Sign3
<1>5. decNumCompare(dfl, dfr, tot) \in {-1, 0, 1, c, -c}
  BY DEF decNumCompare, c
<1> QED BY <1>3, <1>4, <1>5 DEF Sign3

LEMMA CompareSafe ==
  ASSUME NEW dfl \in decFloat, NEW dfr \in decFloat, NEW s
  PROVE  /\ Encodable(decFloatCompare(dfl, dfr, s))
         /\ Encodable(decFloatCompareSignal(dfl, dfr, s))
<1>1. AnyNaN(dfl, dfr) => Encodable(Flagging(decNaNs(dfl, dfr), {"Invalid_operation"}))
  BY NaNs, ReturnsFields, FlagsAreFlags DEF Encodable, Flagging
<1> QED BY <1>1, NaNs, CompareIs, SignSafe DEF decFloatCompare, decFloatCompareSignal

LEMMA CompareTotalSafe ==
  ASSUME NEW dfl, NEW dfr, NEW foot
  PROVE  Encodable(decFloatCompareTotal(dfl, dfr, foot))
<1>1. \A x : Signum(x) \in Sign3
  BY DEF Signum, Sign3
<1>2. ComparePayload(dfl, dfr, foot) \in Sign3
  <2> DEFINE comp == Signum(PayloadDifference(dfl.coef, dfr.coef, foot))
  <2>1. comp \in Sign3
    BY <1>1
  <2>2. ComparePayload(dfl, dfr, foot) = IF dfl.neg THEN -comp ELSE comp
    BY DEF ComparePayload
  <2> HIDE DEF comp
  <2> QED BY <2>1, <2>2 DEF Sign3
<1>3. CompareTotalNaN(dfl, dfr, foot) \in Sign3
  BY <1>1, <1>2 DEF CompareTotalNaN
<1> QED BY <1>3, CompareIs, SignSafe DEF decFloatCompareTotal

LEMMA CopySafe ==
  ASSUME NEW df \in decFloat, NEW neg \in BOOLEAN
  PROVE  Encodable(Quietly([df EXCEPT !.neg = neg]))
BY Recoded, QuietlyEncodable

LEMMA CopiesSafe ==
  ASSUME NEW dfl \in decFloat, NEW dfr \in decFloat, NEW foot
  PROVE  /\ Encodable(decFloatCopyAbs(dfl)) /\ Encodable(decFloatCopyNegate(dfl))
         /\ Encodable(decFloatCopySign(dfl, dfr))
         /\ Encodable(decFloatCompareTotalMag(dfl, dfr, foot))
<1> DEFINE no == FALSE
           neg == ~dfl.neg
<1>1. no \in BOOLEAN /\ neg \in BOOLEAN /\ dfr.neg \in BOOLEAN
  BY DatumParts
<1>2. /\ decFloatCopyAbs(dfl) = Quietly([dfl EXCEPT !.neg = no])
      /\ decFloatCopyNegate(dfl) = Quietly([dfl EXCEPT !.neg = neg])
      /\ decFloatCopySign(dfl, dfr) = Quietly([dfl EXCEPT !.neg = dfr.neg])
  BY DEF decFloatCopyAbs, decFloatCopyNegate, decFloatCopySign
<1> HIDE DEF no, neg
<1> QED BY <1>1, <1>2, CopySafe, CompareTotalSafe DEF decFloatCompareTotalMag

LEMMA ExtremesSafe ==
  ASSUME NEW dfl \in decFloat, NEW dfr \in decFloat, NEW s
  PROVE  /\ Encodable(decFloatMax(dfl, dfr, s)) /\ Encodable(decFloatMin(dfl, dfr, s))
         /\ Encodable(decFloatMaxMag(dfl, dfr, s)) /\ Encodable(decFloatMinMag(dfl, dfr, s))
<1>1. Encodable(Quietly(decCanonical(dfl))) /\ Encodable(Quietly(decCanonical(dfr)))
  BY Canonical
<1>2. Encodable(decFloatMax(dfl, dfr, s))
  BY <1>1, NaNs DEF decFloatMax
<1>3. Encodable(decFloatMin(dfl, dfr, s))
  BY <1>1, NaNs DEF decFloatMin
<1> QED BY <1>1, <1>2, <1>3 DEF decFloatMaxMag, decFloatMinMag

LEMMA SignedSafe ==
  ASSUME NEW df \in decFloat, NEW s
  PROVE  /\ Encodable(decFloatAbs(df, s)) /\ Encodable(decFloatPlus(df, s))
         /\ Encodable(decFloatMinus(df, s))
<1> DEFINE c == decCanonical(df)
           no == FALSE
           plus == c.neg /\ ~DFISZERO(df)
           minus == ~c.neg /\ ~DFISZERO(df)
<1>1. c \in decFloat
  BY Canonical
<1> HIDE DEF c
<1>2. no \in BOOLEAN /\ plus \in BOOLEAN /\ minus \in BOOLEAN
  BY <1>1, DatumParts
<1>3. /\ decFloatAbs(df, s) = IF DFISNAN(df) THEN decNaN(df) ELSE Quietly([c EXCEPT !.neg = no])
      /\ decFloatPlus(df, s) = IF DFISNAN(df) THEN decNaN(df) ELSE Quietly([c EXCEPT !.neg = plus])
      /\ decFloatMinus(df, s)
           = IF DFISNAN(df) THEN decNaN(df) ELSE Quietly([c EXCEPT !.neg = minus])
  BY DEF decFloatAbs, decFloatPlus, decFloatMinus, c
<1> HIDE DEF no, plus, minus
<1> QED BY <1>1, <1>2, <1>3, NaN, CopySafe

LEMMA ReduceSafe ==
  ASSUME NEW df \in decFloat, NEW s \in Setting
  PROVE  Encodable(decFloatReduce(df, s))
<1>1. Encodable(Quietly(df)) /\ Encodable(Quietly(SignedZero(df.neg, 0)))
  <2>1. df.neg \in BOOLEAN /\ 0 \in DECQTINY .. DECQMAX
    BY DatumParts, Format
  <2> QED BY <2>1, QuietlyEncodable, ZeroDatum
<1>2. df.coef # 0 => Encodable(decFinalize(WithoutZeros(Num(df), TrailingZeros(df.coef)), s))
  <2> SUFFICES ASSUME df.coef # 0
               PROVE  Encodable(decFinalize(WithoutZeros(Num(df), TrailingZeros(df.coef)), s))
    OBVIOUS
  <2>1. WithoutZeros(Num(df), TrailingZeros(Num(df).coef)) \in BcdNum
    BY NumIs, NoZerosIs
  <2>2. Num(df).coef = df.coef
    BY NumIs
  <2> QED BY <2>1, <2>2, FinalizeFinite
<1>3. ~DFISNAN(df) /\ ~DFISINF(df) /\ ~DFISZERO(df) => df.coef # 0
  BY DatumParts DEF DFISNAN, DFISINF, DFISZERO
<1> QED BY <1>1, <1>2, <1>3, NaN, InfinityOf DEF decFloatReduce

LEMMA DeltaIs ==
  ASSUME NEW neg \in BOOLEAN
  PROVE  Delta(neg, DECQTINY) \in decFloat /\ Delta(neg, -1) \in decFloat
<1>1. 1 \in 0 .. Power(10, DECPMAX) - 1
  <2>1. Power(10, DECPMAX - 1) >= 1 /\ Power(10, DECPMAX - 1) \in Nat
    BY FullPower
  <2> QED BY <2>1, FullPower
<1>2. DECQTINY \in DECQTINY .. DECQMAX /\ -1 \in DECQTINY .. DECQMAX
  BY Format
<1> QED BY <1>1, <1>2, FiniteDatumIs DEF Delta

LEMMA ExtremeIs ==
  ASSUME NEW neg \in BOOLEAN
  PROVE  Nmax(neg) \in decFloat /\ Encodable(Quietly(Nmax(neg)))
<1>1. Power(10, DECPMAX) - 1 \in 0 .. Power(10, DECPMAX) - 1 /\ DECQMAX \in DECQTINY .. DECQMAX
  BY FullPower, Format
<1>2. Datum(neg, "fin", Power(10, DECPMAX) - 1, DECQMAX) \in decFloat
  BY <1>1, FiniteDatumIs
<1> QED BY <1>2, QuietlyEncodable DEF Nmax

LEMMA SteppedSafe ==
  ASSUME NEW out, Encodable(out) PROVE Encodable(Stepped(out))
<1> DEFINE neg == ~out.n.neg
           x == [out.n EXCEPT !.neg = neg]
           st == out.status \cap {"Invalid_operation"}
<1>1. neg \in BOOLEAN
  OBVIOUS
<1>2. Stepped(out) = [n |-> IF DFISZERO(out.n) THEN x ELSE out.n, status |-> st]
  BY DEF Stepped
<1> HIDE DEF neg
<1>3. x \in decFloat
  BY <1>1, Recoded DEF Encodable
<1> HIDE DEF x
<1>4. st \subseteq DEC_Flags
  BY FlagsAreFlags
<1> HIDE DEF st
<1> QED BY <1>2, <1>3, <1>4 DEF Encodable

LEMMA NeighboursSafe ==
  ASSUME NEW dfl \in decFloat, NEW dfr \in decFloat, NEW s \in Setting
  PROVE  /\ Encodable(decFloatNextMinus(dfl, s)) /\ Encodable(decFloatNextPlus(dfl, s))
         /\ Encodable(decFloatNextToward(dfl, dfr, s))
<1> DEFINE floor == [s EXCEPT !.round = "FLOOR"]
           ceiling == [s EXCEPT !.round = "CEILING"]
           yes == TRUE
           no == FALSE
<1>1. floor \in Setting /\ ceiling \in Setting /\ yes \in BOOLEAN /\ no \in BOOLEAN
  BY DEF Setting, Roundings
<1> HIDE DEF floor, ceiling, yes, no
<1>2. /\ Encodable(Quietly(Nmax(yes))) /\ Encodable(Quietly(Nmax(no)))
      /\ Encodable(Quietly(Nmax(dfl.neg)))
  BY <1>1, ExtremeIs, DatumParts
<1>3. /\ Encodable(Stepped(decFloatAdd(dfl, Delta(yes, DECQTINY), floor)))
      /\ Encodable(Stepped(decFloatAdd(dfl, Delta(no, DECQTINY), ceiling)))
  BY <1>1, DeltaIs, AddSafe, SteppedSafe
<1>4. Encodable(decFloatNextMinus(dfl, s))
  BY <1>2, <1>3 DEF decFloatNextMinus, yes, no, floor
<1>5. Encodable(decFloatNextPlus(dfl, s))
  BY <1>2, <1>3 DEF decFloatNextPlus, yes, no, ceiling
<1>6. ASSUME NEW up \in BOOLEAN PROVE Encodable(StepToward(dfl, up, s))
  <2> DEFINE down == ~up
             c == [s EXCEPT !.round = IF up THEN "CEILING" ELSE "FLOOR"]
             out == decFloatFMA(Delta(down, DECQTINY), Delta(no, -1), dfl, c)
  <2>1. c = IF up THEN ceiling ELSE floor
    BY DEF ceiling, floor
  <2>2. down \in BOOLEAN
    OBVIOUS
  <2>3. StepToward(dfl, up, s) = IF DFISINF(dfl) THEN Quietly(Nmax(dfl.neg)) ELSE Arrived(out)
    BY DEF StepToward, no
  <2> HIDE DEF c, down
  <2>4. c \in Setting
    BY <1>1, <2>1
  <2>5. Encodable(out)
    BY <1>1, <2>2, <2>4, DeltaIs, FMASafe
  <2> HIDE DEF out
  <2>6. Encodable(Arrived(out))
    BY <2>5, QuietlyEncodable DEF Arrived, Encodable
  <2> QED BY <1>2, <2>3, <2>6
<1>7. Encodable(decFloatNextToward(dfl, dfr, s))
  <2> DEFINE up == decNumCompare(dfl, dfr, FALSE) < 0
  <2>1. up \in BOOLEAN
    OBVIOUS
  <2> HIDE DEF up
  <2>2. Encodable(StepToward(dfl, up, s))
    BY <1>6, <2>1
  <2> QED BY <2>2, NaNs, CopiesSafe DEF decFloatNextToward, up
<1> QED BY <1>4, <1>5, <1>7
-----------------------------------------------------------------------------
(***************************************************************************)
(* Moving digits and exponents.                                            *)
(***************************************************************************)
LEMMA LayOutSafe ==
  ASSUME NEW df \in decFloat, NEW coef \in Nat, NEW s \in Setting
  PROVE  Encodable(LayOut([Num(df) EXCEPT !.coef = coef], s))
<1> DEFINE num == Num(df)
           x == [num EXCEPT !.coef = coef]
<1>1. num \in BcdNum
  BY NumIs
<1> HIDE DEF num
<1>2. x \in BcdNum
  BY <1>1 DEF BcdNum
<1> HIDE DEF x
<1>3. Encodable(decFinalize(x, s))
  BY <1>2, FinalizeFinite
<1>4. Encodable(LayOut(x, s))
  BY <1>3, QuietlyEncodable DEF LayOut, Encodable
<1> QED BY <1>4 DEF x, num

\* Digits come and go, and what is left is a number.
LEMMA MovedIs ==
  ASSUME NEW coef \in Nat, NEW by \in 0 .. DECPMAX, NEW right \in BOOLEAN
  PROVE  ShiftedCoef(coef, by, right) \in Nat /\ RotatedCoef(coef, by) \in Nat
<1> DEFINE f == Power(10, by)
           h == Power(10, DECPMAX)
           g == Power(10, DECPMAX - by)
           a == coef \div f
           b == coef * f
           c == b % h
           d == coef \div g
<1>1. f \in Nat \ {0} /\ h \in Nat \ {0} /\ g \in Nat \ {0}
  <2>1. by \in Nat /\ DECPMAX - by \in Nat
    BY Format
  <2> QED BY <2>1, TenPower, FullPower
<1>2. /\ ShiftedCoef(coef, by, right) = IF right THEN a ELSE c
      /\ RotatedCoef(coef, by) = c + d
  BY DEF ShiftedCoef, RotatedCoef
<1> HIDE DEF f, h, g
<1>3. a \in Nat /\ b \in Nat /\ d \in Nat
  BY <1>1
<1> HIDE DEF a, b, d
<1>4. c \in Nat
  BY <1>1, <1>3
<1> HIDE DEF c
<1> QED BY <1>2, <1>3, <1>4

LEMMA ShiftSafe ==
  ASSUME NEW dfl \in decFloat, NEW dfr \in decFloat, NEW s \in Setting
  PROVE  /\ Encodable(decFloatShift(dfl, dfr, s)) /\ Encodable(decFloatRotate(dfl, dfr, s))
<1> DEFINE coef == dfl.coef
           num == Num(dfl)
           shifted == ShiftedCoef(coef, dfr.coef, dfr.neg)
           count == IF dfr.neg THEN DECPMAX - dfr.coef ELSE dfr.coef
           rotated == RotatedCoef(coef, count)
           ok == Counts(dfr, DECPMAX)
<1>1. /\ coef \in Nat /\ dfl.neg \in BOOLEAN /\ dfr.neg \in BOOLEAN /\ dfr.coef \in Nat
      /\ 0 \in DECQTINY .. DECQMAX /\ num.coef = coef
  BY DatumParts, FullPower, Format, NumIs
<1>2. ok => dfr.coef \in 0 .. DECPMAX /\ count \in 0 .. DECPMAX
  BY <1>1, Format DEF Counts
<1>3. ok => shifted \in Nat /\ rotated \in Nat
  BY <1>1, <1>2, MovedIs
<1>4. /\ Encodable(decNaNs(dfl, dfr)) \/ ~AnyNaN(dfl, dfr)
      /\ Encodable(Quietly(decInfinity(dfl))) /\ Encodable(Quietly(decCanonical(dfl)))
      /\ Encodable(Quietly(SignedZero(dfl.neg, 0))) /\ Encodable(decInvalid)
  BY <1>1, NaNs, InfinityOf, Canonical, ZeroDatum, Invalid
<1>5. ok => /\ Encodable(LayOut([num EXCEPT !.coef = shifted], s))
            /\ Encodable(LayOut([num EXCEPT !.coef = rotated], s))
  <2> HIDE DEF shifted, rotated
  <2> QED BY <1>3, LayOutSafe
<1>6. Encodable(decFloatShift(dfl, dfr, s))
  <2>1. decFloatShift(dfl, dfr, s)
          = IF AnyNaN(dfl, dfr) THEN decNaNs(dfl, dfr)
            ELSE IF ~ok THEN decInvalid
            ELSE IF DFISINF(dfl) THEN Quietly(decInfinity(dfl))
            ELSE IF dfr.coef = 0 THEN Quietly(decCanonical(dfl))
            ELSE IF dfr.coef = DECPMAX THEN Quietly(SignedZero(dfl.neg, 0))
            ELSE LayOut([num EXCEPT !.coef = ShiftedCoef(num.coef, dfr.coef, dfr.neg)], s)
    BY DEF decFloatShift
  <2>2. ShiftedCoef(num.coef, dfr.coef, dfr.neg) = shifted
    BY <1>1
  <2> HIDE DEF ok, num, shifted
  <2> QED BY <1>4, <1>5, <2>1, <2>2
<1>7. Encodable(decFloatRotate(dfl, dfr, s))
  <2>1. decFloatRotate(dfl, dfr, s)
          = IF AnyNaN(dfl, dfr) THEN decNaNs(dfl, dfr)
            ELSE IF ~ok THEN decInvalid
            ELSE IF DFISINF(dfl) THEN Quietly(decInfinity(dfl))
            ELSE IF dfr.coef \in {0, DECPMAX} THEN Quietly(decCanonical(dfl))
            ELSE LayOut([num EXCEPT !.coef = RotatedCoef(num.coef, count)], s)
    BY DEF decFloatRotate
  <2>2. RotatedCoef(num.coef, count) = rotated
    BY <1>1
  <2> HIDE DEF ok, num, rotated, count
  <2> QED BY <1>4, <1>5, <2>1, <2>2
<1> QED BY <1>6, <1>7

LEMMA SetExponentSafe ==
  ASSUME NEW df \in decFloat, NEW kind \in {"fin", "inf", "nan", "snan"}, NEW exp \in Int,
         NEW s \in Setting
  PROVE  Encodable(decFloatSetExponent(df, s, kind, exp))
<1> DEFINE c == decFloatGetCoefficient(df).coef
<1>1. c \in Nat /\ df.neg \in BOOLEAN
  BY DatumParts, FullPower DEF decFloatGetCoefficient
<1> HIDE DEF c
<1>2. Encodable(decFinalize([neg |-> df.neg, kind |-> kind, coef |-> c, exp |-> exp], s))
  BY <1>1, FinalizeAny
<1> QED BY <1>2 DEF decFloatSetExponent, c

LEMMA ScaleBSafe ==
  ASSUME NEW dfl \in decFloat, NEW dfr \in decFloat, NEW s \in Setting
  PROVE  Encodable(decFloatScaleB(dfl, dfr, s))
<1> DEFINE e == IF dfr.neg THEN dfl.exp - dfr.coef ELSE dfl.exp + dfr.coef
<1>1. e \in Int
  BY DatumParts, FullPower, Format
<1> HIDE DEF e
<1>2. Encodable(decFloatSetExponent(dfl, s, "fin", e))
  BY <1>1, SetExponentSafe
<1> QED BY <1>2, NaNs, Invalid, InfinityOf DEF decFloatScaleB, e

\* An adjusted exponent has no more digits than the format holds.
LEMMA LogBSafe ==
  ASSUME NEW df \in decFloat, NEW s
  PROVE  Encodable(decFloatLogB(df, s))
<1> DEFINE n == CoefLength(df.coef)
           e == df.exp + n - 1
           no == FALSE
           yes == TRUE
<1>1. df.coef \in Nat /\ df.coef < Power(10, DECPMAX) /\ df.exp \in DECQTINY .. DECQMAX
  BY DatumParts, FullPower
<1>2. n \in Nat \ {0} /\ n <= DECPMAX /\ n = Places(df.coef, 10)
  BY <1>1, Fits, LengthBounds, Format
<1>3. ~DFISINF(df) => decFloatDigits(df) = n
  BY <1>2, Format DEF decFloatDigits, decGetDigits
<1> HIDE DEF n
<1>4. e \in Int /\ e < Power(10, DECPMAX) /\ -e < Power(10, DECPMAX)
  <2>1. e >= DECQTINY /\ e <= DECEMAX /\ e \in Int
    BY <1>1, <1>2, Format
  <2>2. DECQTINY = 2 - DECEMAX - DECPMAX /\ 2 * DECEMAX < Power(10, DECPMAX)
    BY Format, LogBAssumption
  <2> QED BY <2>1, <2>2, Format, FullPower
<1>5. ~DFISINF(df) => e = df.exp + decFloatDigits(df) - 1
  BY <1>3
<1> HIDE DEF e, no, yes
<1>6. Encodable(Small(e))
  BY <1>4, SmallSafe
<1>7. no \in BOOLEAN /\ yes \in BOOLEAN
  BY DEF no, yes
<1>8. /\ Encodable(Quietly(InfinityDatum(no)))
      /\ Encodable(Returns(InfinityDatum(yes), {"Division_by_zero"}))
  <2> DEFINE zero == {"Division_by_zero"}
             high == InfinityDatum(no)
             low == InfinityDatum(yes)
  <2>1. high \in decFloat /\ low \in decFloat
    BY <1>7, InfiniteDatumIs
  <2>2. zero \subseteq DEC_Flags
    BY FlagsAreFlags
  <2> HIDE DEF zero, high, low
  <2>3. Encodable(Quietly(high)) /\ Encodable(Returns(low, zero))
    BY <2>1, <2>2, QuietlyEncodable, ReturnsFields DEF Encodable
  <2> QED BY <2>3 DEF high, low, zero
<1> QED BY <1>5, <1>6, <1>8, NaN DEF decFloatLogB, no, yes
-----------------------------------------------------------------------------
(***************************************************************************)
(* Logical operations.                                                     *)
(***************************************************************************)
\* The sum OnesAt counts up is less than the power of ten it has got to.
LEMMA OnesAtIs ==
  ASSUME NEW places
  PROVE  OnesAt(places) \in 0 .. Power(10, DECPMAX) - 1
<1> DEFINE one(i) == IF i - 1 \in places THEN Power(10, i - 1) ELSE 0
           Upto(n, g) == g = [i \in 0 .. n |-> IF i = 0 THEN 0 ELSE g[i - 1] + one(i)]
           T == {n \in Nat : \E g : Upto(n, g)}
<1>1. 0 \in T
  <2> DEFINE g == [i \in 0 .. 0 |-> 0]
  <2>1. Upto(0, g)
    OBVIOUS
  <2> HIDE DEF Upto
  <2> QED BY <2>1
<1>2. ASSUME NEW n \in Nat, n \in T PROVE n + 1 \in T
  <2> HIDE DEF one
  <2>1. PICK g : Upto(n, g)
    BY <1>2
  <2> DEFINE h == [i \in 0 .. n + 1 |-> IF i = n + 1 THEN g[n] + one(n + 1) ELSE g[i]]
  <2>2. \A i \in 0 .. n + 1 : h[i] = IF i = n + 1 THEN g[n] + one(n + 1) ELSE g[i]
    OBVIOUS
  <2>3. \A i \in 0 .. n : g[i] = IF i = 0 THEN 0 ELSE g[i - 1] + one(i)
    BY <2>1
  <2>4. ASSUME NEW i \in 0 .. n + 1 PROVE h[i] = IF i = 0 THEN 0 ELSE h[i - 1] + one(i)
    <3>1. CASE i = n + 1
      <4>1. i # 0 /\ i - 1 = n /\ n \in 0 .. n + 1 /\ n # n + 1
        BY <3>1
      <4> QED BY <3>1, <4>1, <2>2
    <3>2. CASE i \in 0 .. n
      <4>1. g[i] = IF i = 0 THEN 0 ELSE g[i - 1] + one(i)
        BY <2>3, <3>2
      <4>2. i # 0 => i - 1 \in 0 .. n
        BY <3>2
      <4> QED BY <4>1, <4>2, <2>2, <3>2
    <3> QED BY <3>1, <3>2
  <2>5. h = [i \in 0 .. n + 1 |-> h[i]]
    OBVIOUS
  <2> HIDE DEF h
  <2>6. Upto(n + 1, h)
    BY <2>4, <2>5
  <2> HIDE DEF Upto
  <2> QED BY <2>6
<1> DEFINE ones == CHOOSE g : Upto(DECPMAX, g)
<1>3. Upto(DECPMAX, ones)
  <2>1. \A n \in Nat : n \in T
    <3> HIDE DEF T
    <3> QED BY <1>1, <1>2, Induction
  <2>2. \E g : Upto(DECPMAX, g)
    BY <2>1, Format
  <2> HIDE DEF Upto
  <2> QED BY <2>2
<1>4. OnesAt(places) = ones[DECPMAX]
  BY DEF OnesAt
<1> HIDE DEF ones
<1>5. \A i \in 0 .. DECPMAX : ones[i] = IF i = 0 THEN 0 ELSE ones[i - 1] + one(i)
  <2> HIDE DEF one
  <2> QED BY <1>3
<1> DEFINE S == {n \in Nat : n <= DECPMAX => ones[n] \in 0 .. Power(10, n) - 1}
<1>6. 0 \in S
  <2>1. ones[0] = 0 /\ Power(10, 0) = 1
    <3> HIDE DEF one
    <3> QED BY <1>5, PowerZero, Format
  <2> QED BY <2>1
<1>7. ASSUME NEW n \in Nat, n \in S PROVE n + 1 \in S
  <2> SUFFICES ASSUME n + 1 <= DECPMAX PROVE ones[n + 1] \in 0 .. Power(10, n + 1) - 1
    OBVIOUS
  <2>1. n <= DECPMAX /\ n + 1 \in 0 .. DECPMAX /\ n + 1 # 0 /\ (n + 1) - 1 = n
    BY Format
  <2> DEFINE f == Power(10, n)
             x == one(n + 1)
  <2>2. f \in Nat \ {0} /\ Power(10, n + 1) = 10 * f
    BY TenPower, PowerNext
  <2>3. x \in {0, f}
    BY <2>1
  <2>4. ones[n + 1] = ones[n] + x
    <3> HIDE DEF one
    <3> QED BY <1>5, <2>1
  <2>5. ones[n] \in 0 .. f - 1
    BY <1>7, <2>1
  <2> HIDE DEF f, x
  <2> QED BY <2>2, <2>3, <2>4, <2>5
<1>8. \A n \in Nat : n \in S
  <2> HIDE DEF S
  <2> QED BY <1>6, <1>7, Induction
<1>9. ones[DECPMAX] \in 0 .. Power(10, DECPMAX) - 1
  BY <1>8, Format
<1> QED BY <1>4, <1>9

LEMMA LogicalSafe ==
  ASSUME NEW valid, NEW places PROVE Encodable(LogicalResult(valid, places))
<1> DEFINE no == FALSE
<1>1. no \in BOOLEAN /\ 0 \in DECQTINY .. DECQMAX
  BY Format
<1> HIDE DEF no
<1>2. Encodable(Quietly(Datum(no, "fin", OnesAt(places), 0)))
  BY <1>1, OnesAtIs, FiniteDatumIs, QuietlyEncodable
<1> QED BY <1>2, Invalid DEF LogicalResult, no

LEMMA LogicalsSafe ==
  ASSUME NEW dfl, NEW dfr, NEW s
  PROVE  /\ Encodable(decFloatAnd(dfl, dfr, s)) /\ Encodable(decFloatOr(dfl, dfr, s))
         /\ Encodable(decFloatXor(dfl, dfr, s)) /\ Encodable(decFloatInvert(dfl, s))
BY LogicalSafe DEF decFloatAnd, decFloatOr, decFloatXor, decFloatInvert
-----------------------------------------------------------------------------
(***************************************************************************)
(* Parts of a decFloat, and packed decimal.                                *)
(***************************************************************************)
LEMMA LaidOutIs ==
  ASSUME NEW neg \in BOOLEAN, NEW kind \in {"fin", "inf", "nan", "snan"},
         NEW coef \in 0 .. Power(10, DECPMAX) - 1, NEW exp,
         kind = "fin" => exp \in DECQTINY .. DECQMAX
  PROVE  decFloatFromBCD(neg, kind, coef, exp) \in decFloat
<1> DEFINE df == decFloatFromBCD(neg, kind, coef, exp)
<1>1. CASE kind = "fin"
  BY <1>1, FiniteDatumIs DEF decFloatFromBCD
<1>2. CASE kind # "fin"
  <2>1. coef \in Nat /\ kind \in {"inf", "nan", "snan"}
    BY <1>2, FullPower
  <2> DEFINE out == decFinalize([neg |-> neg, kind |-> kind, coef |-> coef, exp |-> exp],
                                [round |-> "DOWN"])
  <2>2. out = Quietly(df)
    BY <1>2 DEF decFinalize, LaidOut
  <2>3. Encodable(out)
    BY <2>1, FinalizeSpecial
  <2> HIDE DEF out, df
  <2>4. df \in decFloat
    BY <2>2, <2>3, ReturnsFields DEF Encodable
  <2> QED BY <2>4 DEF df
<1> QED BY <1>1, <1>2

LEMMA SetCoefficientSafe ==
  ASSUME NEW dfl \in decFloat, NEW dfr \in decFloat
  PROVE  LET from == decFloatGetCoefficient(dfr)
         IN  Encodable(Quietly(decFloatSetCoefficient(dfl, from.coef, from.neg)))
<1> DEFINE from == decFloatGetCoefficient(dfr)
           c == IF DFISINF(dfl) THEN 0 ELSE from.coef
           e == decFloatGetExponent(dfl).exp
<1>1. from.neg = dfr.neg /\ from.coef = IF DFISINF(dfr) THEN 0 ELSE dfr.coef
  BY DEF decFloatGetCoefficient
<1>2. 0 \in 0 .. Power(10, DECPMAX) - 1
  BY FullPower
<1>3. from.neg \in BOOLEAN /\ from.coef \in 0 .. Power(10, DECPMAX) - 1
  <2> HIDE DEF from
  <2> QED BY <1>1, <1>2, DatumParts
<1> HIDE DEF from
<1>4. c \in 0 .. Power(10, DECPMAX) - 1
  BY <1>2, <1>3
<1>5. dfl.kind = "fin" => e \in DECQTINY .. DECQMAX
  BY DatumParts DEF decFloatGetExponent, DFISSPECIAL
<1> HIDE DEF c, e
<1>6. decFloatFromBCD(from.neg, dfl.kind, c, e) \in decFloat
  BY <1>3, <1>4, <1>5, DatumParts, LaidOutIs
<1>7. Encodable(Quietly(decFloatSetCoefficient(dfl, from.coef, from.neg)))
  BY <1>6, QuietlyEncodable DEF decFloatSetCoefficient, c, e
<1> QED BY <1>7 DEF from

LEMMA FromWiderSafe ==
  ASSUME NEW wider \in WiderFloat \cup decFloat, NEW s \in Setting
  PROVE  Encodable(decFloatFromWider(wider, s))
<1>1. /\ wider.neg \in BOOLEAN /\ wider.kind \in {"fin", "inf", "nan", "snan"}
      /\ wider.coef \in Nat /\ wider.exp \in Int
  <2>1. CASE wider \in WiderFloat
    BY <2>1 DEF WiderFloat
  <2>2. CASE wider \in decFloat
    BY <2>2, DatumParts, FullPower, Format
  <2> QED BY <2>1, <2>2
<1> QED BY <1>1, FinalizeAny DEF decFloatFromWider

\* What is read is a decFloat, whatever the packed digits are.
LEMMA FromPackedSafe ==
  ASSUME NEW df \in decFloat, NEW kind \in {"fin", "inf", "nan", "snan"}, NEW exp,
         NEW packed, packed.coef \in 0 .. Power(10, DECPMAX) - 1
  PROVE  decFloatFromPackedChecked(df, kind, exp, packed) \in decFloat
<1> DEFINE neg == packed.sign \in {DECPMINUS, DECPMINUSALT}
           c == IF kind = "inf" THEN 0 ELSE packed.coef
<1>1. neg \in BOOLEAN /\ c \in 0 .. Power(10, DECPMAX) - 1
  BY FullPower
<1> HIDE DEF neg, c
<1>2. PackedChecks(kind, exp, packed) => (kind = "fin" => exp \in DECQTINY .. DECQMAX)
  BY DEF PackedChecks
<1>3. PackedChecks(kind, exp, packed) => decFloatFromBCD(neg, kind, c, exp) \in decFloat
  BY <1>1, <1>2, LaidOutIs
<1> QED BY <1>3 DEF decFloatFromPackedChecked, decFloatFromPacked, neg, c

\* What decFloatToPacked puts where, and another program changes.
LEMMA ImageParts ==
  ASSUME NEW df \in decFloat
  PROVE  LET image == decFloatToPacked(df)
         IN  /\ image.kind = df.kind /\ image.exp = df.exp
             /\ image.packed.coef = df.coef /\ image.packed.pad = 0
             /\ \A code : LET other == [image EXCEPT !.packed.sign = code]
                          IN  /\ other.kind = df.kind /\ other.exp = df.exp
                              /\ other.packed.coef = df.coef /\ other.packed.pad = 0
                              /\ other.packed.sign = code
<1> DEFINE first == IF df.neg THEN DECPMINUS ELSE DECPPLUS
           image == decFloatToPacked(df)
<1>1. /\ decFloatGetExponent(df).exp = df.exp
      /\ decFloatGetCoefficient(df).coef = df.coef
  <2>1. df.kind # "fin" => df.exp = 0
    BY DatumParts
  <2>2. df.kind = "inf" => df.coef = 0
    BY DatumParts
  <2> QED BY <2>1, <2>2 DEF decFloatGetExponent, decFloatGetCoefficient, DFISSPECIAL, DFISINF
<1>2. image = [kind |-> df.kind, exp |-> df.exp,
               packed |-> [pad |-> 0, coef |-> df.coef, sign |-> first]]
  BY <1>1 DEF decFloatToPacked, Packed
<1> HIDE DEF image, first
<1>3. /\ image.kind = df.kind /\ image.exp = df.exp
      /\ image.packed.coef = df.coef /\ image.packed.pad = 0
  BY <1>2
<1>4. ASSUME NEW code
      PROVE  LET other == [image EXCEPT !.packed.sign = code]
             IN  /\ other.kind = df.kind /\ other.exp = df.exp
                 /\ other.packed.coef = df.coef /\ other.packed.pad = 0
                 /\ other.packed.sign = code
  BY <1>2
<1> QED BY <1>3, <1>4 DEF image

\* Whatever the sign code, the number is read as it was.
LEMMA PackedIs ==
  ASSUME NEW df \in decFloat, NEW code \in SignCodes(df.neg), NEW reg
  PROVE  LET image == [decFloatToPacked(df) EXCEPT !.packed.sign = code]
         IN  decFloatFromPackedChecked(reg, image.kind, image.exp, image.packed)
               = decCanonical(df)
<1> DEFINE image == [decFloatToPacked(df) EXCEPT !.packed.sign = code]
           packed == image.packed
           minus == packed.sign \in {DECPMINUS, DECPMINUSALT}
           c == IF df.kind = "inf" THEN 0 ELSE df.coef
<1>1. /\ image.kind = df.kind /\ image.exp = df.exp
      /\ packed.coef = df.coef /\ packed.pad = 0 /\ packed.sign = code
  BY ImageParts
<1> HIDE DEF image, packed
<1>2. minus \in BOOLEAN /\ (minus <=> code \in {13, 11})
  BY <1>1 DEF DECPMINUS, DECPMINUSALT
<1> HIDE DEF minus
<1>3. code > 9 /\ minus = df.neg
  <2>1. df.neg \in BOOLEAN
    BY DatumParts
  <2>2. CASE df.neg
    <3>1. code \in {13, 11}
      BY <2>2 DEF SignCodes, DECPMINUS, DECPMINUSALT
    <3>2. code > 9 /\ minus = TRUE
      BY <1>2, <3>1
    <3>3. df.neg = TRUE
      BY <2>1, <2>2
    <3> QED BY <3>2, <3>3
  <2>3. CASE ~df.neg
    <3>1. code \in {10, 12, 14, 15}
      BY <2>3 DEF SignCodes, DECPPLUS
    <3>2. code > 9 /\ minus = FALSE
      BY <1>2, <3>1
    <3>3. df.neg = FALSE
      BY <2>1, <2>3
    <3> QED BY <3>2, <3>3
  <2> QED BY <2>1, <2>2, <2>3
<1>4. PackedChecks(image.kind, image.exp, packed)
  BY <1>1, <1>3, DatumParts, FullPower DEF PackedChecks
<1>5. c = df.coef
  BY DatumParts
<1>6. decFloatFromPackedChecked(reg, image.kind, image.exp, packed)
        = decFloatFromBCD(df.neg, df.kind, c, df.exp)
  BY <1>1, <1>3, <1>4 DEF decFloatFromPackedChecked, decFloatFromPacked, minus, c
<1>7. decFloatFromBCD(df.neg, df.kind, df.coef, df.exp)
        = Datum(df.neg, df.kind, df.coef, df.exp)
  <2>1. CASE df.kind = "fin"
    BY <2>1 DEF decFloatFromBCD
  <2>2. CASE df.kind = "inf"
    <3>1. df.coef = 0 /\ df.exp = 0
      BY <2>2, DatumParts
    <3>2. (0 % Power(10, DECPMAX - 1) = 0) = TRUE
      BY FullPower
    <3> QED BY <2>2, <3>1, <3>2 DEF decFloatFromBCD, Datum
  <2>3. CASE df.kind \in {"nan", "snan"}
    <3>1. df.coef \in 0 .. Power(10, DECPMAX - 1) - 1 /\ df.exp = 0
      BY <2>3, DatumParts
    <3>2. df.coef % Power(10, DECPMAX - 1) = df.coef
      BY <3>1, FullPower
    <3> QED BY <2>3, <3>1, <3>2 DEF decFloatFromBCD
  <2> QED BY <2>1, <2>2, <2>3, DatumParts
<1> QED BY <1>5, <1>6, <1>7 DEF image, packed, decCanonical

\* Whatever the damage, it is noticed.
LEMMA DamagedIs ==
  ASSUME NEW df \in decFloat, NEW image \in Damages(decFloatToPacked(df)), NEW reg
  PROVE  /\ decFloatFromPackedChecked(reg, image.kind, image.exp, image.packed) = reg
         /\ image.kind = df.kind /\ image.packed.coef \in 0 .. Power(10, DECPMAX) - 1
<1> DEFINE whole == decFloatToPacked(df)
           high == DECQMAX + 1
           low == DECQTINY - 1
           digit == Power(10, DECPMAX - 1)
           Noticed == ~PackedChecks(image.kind, image.exp, image.packed)
           Kept2 == image.kind = df.kind /\ image.packed.coef \in {df.coef, digit}
<1>1. whole.kind = df.kind
  BY ImageParts
<1>2. /\ high \notin DECQTINY .. DECQMAX /\ low \notin DECQTINY .. DECQMAX
      /\ digit \in 1 .. Power(10, DECPMAX) - 1 /\ df.coef \in 0 .. Power(10, DECPMAX) - 1
      /\ ~(digit < digit) /\ digit # 0
  BY Format, FullPower, DatumParts
<1>3. \/ image = [whole EXCEPT !.packed.sign = 5]
      \/ df.kind = "fin" /\ image = [whole EXCEPT !.exp = high]
      \/ df.kind # "fin" /\ image = [whole EXCEPT !.packed.coef = digit]
      \/ df.kind = "fin" /\ image = [whole EXCEPT !.exp = low]
      \/ df.kind # "fin" /\ image = [whole EXCEPT !.packed.pad = 1]
  BY <1>1, Zenon DEF Damages
<1> DEFINE first == IF df.neg THEN DECPMINUS ELSE DECPPLUS
           e == decFloatGetExponent(df).exp
           c == decFloatGetCoefficient(df).coef
<1>4. whole = [kind |-> df.kind, exp |-> e, packed |-> [pad |-> 0, coef |-> c, sign |-> first]]
  BY DEF decFloatToPacked, Packed
<1>5. c = df.coef
  BY ImageParts, <1>4
<1> HIDE DEF whole, high, low, digit, first, e, c
<1>6. ASSUME image = [whole EXCEPT !.packed.sign = 5]
      PROVE  Noticed /\ Kept2
  <2>1. image.packed.sign = 5 /\ image.packed.coef = c /\ image.kind = df.kind
    BY <1>4, <1>6
  <2> QED BY <1>5, <2>1 DEF PackedChecks
<1>7. ASSUME NEW bad \in {high, low}, df.kind = "fin", image = [whole EXCEPT !.exp = bad]
      PROVE  Noticed /\ Kept2
  <2>1. image.exp = bad /\ image.packed.coef = c /\ image.kind = df.kind
    BY <1>4, <1>7
  <2> QED BY <1>2, <1>5, <1>7, <2>1 DEF PackedChecks
<1>8. ASSUME df.kind # "fin", image = [whole EXCEPT !.packed.coef = digit]
      PROVE  Noticed /\ Kept2
  <2>1. image.packed.coef = digit /\ image.kind = df.kind
    BY <1>4, <1>8
  <2>2. df.kind \in {"inf", "nan", "snan"}
    BY <1>8, DatumParts
  <2> QED BY <1>2, <2>1, <2>2 DEF PackedChecks, digit
<1>9. ASSUME df.kind # "fin", image = [whole EXCEPT !.packed.pad = 1]
      PROVE  Noticed /\ Kept2
  <2>1. image.packed.pad = 1 /\ image.packed.coef = c /\ image.kind = df.kind
    BY <1>4, <1>9
  <2> QED BY <1>5, <2>1 DEF PackedChecks
<1>10. Noticed /\ Kept2
  BY <1>3, <1>6, <1>7, <1>8, <1>9
<1> QED BY <1>2, <1>10 DEF decFloatFromPackedChecked
-----------------------------------------------------------------------------
(***************************************************************************)
(* The calculator.                                                         *)
(***************************************************************************)
\* The properties of a call that it alone decides, whatever was called before.
LastCallOK == NarrowingRounds /\ PackedRoundTrip /\ IntegersInRange

\* The calls they are about.
Watched == {"SetExponent", "FromWider", "Packed", "Damaged", "ToInt32", "ToUInt32"}

\* What Args and the setting are, of typed registers.
LEMMA ArgsAreFloats ==
  ASSUME TypeOK
  PROVE  Args \subseteq decFloat /\ set \in Setting /\ set.round = round
<1>1. Literals \subseteq decFloat
  BY FloatCalculatorAssumption
<1>2. {regs[x] : x \in Reg} \subseteq decFloat
  BY DEF TypeOK
<1>3. set \in Setting /\ set.round = round
  BY DEF TypeOK, set, Setting
<1> QED BY <1>1, <1>2, <1>3 DEF Args

\* What a call tells of itself.
LEMMA ReportIs ==
  ASSUME TypeOK, calls < MaxCalls, NEW op, NEW l, NEW r, NEW f, NEW n, NEW int,
         NEW flags, flags \subseteq DEC_Flags, Report(op, l, r, f, n, int, flags)
  PROVE  /\ status' \subseteq DEC_Flags /\ calls' \in 0 .. MaxCalls /\ round' \in Roundings
         /\ last'.op = op /\ last'.l = l /\ last'.r = r /\ last'.n = n
         /\ last'.round = round /\ last'.status = flags /\ last'.int = int
<1>1. status' \subseteq DEC_Flags /\ calls' \in 0 .. MaxCalls /\ round' \in Roundings
  BY FloatCalculatorAssumption DEF Report, TypeOK
<1>2. last' = [op |-> op, l |-> l, r |-> r, f |-> f, round |-> round, n |-> n,
               int |-> int, status |-> flags]
  BY DEF Report
<1> QED BY <1>1, <1>2

\* A call that returns a decFloat to a register.
LEMMA CallIs ==
  ASSUME TypeOK, calls < MaxCalls, NEW res \in Reg, NEW op, NEW l, NEW r, NEW f, NEW out,
         Encodable(out), CallWith(op, res, l, r, f, out)
  PROVE  /\ TypeOK'
         /\ last'.op = op /\ last'.l = l /\ last'.r = r /\ last'.n = out.n
         /\ last'.round = round /\ last'.status = out.status
<1> DEFINE int == 0
           n == out.n
           flags == out.status
<1>1. regs' = [regs EXCEPT ![res] = n] /\ Report(op, l, r, f, n, int, flags)
  BY DEF CallWith
<1>2. n \in decFloat /\ flags \subseteq DEC_Flags
  BY DEF Encodable
<1> HIDE DEF int, n, flags
<1>3. /\ status' \subseteq DEC_Flags /\ calls' \in 0 .. MaxCalls /\ round' \in Roundings
      /\ last'.op = op /\ last'.l = l /\ last'.r = r /\ last'.n = n
      /\ last'.round = round /\ last'.status = flags
  BY <1>1, <1>2, ReportIs
<1>4. regs' \in [Reg -> decFloat]
  BY <1>1, <1>2 DEF TypeOK
<1> QED BY <1>3, <1>4 DEF TypeOK, n, flags

\* Calls the properties are not about satisfy them.
LEMMA OthersOK ==
  ASSUME last'.op \notin Watched PROVE LastCallOK'
BY DEF Watched, LastCallOK, NarrowingRounds, PackedRoundTrip, IntegersInRange

StepOK == TypeOK' /\ LastCallOK'

LEMMA OtherCall ==
  ASSUME TypeOK, calls < MaxCalls, NEW res \in Reg, NEW op, op \notin Watched, NEW l, NEW r, NEW f,
         NEW out, Encodable(out), CallWith(op, res, l, r, f, out)
  PROVE  StepOK
BY CallIs, OthersOK DEF StepOK

\* To an integral value, in the rounding mode of the context.
LEMMA IntegralsSafe ==
  ASSUME NEW df \in decFloat, NEW s \in Setting
  PROVE  /\ Encodable(decFloatToIntegralExact(df, s))
         /\ Encodable(decFloatToIntegralValue(df, s, s.round))
<1> DEFINE mode == s.round
           yes == TRUE
           no == FALSE
<1>1. mode \in Roundings
  BY DEF Setting
<1>2. /\ decFloatToIntegralExact(df, s) = decToIntegral(df, s, mode, yes)
      /\ decFloatToIntegralValue(df, s, mode) = decToIntegral(df, s, mode, no)
  BY DEF decFloatToIntegralExact, decFloatToIntegralValue
<1> HIDE DEF mode, yes, no
<1>3. Encodable(decToIntegral(df, s, mode, yes)) /\ Encodable(decToIntegral(df, s, mode, no))
  BY <1>1, ToIntegralSafe
<1> QED BY <1>2, <1>3 DEF mode

\* Arithmetic and division.
LEMMA Calculates ==
  ASSUME TypeOK,
         FloatAdd \/ FloatSubtract \/ FloatMultiply \/ FloatDivide \/
           FloatDivideInteger \/ FloatRemainder \/ FloatRemainderNear \/ FloatQuantize
           \/ FloatScaleB
  PROVE  StepOK
<1> DEFINE s == set
<1>0. Args \subseteq decFloat /\ s \in Setting /\ s.round = round
  BY ArgsAreFloats
<1> HIDE DEF s
<1>1. CASE FloatAdd
  BY <1>0, <1>1, AddSafe, OtherCall DEF FloatAdd, Binary, Ready, Watched, s
<1>2. CASE FloatSubtract
  BY <1>0, <1>2, SubtractSafe, OtherCall DEF FloatSubtract, Binary, Ready, Watched, s
<1>3. CASE FloatMultiply
  BY <1>0, <1>3, MultiplySafe, OtherCall DEF FloatMultiply, Binary, Ready, Watched, s
<1>4. CASE FloatDivide
  BY <1>0, <1>4, DivideSafe, OtherCall DEF FloatDivide, Binary, Ready, Watched, s, decFloatDivide
<1>5. CASE FloatDivideInteger
  BY <1>0, <1>5, DivideSafe, OtherCall
     DEF FloatDivideInteger, Binary, Ready, Watched, s, decFloatDivideInteger
<1>6. CASE FloatRemainder
  BY <1>0, <1>6, DivideSafe, OtherCall
     DEF FloatRemainder, Binary, Ready, Watched, s, decFloatRemainder
<1>7. CASE FloatRemainderNear
  BY <1>0, <1>7, DivideSafe, OtherCall
     DEF FloatRemainderNear, Binary, Ready, Watched, s, decFloatRemainderNear
<1>8. CASE FloatQuantize
  BY <1>0, <1>8, QuantizeSafe, OtherCall DEF FloatQuantize, Binary, Ready, Watched, s
<1>9. CASE FloatScaleB
  BY <1>0, <1>9, ScaleBSafe, OtherCall DEF FloatScaleB, Binary, Ready, Watched, s
<1> QED BY <1>1, <1>2, <1>3, <1>4, <1>5, <1>6, <1>7, <1>8, <1>9

\* Comparisons.
LEMMA Compares ==
  ASSUME TypeOK,
         FloatCompare \/ FloatCompareSignal \/ FloatCompareTotal \/
           FloatCompareTotalMag \/ FloatMax \/ FloatMin \/ FloatMaxMag \/ FloatMinMag
  PROVE  StepOK
<1> DEFINE s == set
<1>0. Args \subseteq decFloat /\ s \in Setting /\ s.round = round
  BY ArgsAreFloats
<1> HIDE DEF s
<1>1. CASE FloatCompare
  BY <1>0, <1>1, CompareSafe, OtherCall DEF FloatCompare, Binary, Ready, Watched, s
<1>2. CASE FloatCompareSignal
  BY <1>0, <1>2, CompareSafe, OtherCall DEF FloatCompareSignal, Binary, Ready, Watched, s
<1>3. CASE FloatCompareTotal
  BY <1>0, <1>3, CompareTotalSafe, OtherCall DEF FloatCompareTotal, Binary, Ready, Watched, s
<1>4. CASE FloatCompareTotalMag
  BY <1>0, <1>4, CopiesSafe, OtherCall DEF FloatCompareTotalMag, Binary, Ready, Watched, s
<1>5. CASE FloatMax
  BY <1>0, <1>5, ExtremesSafe, OtherCall DEF FloatMax, Binary, Ready, Watched, s
<1>6. CASE FloatMin
  BY <1>0, <1>6, ExtremesSafe, OtherCall DEF FloatMin, Binary, Ready, Watched, s
<1>7. CASE FloatMaxMag
  BY <1>0, <1>7, ExtremesSafe, OtherCall DEF FloatMaxMag, Binary, Ready, Watched, s
<1>8. CASE FloatMinMag
  BY <1>0, <1>8, ExtremesSafe, OtherCall DEF FloatMinMag, Binary, Ready, Watched, s
<1> QED BY <1>1, <1>2, <1>3, <1>4, <1>5, <1>6, <1>7, <1>8

\* Signs, neighbours and digits.
LEMMA Changes ==
  ASSUME TypeOK,
         FloatPlus \/ FloatMinus \/ FloatAbs \/ FloatReduce \/ FloatNextPlus \/
           FloatNextMinus \/ FloatNextToward \/ FloatToIntegralExact \/
           FloatToIntegralValue \/ FloatLogB \/ FloatCopyAbs \/ FloatCopyNegate \/
           FloatCopySign \/ FloatShift \/ FloatRotate \/ FloatAnd \/ FloatOr \/
           FloatXor \/ FloatInvert
  PROVE  StepOK
<1> DEFINE s == set
<1>0. Args \subseteq decFloat /\ s \in Setting /\ s.round = round
  BY ArgsAreFloats
<1> HIDE DEF s
<1>1. CASE FloatPlus
  BY <1>0, <1>1, SignedSafe, OtherCall DEF FloatPlus, Unary, Ready, Watched, s
<1>2. CASE FloatMinus
  BY <1>0, <1>2, SignedSafe, OtherCall DEF FloatMinus, Unary, Ready, Watched, s
<1>3. CASE FloatAbs
  BY <1>0, <1>3, SignedSafe, OtherCall DEF FloatAbs, Unary, Ready, Watched, s
<1>4. CASE FloatReduce
  BY <1>0, <1>4, ReduceSafe, OtherCall DEF FloatReduce, Unary, Ready, Watched, s
<1>5. CASE FloatNextPlus
  BY <1>0, <1>5, NeighboursSafe, OtherCall DEF FloatNextPlus, Unary, Ready, Watched, s
<1>6. CASE FloatNextMinus
  BY <1>0, <1>6, NeighboursSafe, OtherCall DEF FloatNextMinus, Unary, Ready, Watched, s
<1>7. CASE FloatNextToward
  BY <1>0, <1>7, NeighboursSafe, OtherCall DEF FloatNextToward, Binary, Ready, Watched, s
<1>8. CASE FloatToIntegralExact
  BY <1>0, <1>8, IntegralsSafe, OtherCall DEF FloatToIntegralExact, Unary, Ready, Watched, s
<1>9. CASE FloatToIntegralValue
  BY <1>0, <1>9, IntegralsSafe, OtherCall DEF FloatToIntegralValue, Unary, Ready, Watched, s
<1>10. CASE FloatLogB
  BY <1>0, <1>10, LogBSafe, OtherCall DEF FloatLogB, Unary, Ready, Watched, s
<1>11. CASE FloatCopyAbs
  BY <1>0, <1>11, CopiesSafe, OtherCall DEF FloatCopyAbs, Unary, Ready, Watched, s
<1>12. CASE FloatCopyNegate
  BY <1>0, <1>12, CopiesSafe, OtherCall DEF FloatCopyNegate, Unary, Ready, Watched, s
<1>13. CASE FloatCopySign
  BY <1>0, <1>13, CopiesSafe, OtherCall DEF FloatCopySign, Binary, Ready, Watched, s
<1>14. CASE FloatShift
  BY <1>0, <1>14, ShiftSafe, OtherCall DEF FloatShift, Binary, Ready, Watched, s
<1>15. CASE FloatRotate
  BY <1>0, <1>15, ShiftSafe, OtherCall DEF FloatRotate, Binary, Ready, Watched, s
<1>16. CASE FloatAnd
  BY <1>0, <1>16, LogicalsSafe, OtherCall DEF FloatAnd, Binary, Ready, Watched, s
<1>17. CASE FloatOr
  BY <1>0, <1>17, LogicalsSafe, OtherCall DEF FloatOr, Binary, Ready, Watched, s
<1>18. CASE FloatXor
  BY <1>0, <1>18, LogicalsSafe, OtherCall DEF FloatXor, Binary, Ready, Watched, s
<1>19. CASE FloatInvert
  BY <1>0, <1>19, LogicalsSafe, OtherCall DEF FloatInvert, Unary, Ready, Watched, s
<1> QED BY <1>1, <1>2, <1>3, <1>4, <1>5, <1>6, <1>7, <1>8, <1>9, <1>10,
           <1>11, <1>12, <1>13, <1>14, <1>15, <1>16, <1>17, <1>18, <1>19

\* A fused multiply-add of literals.
LEMMA Fuses ==
  ASSUME TypeOK, FloatFMA PROVE StepOK
<1> DEFINE s == set
<1>1. s \in Setting
  BY ArgsAreFloats
<1>2. \A t \in Triples : t[1] \in decFloat /\ t[2] \in decFloat /\ t[3] \in decFloat
  BY FloatCalculatorAssumption
<1> HIDE DEF s
<1> QED BY <1>1, <1>2, FMASafe, OtherCall DEF FloatFMA, Ready, Watched, s

\* An integer goes to no register.
LEMMA ToIntegers ==
  ASSUME TypeOK, FloatToInt32 PROVE StepOK
<1> DEFINE s == set
<1>1. Args \subseteq decFloat /\ s \in Setting
  BY ArgsAreFloats
<1>2. PICK df \in Args, exact \in BOOLEAN, unsign \in BOOLEAN :
        LET out == decToInt32(df, s, round, exact, unsign)
        IN  /\ Report(IF unsign THEN "ToUInt32" ELSE "ToInt32", df, df, df, df, out.n, out.status)
            /\ UNCHANGED regs
  BY DEF FloatToInt32
<1> HIDE DEF s
<1> DEFINE out == decToInt32(df, s, round, exact, unsign)
           op == IF unsign THEN "ToUInt32" ELSE "ToInt32"
           n == out.n
           flags == out.status
<1>3. Report(op, df, df, df, df, n, flags) /\ regs' = regs
  BY <1>2
<1>4. flags \subseteq DEC_Flags
  <2>1. df \in decFloat /\ round \in Roundings
    BY <1>1, <1>2 DEF TypeOK
  <2>2. CASE unsign
    <3>1. unsign = TRUE
      BY <1>2, <2>2
    <3> QED BY <1>1, <2>1, <3>1, ToIntegralSafe
  <2>3. CASE ~unsign
    <3>1. unsign = FALSE
      BY <1>2, <2>3
    <3> QED BY <1>1, <2>1, <3>1, ToIntegralSafe
  <2> QED BY <2>2, <2>3
<1>5. op \in {"ToInt32", "ToUInt32"} /\ calls < MaxCalls /\ (op = "ToUInt32" <=> unsign)
  BY DEF FloatToInt32, Ready
<1>6. IntegerRight(df, round, unsign, n, flags)
  <2>1. df \in decFloat /\ round \in Roundings
    BY <1>1, <1>2 DEF TypeOK
  <2> QED BY <1>1, <1>2, <2>1, ToInt32Right
<1> HIDE DEF op, n, flags
<1>7. /\ status' \subseteq DEC_Flags /\ calls' \in 0 .. MaxCalls /\ round' \in Roundings
      /\ last'.op = op /\ last'.l = df /\ last'.int = n /\ last'.round = round
      /\ last'.status = flags
  BY <1>3, <1>4, <1>5, ReportIs
<1>8. regs' \in [Reg -> decFloat]
  BY <1>3 DEF TypeOK
<1>9. IntRange(unsign) = IF op = "ToUInt32" THEN 0 .. 2 * INT32MAX + 1
                                            ELSE -INT32MAX - 1 .. INT32MAX
  BY <1>5 DEF IntRange
<1>10. IntegersInRange'
  <2> DEFINE whole == Ref!RefToIntegral(AsNumber(df), round).n
             value == Ref!Signed(whole) * Power(10, IF whole.exp > 0 THEN whole.exp ELSE 0)
  <2>1. IF df.kind = "fin" /\ value \in IntRange(unsign)
        THEN n = value /\ flags \subseteq {"Inexact"}
        ELSE n = 0 /\ "Invalid_operation" \in flags
    BY <1>6 DEF IntegerRight
  <2> QED BY <1>7, <1>9, <2>1 DEF IntegersInRange
<1>11. NarrowingRounds' /\ PackedRoundTrip'
  BY <1>5, <1>7 DEF NarrowingRounds, PackedRoundTrip
<1> QED BY <1>7, <1>8, <1>10, <1>11 DEF StepOK, LastCallOK, TypeOK

\* The digits of one number with the exponent of another.
LEMMA SetsCoefficient ==
  ASSUME TypeOK, FloatSetCoefficient PROVE StepOK
<1>1. Args \subseteq decFloat
  BY ArgsAreFloats
<1> QED BY <1>1, SetCoefficientSafe, OtherCall DEF FloatSetCoefficient, Ready, Watched

\* What rounding into the format makes of a number, and of a special value.
Narrowed(out, neg, kind, coef, exp, mode) ==
  LET exact == Ref!RoundTo(neg, coef, exp, FormatOf(mode))
  IN  IF kind = "fin" THEN AsNumber(out.n) = exact.n /\ Told(exact.status) = out.status
      ELSE /\ out.n.kind = kind /\ out.n.neg = neg /\ out.status = {}
           /\ out.n.coef = IF kind = "inf" THEN 0 ELSE coef % Power(10, DECPMAX - 1)

LEMMA FinalizeNarrows ==
  ASSUME NEW neg \in BOOLEAN, NEW kind \in {"fin", "inf", "nan", "snan"}, NEW coef \in Nat,
         NEW exp \in Int, NEW s \in Setting
  PROVE  LET out == decFinalize([neg |-> neg, kind |-> kind, coef |-> coef, exp |-> exp], s)
         IN  Encodable(out) /\ Narrowed(out, neg, kind, coef, exp, s.round)
<1> DEFINE num == [neg |-> neg, kind |-> kind, coef |-> coef, exp |-> exp]
           out == decFinalize(num, s)
<1> SUFFICES Encodable(out) /\ Narrowed(out, neg, kind, coef, exp, s.round)
  OBVIOUS
<1>1. Encodable(out)
  BY FinalizeAny
<1>2. CASE kind = "fin"
  <2> DEFINE exact == Ref!RoundTo(neg, coef, exp, FormatOf(s.round))
  <2>1. out = decFinalize(bcdnum(neg, coef, exp), s)
    BY <1>2 DEF bcdnum
  <2>2. s.round \in Roundings
    BY DEF Setting
  <2> HIDE DEF out
  <2>3. AsNumber(out.n) = exact.n /\ out.status = Told(exact.status)
    BY <2>1, <2>2, FinalizeRounds
  <2> QED BY <1>1, <1>2, <2>3 DEF Narrowed
<1>3. CASE kind # "fin"
  <2>1. kind \in {"inf", "nan", "snan"}
    BY <1>3
  <2>2. /\ out.status = {} /\ out.n.neg = neg /\ out.n.kind = kind
        /\ out.n.coef = IF kind = "inf" THEN 0 ELSE coef % Power(10, DECPMAX - 1)
    BY <2>1, FinalizeSpecial
  <2> HIDE DEF out
  <2> QED BY <1>1, <1>3, <2>2 DEF Narrowed
<1> QED BY <1>2, <1>3

\* Then the call satisfies what is said of it.
LEMMA NarrowedOK ==
  ASSUME last'.op \in {"SetExponent", "FromWider"}, NEW out, NEW kind, NEW exp,
         last'.n = out.n, last'.status = out.status,
         kind = IF last'.op = "SetExponent" THEN last'.r.kind ELSE last'.l.kind,
         exp = IF last'.op = "SetExponent" THEN last'.r.exp ELSE last'.l.exp,
         Narrowed(out, last'.l.neg, kind, IF DFISINF(last'.l) THEN 0 ELSE last'.l.coef, exp,
                  last'.round)
  PROVE  LastCallOK'
<1> DEFINE coef == IF DFISINF(last'.l) THEN 0 ELSE last'.l.coef
<1>1. FormatContext' = FormatOf(last'.round)
  BY DEF FormatContext, FormatOf
<1>2. 0 % Power(10, DECPMAX - 1) = 0
  BY FullPower
<1>3. PackedRoundTrip' /\ IntegersInRange'
  BY DEF PackedRoundTrip, IntegersInRange
<1>4. CASE kind = "fin"
  BY <1>1, <1>3, <1>4 DEF Narrowed, NarrowingRounds, LastCallOK, DFISINF
<1>5. CASE kind # "fin"
  BY <1>1, <1>2, <1>3, <1>5 DEF Narrowed, NarrowingRounds, LastCallOK, DFISINF
<1> QED BY <1>4, <1>5

\* Any exponent is set, of a number and of a special value.
LEMMA SetsExponent ==
  ASSUME TypeOK, FloatSetExponent PROVE StepOK
<1> DEFINE s == set
<1>1. Args \subseteq decFloat /\ s \in Setting /\ s.round = round
  BY ArgsAreFloats
<1> HIDE DEF s
<1> DEFINE no == FALSE
           zero == 0
<1>2. PICK res \in Reg, df \in Args, kind \in {"fin", "inf", "nan"},
           exp \in DECQTINY - DECPMAX .. DECQMAX + DECPMAX :
        CallWith("SetExponent", res, df, Datum(no, kind, zero, exp), df,
                 decFloatSetExponent(df, s, kind, exp))
  BY DEF FloatSetExponent, s
<1> HIDE DEF no, zero
<1> DEFINE coef == IF DFISINF(df) THEN 0 ELSE df.coef
           num == [neg |-> df.neg, kind |-> kind, coef |-> coef, exp |-> exp]
           out == decFloatSetExponent(df, s, kind, exp)
           r == Datum(no, kind, zero, exp)
<1>3. /\ df \in decFloat /\ df.neg \in BOOLEAN /\ coef \in Nat /\ exp \in Int
      /\ kind \in {"fin", "inf", "nan", "snan"}
  BY <1>1, <1>2, DatumParts, FullPower, Format
<1>4. out = decFinalize(num, s)
  <2>1. decFloatGetCoefficient(df).coef = coef
    BY DEF decFloatGetCoefficient
  <2> HIDE DEF coef
  <2> QED BY <2>1 DEF decFloatSetExponent
<1>5. r.kind = kind /\ r.exp = exp
  BY DEF Datum, Encoding
<1>6. Encodable(out) /\ Narrowed(out, df.neg, kind, coef, exp, s.round)
  <2> HIDE DEF coef
  <2>1. LET o == decFinalize(num, s)
        IN  Encodable(o) /\ Narrowed(o, df.neg, kind, coef, exp, s.round)
    BY <1>1, <1>3, FinalizeNarrows, Zenon
  <2> HIDE DEF num
  <2> QED BY <1>4, <2>1
<1>7. calls < MaxCalls
  BY DEF FloatSetExponent, Ready
<1> HIDE DEF out, r
<1>8. /\ TypeOK'
      /\ last'.op = "SetExponent" /\ last'.l = df /\ last'.r = r /\ last'.n = out.n
      /\ last'.round = s.round /\ last'.status = out.status
  BY <1>1, <1>2, <1>6, <1>7, CallIs DEF out, r
<1>9. LastCallOK'
  BY <1>5, <1>6, <1>8, NarrowedOK
<1> QED BY <1>8, <1>9 DEF StepOK

\* A wider number is rounded into the format.
LEMMA Narrows ==
  ASSUME TypeOK, FloatFromWider PROVE StepOK
<1> DEFINE s == set
<1>1. Args \subseteq decFloat /\ s \in Setting /\ s.round = round
  BY ArgsAreFloats
<1> HIDE DEF s
<1>2. PICK res \in Reg, wider \in Wider \cup {decFloatToWider(df) : df \in Args} :
        CallWith("FromWider", res, wider, wider, wider, decFloatFromWider(wider, s))
  BY DEF FloatFromWider, s
<1> DEFINE num == [neg |-> wider.neg, kind |-> wider.kind, coef |-> wider.coef,
                   exp |-> wider.exp]
           out == decFloatFromWider(wider, s)
           kind == wider.kind
           coef == wider.coef
           exp == wider.exp
<1>3. /\ wider.neg \in BOOLEAN /\ kind \in {"fin", "inf", "nan", "snan"}
      /\ coef \in Nat /\ exp \in Int
  <2>1. wider \in WiderFloat \/ wider \in decFloat
    BY <1>1, <1>2, FloatCalculatorAssumption DEF decFloatToWider
  <2>2. CASE wider \in WiderFloat
    BY <2>2 DEF WiderFloat
  <2>3. CASE wider \in decFloat
    BY <2>3, DatumParts, FullPower, Format
  <2> QED BY <2>1, <2>2, <2>3
<1>4. out = decFinalize(num, s)
  BY DEF decFloatFromWider
<1>5. Encodable(out) /\ Narrowed(out, wider.neg, kind, coef, exp, s.round)
  <2>1. LET o == decFinalize(num, s)
        IN  Encodable(o) /\ Narrowed(o, wider.neg, kind, coef, exp, s.round)
    BY <1>1, <1>3, FinalizeNarrows, Zenon
  <2> HIDE DEF num
  <2> QED BY <1>4, <2>1
<1>6. calls < MaxCalls
  BY DEF FloatFromWider, Ready
<1> HIDE DEF out
<1>7. /\ TypeOK'
      /\ last'.op = "FromWider" /\ last'.l = wider /\ last'.n = out.n
      /\ last'.round = s.round /\ last'.status = out.status
  BY <1>1, <1>2, <1>5, <1>6, CallIs DEF out
<1> DEFINE digits == IF DFISINF(wider) THEN 0 ELSE coef
<1>8. Narrowed(out, wider.neg, kind, digits, exp, s.round)
  <2>1. CASE kind = "inf"
    BY <1>5, <2>1 DEF Narrowed
  <2>2. CASE kind # "inf"
    <3>1. digits = coef
      BY <2>2 DEF DFISINF
    <3> QED BY <1>5, <3>1
  <2> QED BY <2>1, <2>2
<1>9. LastCallOK'
  <2>1. kind = IF last'.op = "SetExponent" THEN last'.r.kind ELSE last'.l.kind
    BY <1>7
  <2>2. exp = IF last'.op = "SetExponent" THEN last'.r.exp ELSE last'.l.exp
    BY <1>7
  <2> QED BY <1>7, <1>8, <2>1, <2>2, NarrowedOK
<1> QED BY <1>7, <1>9 DEF StepOK

\* What was put away is read back, or the damage noticed.
LEMMA Unpacks ==
  ASSUME TypeOK, FloatPacked PROVE StepOK
<1>1. Args \subseteq decFloat /\ calls < MaxCalls
  BY ArgsAreFloats DEF FloatPacked, Ready
<1>2. PICK res \in Reg, df \in Args :
        LET image == decFloatToPacked(df)
        IN  \/ \E code \in SignCodes(df.neg) :
                 Unpack("Packed", res, df, [image EXCEPT !.packed.sign = code])
            \/ \E damaged \in Damages(image) : Unpack("Damaged", res, df, damaged)
  BY DEF FloatPacked
<1> DEFINE whole == decFloatToPacked(df)
           reg == regs[res]
<1>3. df \in decFloat /\ reg \in decFloat
  BY <1>1, <1>2 DEF TypeOK
<1>4. df.kind \in {"fin", "inf", "nan", "snan"} /\ df.coef \in 0 .. Power(10, DECPMAX) - 1
  BY <1>3, DatumParts
<1>5. ASSUME NEW code \in SignCodes(df.neg),
             Unpack("Packed", res, df, [whole EXCEPT !.packed.sign = code])
      PROVE  StepOK
  <2> DEFINE image == [whole EXCEPT !.packed.sign = code]
             got == decFloatFromPackedChecked(reg, image.kind, image.exp, image.packed)
             out == Quietly(got)
  <2>1. got = decCanonical(df)
    BY <1>3, PackedIs
  <2>2. CallWith("Packed", res, df, reg, df, out)
    BY <1>5 DEF Unpack
  <2>3. out.n = got /\ Encodable(out)
    <3> HIDE DEF got
    <3> QED BY <1>3, <2>1, Canonical, QuietlyEncodable, ReturnsFields
  <2> HIDE DEF out, got, reg
  <2>4. TypeOK' /\ last'.op = "Packed" /\ last'.l = df /\ last'.n = got
    BY <1>1, <2>2, <2>3, CallIs
  <2>5. LastCallOK'
    BY <2>1, <2>4 DEF LastCallOK, NarrowingRounds, PackedRoundTrip, IntegersInRange
  <2> QED BY <2>4, <2>5 DEF StepOK
<1>6. ASSUME NEW image \in Damages(whole), Unpack("Damaged", res, df, image)
      PROVE  StepOK
  <2> DEFINE got == decFloatFromPackedChecked(reg, image.kind, image.exp, image.packed)
             out == Quietly(got)
  <2>1. got = reg
    BY <1>3, DamagedIs
  <2>2. CallWith("Damaged", res, df, reg, df, out)
    BY <1>6 DEF Unpack
  <2>3. out.n = got /\ Encodable(out)
    <3> HIDE DEF got, reg
    <3> QED BY <1>3, <2>1, QuietlyEncodable, ReturnsFields
  <2> HIDE DEF out, got, reg
  <2>4. TypeOK' /\ last'.op = "Damaged" /\ last'.r = reg /\ last'.n = got
    BY <1>1, <2>2, <2>3, CallIs
  <2>5. LastCallOK'
    BY <2>1, <2>4 DEF LastCallOK, NarrowingRounds, PackedRoundTrip, IntegersInRange
  <2> QED BY <2>4, <2>5 DEF StepOK
<1> QED BY <1>2, <1>5, <1>6

-----------------------------------------------------------------------------
(***************************************************************************)
(* The inductive invariant: the registers and the flags are what the       *)
(* format can hold, and the last call did what is said of it.              *)
(***************************************************************************)
FloatInv == TypeOK /\ LastCallOK

LEMMA FloatInit == Init => FloatInv
<1> SUFFICES ASSUME Init PROVE FloatInv
  OBVIOUS
<1>1. regs \in [Reg -> decFloat] /\ round \in Roundings /\ status = {} /\ calls = 0
  BY ZeroIs, FloatCalculatorAssumption DEF Init
<1>2. TypeOK
  BY <1>1, FloatCalculatorAssumption DEF TypeOK
<1>3. last.op = "none"
  BY DEF Init, NoCall
<1> QED BY <1>2, <1>3 DEF FloatInv, LastCallOK, NarrowingRounds, PackedRoundTrip, IntegersInRange

LEMMA FloatStep == FloatInv /\ [Next]_vars => FloatInv'
<1> SUFFICES ASSUME FloatInv, [Next]_vars PROVE FloatInv'
  OBVIOUS
<1>1. TypeOK
  BY DEF FloatInv
<1>2. CASE UNCHANGED vars
  <2>1. TypeOK'
    BY <1>1, <1>2 DEF TypeOK, vars
  <2>2. LastCallOK'
    <3>1. last' = last
      BY <1>2 DEF vars
    <3>2. FormatContext' = FormatContext
      BY <3>1 DEF FormatContext
    <3> QED BY <3>1, <3>2 DEF FloatInv, LastCallOK, NarrowingRounds, PackedRoundTrip, IntegersInRange
  <2> QED BY <2>1, <2>2 DEF FloatInv
<1>3. CASE Next
  BY <1>1, <1>3, Calculates, Compares, Changes, Fuses, ToIntegers, SetsCoefficient,
     SetsExponent, Narrows, Unpacks DEF Next, StepOK, FloatInv
<1> QED BY <1>2, <1>3

LEMMA FloatInvAlways == Spec => []FloatInv
BY FloatInit, FloatStep, PTL DEF Spec

\* Every register always holds what the words of the format can encode: the
\* coefficient within its digits, the exponent between the lowest and the
\* highest, an infinity and a NaN what they have room for; and only flags of
\* the context are ever set.  Of any operation, in any rounding mode, in a
\* format of any size.
THEOREM FloatTypeOKAlways == Spec => []TypeOK
BY FloatInvAlways, PTL DEF FloatInv

\* decFinalize rounds once: a number narrowed into the format, or given another
\* exponent, is the exact one rounded into the format with its flags, whether it
\* is cut, tiny, an overflow, a zero or folded down; and a special value keeps
\* its kind, its sign and the payload there is room for.
THEOREM NarrowingRoundsAlways == Spec => []NarrowingRounds
BY FloatInvAlways, PTL DEF FloatInv, LastCallOK

\* A number put away as packed decimal is read back by the checked function as
\* it was, whichever of its sign codes it has, and damage leaves the register.
THEOREM PackedRoundTripAlways == Spec => []PackedRoundTrip
BY FloatInvAlways, PTL DEF FloatInv, LastCallOK

\* A conversion to an Int or a uInt returns the number rounded to an integer, in
\* whatever mode, exactly when that is in the range of the type (the most
\* negative one included, and a negative zero of a uInt), and otherwise zero
\* with Invalid_operation, also of what is too big to be quantized.
THEOREM IntegersInRangeAlways == Spec => []IntegersInRange
BY FloatInvAlways, PTL DEF FloatInv, LastCallOK
=============================================================================
