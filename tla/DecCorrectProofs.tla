--------------------------- MODULE DecCorrectProofs ---------------------------
(***************************************************************************)
(* What the rounding chain of decNumber.c leaves is the exact number,      *)
(* rounded once: for every precision, exponent range, mode, Unit size and  *)
(* length of coefficient.  From it, that operations return what they       *)
(* promise.                                                                *)
(***************************************************************************)
EXTENDS DecCalculator, DecPowersProofs

(***************************************************************************)
(* Powers of ten and lengths.                                              *)
(***************************************************************************)
LEMMA RefPower == ASSUME NEW n \in Nat PROVE Ref!Power(10, n) = TenTo[n]
<1>1. Ref!Power(10, n) = Power(10, n)
  BY DEF Ref!Power, Power
<1> QED BY <1>1, TenToIs

LEMMA RefDigits == ASSUME NEW c PROVE Ref!Digits(c) = Places(c, 10)
BY DEF Ref!Digits, Ref!Places, Places

LEMMA RefEtiny == ASSUME NEW set PROVE Ref!Etiny(set) = Etiny(set) /\ Ref!Etop(set) = Etop(set)
BY DEF Ref!Etiny, Ref!Etop, Etiny, Etop

LEMMA Ten == ASSUME NEW n \in Nat PROVE TenTo[n] \in Nat \ {0}
BY TenToIs, PowerType

LEMMA TenZero == TenTo[0] = 1
BY TenToIs, PowerZero

LEMMA TenNext == ASSUME NEW n \in Nat PROVE TenTo[n + 1] = 10 * TenTo[n]
<1>1. n + 1 \in Nat
  OBVIOUS
<1> QED BY <1>1, TenToIs, PowerNext

LEMMA TenBefore == ASSUME NEW n \in Nat \ {0} PROVE TenTo[n] = 10 * TenTo[n - 1]
<1>1. n - 1 \in Nat /\ (n - 1) + 1 = n
  OBVIOUS
<1> QED BY <1>1, TenNext

LEMMA TenSum == ASSUME NEW m \in Nat, NEW n \in Nat PROVE TenTo[m + n] = TenTo[m] * TenTo[n]
<1>1. m + n \in Nat /\ TenTo[m + n] = Power(10, m + n) /\ TenTo[m] = Power(10, m)
      /\ TenTo[n] = Power(10, n)
  BY TenToIs
<1>2. Power(10, m + n) = Power(10, m) * Power(10, n)
  BY PowerSum
<1> QED BY <1>1, <1>2

LEMMA TenMono == ASSUME NEW m \in Nat, NEW n \in Nat, m <= n PROVE TenTo[m] <= TenTo[n]
<1>1. Power(10, m) <= Power(10, n)
  BY PowerMono
<1> QED BY <1>1, TenToIs

LEMMA TenGap == ASSUME NEW m \in Nat, NEW n \in Nat, m < n PROVE 10 * TenTo[m] <= TenTo[n]
<1>1. 10 * Power(10, m) <= Power(10, n)
  BY PowerGap
<1> QED BY <1>1, TenToIs

\* The length of a coefficient, and the numbers of a length.
LEMMA Lengths ==
  ASSUME NEW c \in Nat
  PROVE  /\ Places(c, 10) \in Nat \ {0}
         /\ c < TenTo[Places(c, 10)]
         /\ c # 0 => c >= TenTo[Places(c, 10) - 1]
         /\ c = 0 => Places(c, 10) = 1
<1> DEFINE n == Places(c, 10)
<1>1. /\ n \in Nat \ {0} /\ c < Power(10, n) /\ (c # 0 => c >= Power(10, n - 1))
      /\ (c = 0 => n = 1)
  BY PlacesBounds, PlacesStep
<1> HIDE DEF n
<1>2. n - 1 \in Nat /\ n \in Nat
  BY <1>1
<1>3. TenTo[n] = Power(10, n) /\ TenTo[n - 1] = Power(10, n - 1)
  BY <1>2, TenToIs
<1>4. n \in Nat \ {0} /\ c < TenTo[n] /\ (c # 0 => c >= TenTo[n - 1]) /\ (c = 0 => n = 1)
  BY <1>1, <1>3
<1> QED BY <1>4 DEF n

LEMMA PlacesZero == Places(0, 10) = 1
<1>1. 0 \in Nat
  OBVIOUS
<1> QED BY <1>1, Lengths

LEMMA LengthIs ==
  ASSUME NEW c \in Nat, NEW n \in Nat \ {0}, c < TenTo[n], c >= TenTo[n - 1]
  PROVE  Places(c, 10) = n
<1>1. n - 1 \in Nat /\ (n - 1) + 1 = n /\ n \in Nat
  OBVIOUS
<1>2. c < Power(10, (n - 1) + 1) /\ c >= Power(10, n - 1)
  BY <1>1, TenToIs
<1>3. Places(c, 10) = (n - 1) + 1
  BY <1>1, <1>2, PlacesUnique
<1> QED BY <1>1, <1>3

\* Digits cut from the right, and zeros put there.
LEMMA CutLength ==
  ASSUME NEW c \in Nat, NEW k \in Nat, k < Places(c, 10), c # 0
  PROVE  c \div TenTo[k] \in Nat \ {0} /\ Places(c \div TenTo[k], 10) = Places(c, 10) - k
<1> DEFINE n == Places(c, 10)
<1>1. n \in Nat \ {0} /\ c >= TenTo[n - 1] /\ n - 1 \in Nat /\ k <= n - 1
  BY Lengths
<1> HIDE DEF n
<1>2. TenTo[k] <= TenTo[n - 1] /\ TenTo[k] \in Nat /\ TenTo[n - 1] \in Nat
  BY <1>1, TenMono, Ten
<1>3. c >= Power(10, k) /\ TenTo[k] = Power(10, k)
  BY <1>1, <1>2, TenToIs
<1>4. c \div TenTo[k] \in Nat \ {0} /\ n = k + Places(c \div TenTo[k], 10)
  BY <1>3, PlacesShift DEF n
<1>5. Places(c \div TenTo[k], 10) \in Nat
  BY <1>4, Lengths
<1> QED BY <1>1, <1>4, <1>5 DEF n

LEMMA PadLength ==
  ASSUME NEW c \in Nat \ {0}, NEW k \in Nat
  PROVE  /\ c * TenTo[k] \in Nat \ {0}
         /\ Places(c * TenTo[k], 10) = Places(c, 10) + k
<1> DEFINE n == Places(c, 10)
           f == TenTo[k]
           x == TenTo[n]
           y == TenTo[n - 1]
<1>1. n \in Nat \ {0} /\ n - 1 \in Nat /\ c < x /\ c >= y
  BY Lengths
<1> HIDE DEF n
<1>2. f \in Nat \ {0} /\ x \in Nat \ {0} /\ y \in Nat \ {0}
  BY <1>1, Ten
<1>3. TenTo[n + k] = x * f /\ TenTo[(n - 1) + k] = y * f
  BY <1>1, TenSum
<1>4. n + k \in Nat \ {0} /\ (n - 1) + k = (n + k) - 1
  BY <1>1
<1>5. c * f < x * f /\ c * f >= y * f /\ c * f \in Nat \ {0}
  <2> HIDE DEF f, x, y
  <2> QED BY <1>1, <1>2
<1>6. Places(c * f, 10) = n + k
  BY <1>3, <1>4, <1>5, LengthIs
<1> QED BY <1>5, <1>6 DEF n
-----------------------------------------------------------------------------
(***************************************************************************)
(* A residue stands to zero and to five as the rest cut off stands to zero *)
(* and to one half.                                                        *)
(***************************************************************************)
Tells(residue, rest, unit) == /\ residue \in Nat
                              /\ residue = 0 <=> rest = 0
                              /\ residue > 5 <=> 2 * rest > unit
                              /\ residue = 5 <=> 2 * rest = unit

\* What is cut off in two steps: first down to T, then down to T * B.
LEMMA SplitTail ==
  ASSUME NEW x \in Nat, NEW t \in Nat \ {0}, NEW b \in Nat \ {0}
  PROVE  /\ x \div (t * b) = (x \div t) \div b
         /\ x % (t * b) = ((x \div t) % b) * t + (x % t)
<1> DEFINE y == x \div t
           r == x % t
           q == y \div b
           u == y % b
<1>1. x = y * t + r /\ r \in 0 .. t - 1 /\ y \in Nat
  <2>1. x \in Int /\ x \div t \in Nat
    OBVIOUS
  <2> QED BY <2>1, DivMod
<1> HIDE DEF y, r
<1>2. y = q * b + u /\ u \in 0 .. b - 1 /\ q \in Nat
  <2>1. y \in Int /\ y \div b \in Nat
    BY <1>1
  <2> QED BY <2>1, DivMod
<1> HIDE DEF q, u
<1> DEFINE m == t * b
           s == u * t + r
<1>3. m \in Nat \ {0} /\ s \in 0 .. m - 1
  <2>1. u * t <= (b - 1) * t /\ u * t \in Nat
    BY <1>2
  <2>2. (b - 1) * t = m - t /\ m \in Nat
    OBVIOUS
  <2>3. m > 0
    OBVIOUS
  <2> HIDE DEF m
  <2> QED BY <1>1, <1>2, <2>1, <2>2, <2>3
<1>4. x = q * m + s
  <2>1. (q * b + u) * t = q * (t * b) + u * t
    BY <1>2
  <2> QED BY <1>1, <1>2, <2>1
<1> HIDE DEF m, s
<1>5. x \div m = q /\ x % m = s
  BY <1>2, <1>3, <1>4, DivUnique
<1> QED BY <1>5 DEF m, s, q, u, y, r

\* Half of a unit of 2h parts.
LEMMA HalfTells ==
  ASSUME NEW h \in Nat \ {0}, NEW t \in Nat \ {0}, NEW u \in 0 .. 2 * h - 1,
         NEW r \in 0 .. t - 1
  PROVE  /\ u * t + r = 0 <=> u = 0 /\ r = 0
         /\ 2 * (u * t + r) > t * (2 * h) <=> u > h \/ (u = h /\ r # 0)
         /\ 2 * (u * t + r) = t * (2 * h) <=> u = h /\ r = 0
<1>1. u * t \in Nat /\ h * t \in Nat /\ t * (2 * h) = 2 * (h * t)
  OBVIOUS
<1>2. CASE u > h
  <2>1. u * t >= (h + 1) * t /\ (h + 1) * t = h * t + t
    BY <1>2
  <2> QED BY <1>1, <1>2, <2>1
<1>3. CASE u = h
  <2>1. u * t > 0
    BY <1>3
  <2> QED BY <1>1, <1>3, <2>1
<1>4. CASE u < h
  <2>1. (u + 1) * t <= h * t /\ (u + 1) * t = u * t + t
    BY <1>4
  <2>2. u = 0 => u * t = 0
    OBVIOUS
  <2>3. u # 0 => u * t > 0
    OBVIOUS
  <2> QED BY <1>1, <1>4, <2>1, <2>2, <2>3
<1> QED BY <1>2, <1>3, <1>4

\* The residue decSetCoeff finds for digits cut off below a digit or a Unit of
\* 2h, when what was cut off before (the rest of e below unit) is told by old.
StepTold(e, unit, g, h, old) ==
  LET coef == e \div unit
      s == IF coef % g # 0 THEN 1 ELSE old
      u == (coef \div g) % (2 * h)
      rest == e % ((unit * g) * (2 * h))
      whole == (unit * g) * (2 * h)
  IN  /\ u \in 0 .. 2 * h - 1 /\ s \in {0, 1}
      /\ rest = 0 <=> u = 0 /\ s = 0
      /\ 2 * rest > whole <=> u > h \/ (u = h /\ s # 0)
      /\ 2 * rest = whole <=> u = h /\ s = 0

LEMMA StepTells ==
  ASSUME NEW e \in Nat, NEW unit \in Nat \ {0}, NEW g \in Nat \ {0}, NEW h \in Nat \ {0},
         NEW old \in {0, 1}, old = 0 <=> e % unit = 0
  PROVE  StepTold(e, unit, g, h, old)
<1> DEFINE coef == e \div unit
           s == IF coef % g # 0 THEN 1 ELSE old
           u == (coef \div g) % (2 * h)
           t == unit * g
           b == 2 * h
           r == e % t
<1>1. t \in Nat \ {0} /\ b \in Nat \ {0} /\ coef \in Nat
  OBVIOUS
<1>2. e \div t = coef \div g
  BY SplitTail
<1>3. r = (coef % g) * unit + (e % unit)
  BY SplitTail
<1>4. r = 0 <=> s = 0
  <2> DEFINE v == coef % g
             w == e % unit
  <2>1. v \in Nat /\ w \in Nat
    BY <1>1
  <2> HIDE DEF v, w, coef
  <2>2. v # 0 => v * unit > 0
    BY <2>1
  <2>3. v * unit \in Nat
    BY <2>1
  <2>4. v = 0 => v * unit = 0
    BY <2>1
  <2>5. v * unit + w = 0 <=> v = 0 /\ w = 0
    BY <2>1, <2>2, <2>3, <2>4
  <2>6. s = IF v # 0 THEN 1 ELSE old
    BY DEF s, v
  <2> QED BY <1>3, <2>5, <2>6 DEF v, w
<1>5. e % (t * b) = ((e \div t) % b) * t + r
  BY <1>1, SplitTail
<1>6. e % (t * b) = u * t + r
  BY <1>2, <1>5
<1>7. u \in 0 .. 2 * h - 1 /\ s \in {0, 1} /\ r \in 0 .. t - 1
  <2>1. coef \div g \in Nat
    BY <1>1
  <2> HIDE DEF coef, t
  <2> QED BY <1>1, <2>1
<1> HIDE DEF coef, s, u, t, r
<1>8. /\ u * t + r = 0 <=> u = 0 /\ r = 0
      /\ 2 * (u * t + r) > t * (2 * h) <=> u > h \/ (u = h /\ r # 0)
      /\ 2 * (u * t + r) = t * (2 * h) <=> u = h /\ r = 0
  BY <1>1, <1>7, HalfTells
<1> DEFINE rest == e % (t * b)
<1>9. rest = u * t + r
  BY <1>6
<1> HIDE DEF rest
<1>10. /\ rest = 0 <=> u = 0 /\ s = 0
       /\ 2 * rest > t * (2 * h) <=> u > h \/ (u = h /\ s # 0)
       /\ 2 * rest = t * (2 * h) <=> u = h /\ s = 0
  BY <1>4, <1>8, <1>9
<1> QED BY <1>7, <1>10 DEF rest, t, coef, s, u, StepTold

LEMMA DropTells ==
  ASSUME NEW e \in Nat, NEW d \in Nat, NEW discard \in Nat \ {0},
         NEW old \in {0, 1}, old = 0 <=> e % TenTo[d] = 0
  PROVE  Tells(DropResidue(e \div TenTo[d], discard, old),
               e % TenTo[d + discard], TenTo[d + discard])
<1> DEFINE unit == TenTo[d]
           coef == e \div unit
           whole == TenTo[d + discard]
           res == DropResidue(coef, discard, old)
<1>0. unit \in Nat \ {0} /\ DECDPUN \in Nat \ {0}
  BY Ten, UnitAssumption
<1>3. old = 0 <=> e % unit = 0
  OBVIOUS
<1>1. CASE discard % DECDPUN = 0
  <2> DEFINE k == discard - DECDPUN
             g == TenTo[k]
             b == TenTo[DECDPUN]
             h == 5 * TenTo[DECDPUN - 1]
             s == IF coef % g # 0 THEN 1 ELSE old
             u == (coef \div g) % b
  <2>1. k \in Nat
    <3>1. discard = (discard \div DECDPUN) * DECDPUN + (discard % DECDPUN)
          /\ discard \div DECDPUN \in Int
      BY <1>0, DivMod
    <3> DEFINE m == discard \div DECDPUN
    <3>2. discard = m * DECDPUN /\ m \in Int
      BY <1>0, <1>1, <3>1
    <3> HIDE DEF m
    <3>3. m >= 1
      <4> SUFFICES ASSUME m <= 0 PROVE FALSE
        BY <3>2
      <4>1. m * DECDPUN <= 0
        BY <1>0, <3>2
      <4> QED BY <3>2, <4>1
    <3>4. m * DECDPUN >= DECDPUN
      BY <1>0, <3>2, <3>3
    <3> QED BY <1>0, <3>2, <3>4
  <2>2. DECDPUN - 1 \in Nat /\ b = 10 * TenTo[DECDPUN - 1] /\ TenTo[DECDPUN - 1] \in Nat \ {0}
    BY <1>0, TenBefore, Ten
  <2>3. g \in Nat \ {0} /\ h \in Nat \ {0} /\ b = 2 * h /\ b \div 2 = h
    <3>1. g \in Nat \ {0}
      BY <2>1, Ten
    <3> QED BY <2>2, <3>1
  <2>4. whole = (unit * g) * b
    <3>1. d + discard = (d + k) + DECDPUN /\ d + k \in Nat
      BY <2>1, <1>0
    <3> HIDE DEF k
    <3>2. TenTo[(d + k) + DECDPUN] = TenTo[d + k] * b /\ TenTo[d + k] = unit * g
      BY <3>1, <2>1, <1>0, TenSum
    <3> QED BY <3>1, <3>2 DEF StepTold
  <2>5. res = CASE u > h -> 7 [] u = h -> s + 5 [] u < h /\ u # 0 -> 3 [] OTHER -> s
    BY <1>1, <2>3 DEF DropResidue, BoundaryResidue
  <2>6. /\ u \in 0 .. 2 * h - 1 /\ s \in {0, 1}
        /\ e % whole = 0 <=> u = 0 /\ s = 0
        /\ 2 * (e % whole) > whole <=> u > h \/ (u = h /\ s # 0)
        /\ 2 * (e % whole) = whole <=> u = h /\ s = 0
    <3> HIDE DEF g, h, b, unit
    <3>1. StepTold(e, unit, g, h, old)
      BY <1>0, <1>3, <2>3, StepTells
    <3>2. (unit * g) * (2 * h) = whole /\ (coef \div g) % (2 * h) = u
      BY <2>3, <2>4
    <3> HIDE DEF whole
    <3> QED BY <3>1, <3>2 DEF StepTold
  <2> HIDE DEF whole, u, s, h, res
  <2> QED BY <2>3, <2>5, <2>6 DEF Tells, whole, res
<1>2. CASE discard % DECDPUN # 0
  <2> DEFINE k == discard - 1
             g == TenTo[k]
             s == IF coef % g # 0 THEN 1 ELSE old
             u == (coef \div g) % 10
  <2>1. k \in Nat /\ g \in Nat \ {0}
    BY Ten
  <2>2. whole = (unit * g) * 10
    <3>1. d + discard = (d + k) + 1 /\ d + k \in Nat
      BY <2>1
    <3> HIDE DEF k
    <3>2. TenTo[(d + k) + 1] = 10 * TenTo[d + k] /\ TenTo[d + k] = unit * g
      BY <3>1, <2>1, TenSum, TenNext
    <3> QED BY <3>1, <3>2, <1>0, <2>1
  <2>3. res = s + resmap(u)
    BY <1>2 DEF DropResidue, GuardResidue
  <2>4. /\ u \in 0 .. 9 /\ s \in {0, 1}
        /\ e % whole = 0 <=> u = 0 /\ s = 0
        /\ 2 * (e % whole) > whole <=> u > 5 \/ (u = 5 /\ s # 0)
        /\ 2 * (e % whole) = whole <=> u = 5 /\ s = 0
    <3> HIDE DEF g, unit
    <3> DEFINE h == 5
    <3>2. h \in Nat \ {0} /\ 2 * h = 10 /\ 2 * h - 1 = 9
      OBVIOUS
    <3> HIDE DEF h
    <3>3. StepTold(e, unit, g, h, old)
      BY <1>0, <1>3, <2>1, <3>2, StepTells
    <3>4. (unit * g) * (2 * h) = whole /\ (coef \div g) % (2 * h) = u
      BY <2>2, <3>2
    <3> HIDE DEF whole
    <3>5. /\ u \in 0 .. 2 * h - 1 /\ s \in {0, 1}
          /\ e % whole = 0 <=> u = 0 /\ s = 0
          /\ 2 * (e % whole) > whole <=> u > h \/ (u = h /\ s # 0)
          /\ 2 * (e % whole) = whole <=> u = h /\ s = 0
      BY <3>3, <3>4 DEF StepTold
    <3> QED BY <3>5, <3>2 DEF h
  <2>5. resmap(u) = IF u = 0 THEN 0 ELSE IF u < 5 THEN 3 ELSE IF u = 5 THEN 5 ELSE 7
    <3> HIDE DEF u
    <3> QED BY <2>4 DEF resmap
  <2> HIDE DEF whole, u, s, res
  <2> QED BY <2>3, <2>4, <2>5 DEF Tells, whole, res
<1> QED BY <1>1, <1>2

\* A finite number.
Fin(neg, digits, coef, exp) ==
  [neg |-> neg, kind |-> "fin", digits |-> digits, coef |-> coef, exp |-> exp]

\* Fields that are set together are set in turn.
LEMMA InTurn ==
  ASSUME NEW n, NEW cf, NEW dg, NEW by
  PROVE  /\ [n EXCEPT !.coef = cf, !.digits = dg] = [[n EXCEPT !.coef = cf] EXCEPT !.digits = dg]
         /\ [n EXCEPT !.coef = cf, !.digits = dg, !.exp = @ + by] =
               [[[n EXCEPT !.coef = cf] EXCEPT !.digits = dg] EXCEPT !.exp = @ + by]
OBVIOUS

\* The flags of digits cut off.
CutFlags(rest) == {"Rounded"} \cup When(rest # 0, {"Inexact"})

\* Nothing is cut off a coefficient that is short enough.
LEMMA ShortCut ==
  ASSUME NEW neg, NEW dg, NEW cf, NEW exp, NEW coef, NEW len \in Int, NEW length \in Int,
         len <= length, NEW st
  PROVE  decSetCoeff(Work(Fin(neg, dg, cf, exp), 0, st), length, coef, len)
           = Work(Fin(neg, len, coef, exp), 0, st)
<1>1. len - length <= 0
  OBVIOUS
<1> DEFINE n == Fin(neg, dg, cf, exp)
           n1 == [n EXCEPT !.coef = coef]
           n2 == [n1 EXCEPT !.digits = len]
           w == Work(n, 0, st)
<1>2. w.n = n /\ w.residue = 0 /\ w.status = st
  BY DEF Work
<1>3. n1 = Fin(neg, dg, coef, exp)
  BY DEF Fin
<1> HIDE DEF n1
<1>4. n2 = Fin(neg, len, coef, exp)
  BY <1>3 DEF Fin
<1>5. n2 = [n EXCEPT !.coef = coef, !.digits = len]
  BY InTurn DEF n1
<1> HIDE DEF n, w, n2
<1>6. decSetCoeff(w, length, coef, len)
        = Inexactly(Work([n EXCEPT !.coef = coef, !.digits = len], 0, st))
  BY <1>1, <1>2 DEF decSetCoeff, Holding
<1>7. Inexactly(Work(n2, 0, st)) = Work(n2, 0, st)
  BY DEF Inexactly, Flagged, Work, When
<1> QED BY <1>4, <1>5, <1>6, <1>7 DEF n, w

\* What is left when digits are cut off.
LeftOver(neg, exp, res, st, length, coef, len) ==
  LET discard == len - length
      old == IF res > 1 THEN 1 ELSE res
      r == IF discard > len THEN IF old <= 0 /\ coef # 0 THEN 1 ELSE old
           ELSE DropResidue(coef, discard, old)
      c == IF length <= 0 THEN 0 ELSE coef \div TenTo[discard]
      d == IF length <= 0 THEN 1 ELSE length
  IN  Inexactly(Work(Fin(neg, d, c, exp + discard), r, st \cup {"Rounded"}))

LEMMA Cut ==
  ASSUME NEW neg, NEW dg, NEW cf, NEW exp, NEW res, NEW st, NEW length, NEW coef, NEW len,
         ~(len - length <= 0)
  PROVE  decSetCoeff(Work(Fin(neg, dg, cf, exp), res, st), length, coef, len)
           = LeftOver(neg, exp, res, st, length, coef, len)
<1> DEFINE discard == len - length
           old == IF res > 1 THEN 1 ELSE res
           r == IF discard > len THEN IF old <= 0 /\ coef # 0 THEN 1 ELSE old
                ELSE DropResidue(coef, discard, old)
           c == IF length <= 0 THEN 0 ELSE coef \div TenTo[discard]
           d == IF length <= 0 THEN 1 ELSE length
           n == Fin(neg, dg, cf, exp)
           n1 == [n EXCEPT !.coef = c]
           n2 == [n1 EXCEPT !.digits = d]
           n3 == [n2 EXCEPT !.exp = @ + discard]
           w == Work(n, res, st)
<1>1. w.n = n /\ w.residue = res /\ w.status = st
  BY DEF Work
<1>2. n1 = Fin(neg, dg, c, exp)
  <2> HIDE DEF c
  <2> QED BY DEF Fin
<1> HIDE DEF n1
<1>3. n2 = Fin(neg, d, c, exp)
  <2> HIDE DEF c, d
  <2> QED BY <1>2 DEF Fin
<1> HIDE DEF n2
<1>4. n3 = Fin(neg, d, c, exp + discard)
  <2> HIDE DEF c, d, discard
  <2> QED BY <1>3 DEF Fin
<1>5. n3 = [n EXCEPT !.coef = c, !.digits = d, !.exp = @ + discard]
  <2> HIDE DEF c, d, discard, n
  <2> QED BY InTurn DEF n1, n2
<1> HIDE DEF n, w, n3
<1>6. decSetCoeff(w, length, coef, len)
        = Inexactly(Work([n EXCEPT !.coef = c, !.digits = d, !.exp = @ + discard], r, st \cup {"Rounded"}))
  BY <1>1 DEF decSetCoeff
<1> HIDE DEF c, d, discard, r
<1>7. decSetCoeff(w, length, coef, len)
        = Inexactly(Work(Fin(neg, d, c, exp + discard), r, st \cup {"Rounded"}))
  BY <1>4, <1>5, <1>6
<1> QED BY <1>7 DEF n, w, c, d, discard, r, LeftOver

\* All digits and more are cut off.
LEMMA AllCut ==
  ASSUME NEW e \in Nat \ {0}, NEW d \in Nat, NEW k \in Nat,
         k > d + Places(e \div TenTo[d], 10)
  PROVE  e \div TenTo[k] = 0 /\ e % TenTo[k] = e /\ 2 * e < TenTo[k]
<1> DEFINE unit == TenTo[d]
           q == e \div unit
           n == Places(q, 10)
           top == TenTo[n]
           w == TenTo[k]
<1>1. unit \in Nat \ {0} /\ q \in Nat /\ e = q * unit + (e % unit) /\ e % unit \in 0 .. unit - 1
  <2>1. unit \in Nat \ {0}
    BY Ten
  <2> HIDE DEF unit
  <2>2. e \in Int /\ q \in Nat
    BY <2>1
  <2> QED BY <2>1, <2>2, DivMod
<1>2. n \in Nat \ {0} /\ q < top
  <2> HIDE DEF q
  <2> QED BY <1>1, Lengths
<1>3. top \in Nat \ {0} /\ w \in Nat \ {0}
  BY <1>2, Ten
<1>4. TenTo[d + n] = unit * top
  BY <1>2, TenSum
<1>5. 10 * TenTo[d + n] <= w
  <2>1. d + n \in Nat /\ d + n < k
    BY <1>2
  <2> QED BY <2>1, TenGap
<1> HIDE DEF unit, q, n, top, w
<1>6. (q + 1) * unit <= top * unit /\ (q + 1) * unit = q * unit + unit
  BY <1>1, <1>2, <1>3
<1>7. e < unit * top /\ 10 * (unit * top) <= w
  BY <1>1, <1>3, <1>4, <1>5, <1>6 DEF n
<1>8. 2 * e < w /\ e < w
  <2>1. unit * top \in Nat
    BY <1>1, <1>3
  <2> DEFINE ut == unit * top
  <2> HIDE DEF ut
  <2>2. ut \in Nat /\ e < ut /\ 10 * ut <= w
    BY <1>7, <2>1 DEF ut
  <2> QED BY <1>3, <2>2
<1>9. e \div w = 0 /\ e % w = e
  BY <1>3, <1>8
<1> QED BY <1>8, <1>9 DEF w

\* Digits are cut off a coefficient of len digits, which is itself what is left
\* of e without its last d digits: as if all k had been cut off at once.
CutAtOnce(neg, dg, cf, e, d, x, length, len, res, st) ==
  LET k == d + (len - length)
  IN  /\ k \in Nat /\ k > d
      /\ \E r : /\ Tells(r, e % TenTo[k], TenTo[k])
                /\ decSetCoeff(Work(Fin(neg, dg, cf, x + d), res, st), length, e \div TenTo[d], len)
                     = Work(Fin(neg, IF length <= 0 THEN 1 ELSE length, e \div TenTo[k], x + k),
                            r, st \cup CutFlags(e % TenTo[k]))

LEMMA CutRight ==
  ASSUME NEW neg, NEW dg, NEW cf, NEW e \in Nat \ {0}, NEW d \in Nat, NEW x \in Int,
         e \div TenTo[d] # 0, NEW length \in Int,
         length < Places(e \div TenTo[d], 10),
         NEW res, Tells(res, e % TenTo[d], TenTo[d]), NEW st
  PROVE  CutAtOnce(neg, dg, cf, e, d, x, length, Places(e \div TenTo[d], 10), res, st)
<1> DEFINE coef == e \div TenTo[d]
           len == Places(coef, 10)
           discard == len - length
           k == d + discard
           old == IF res > 1 THEN 1 ELSE res
           r == IF discard > len THEN IF old <= 0 /\ coef # 0 THEN 1 ELSE old
                                 ELSE DropResidue(coef, discard, old)
           w == Work(Fin(neg, dg, cf, x + d), res, st)
           short == Fin(neg, IF length <= 0 THEN 1 ELSE length, e \div TenTo[k], x + k)
<1>1. coef \in Nat \ {0} /\ TenTo[d] \in Nat \ {0}
  <2>1. TenTo[d] \in Nat \ {0}
    BY Ten
  <2> QED BY <2>1
<1>2. len \in Nat \ {0} /\ coef < TenTo[len]
  <2> HIDE DEF coef
  <2> QED BY <1>1, Lengths
<1>3. discard \in Nat \ {0} /\ k \in Nat /\ k > d
  <2> HIDE DEF len
  <2>1. length < len
    BY DEF len
  <2> QED BY <1>2, <2>1
<1>4. old \in {0, 1} /\ (old = 0 <=> e % TenTo[d] = 0)
  BY DEF Tells
<1>5. Tells(r, e % TenTo[k], TenTo[k])
  <2>1. CASE discard > len
    <3>1. r = 1
      BY <1>1, <1>4, <2>1
    <3>2. k > d + len
      BY <1>2, <2>1
    <3>3. e % TenTo[k] = e /\ 2 * e < TenTo[k]
      BY <1>3, <3>2, AllCut
    <3> DEFINE u == TenTo[k]
    <3>4. u \in Nat
      <4> HIDE DEF k
      <4> QED BY <1>3, Ten
    <3>5. e % u = e /\ 2 * e < u
      BY <3>3
    <3> HIDE DEF r, u
    <3>6. Tells(r, e % u, u)
      BY <3>1, <3>4, <3>5 DEF Tells
    <3> QED BY <3>6 DEF u
  <2>2. CASE discard <= len
    <3>1. r = DropResidue(coef, discard, old)
      BY <1>2, <1>3, <2>2
    <3> HIDE DEF old, len, r
    <3>2. Tells(DropResidue(e \div TenTo[d], discard, old),
                e % TenTo[d + discard], TenTo[d + discard])
      <4> HIDE DEF discard
      <4> QED BY <1>3, <1>4, DropTells
    <3> QED BY <3>1, <3>2
  <2> HIDE DEF r
  <2> QED BY <1>2, <1>3, <2>1, <2>2
<1>6. e \div TenTo[k] = IF length <= 0 THEN 0 ELSE coef \div TenTo[discard]
  <2>1. TenTo[k] = TenTo[d] * TenTo[discard] /\ TenTo[discard] \in Nat \ {0}
    <3> HIDE DEF discard
    <3> QED BY <1>3, TenSum, Ten
  <2>2. e \div TenTo[k] = coef \div TenTo[discard]
    <3> DEFINE a == TenTo[d]
               b == TenTo[discard]
    <3>1. e \div (a * b) = (e \div a) \div b
      <4> HIDE DEF a, b
      <4> QED BY <1>1, <2>1, SplitTail DEF a, b
    <3> QED BY <2>1, <3>1
  <2>3. length <= 0 => coef \div TenTo[discard] = 0
    <3> SUFFICES ASSUME length <= 0 PROVE coef \div TenTo[discard] = 0
      OBVIOUS
    <3>1. TenTo[len] <= TenTo[discard]
      <4>1. len <= discard
        BY <1>2
      <4> HIDE DEF len, discard
      <4> QED BY <1>2, <1>3, <4>1, TenMono
    <3>2. TenTo[len] \in Nat
      <4> HIDE DEF len
      <4> QED BY <1>2, Ten
    <3> DEFINE b == TenTo[discard]
    <3>3. b \in Nat \ {0} /\ coef < b
      <4> HIDE DEF coef
      <4> QED BY <1>1, <1>2, <2>1, <3>1, <3>2
    <3> HIDE DEF b, coef
    <3>4. coef \div b = 0
      BY <1>1, <3>3
    <3> QED BY <3>4 DEF b
  <2> HIDE DEF coef, discard, k
  <2> QED BY <2>2, <2>3
<1>7. decSetCoeff(w, length, coef, len) = Inexactly(Work(short, r, st \cup {"Rounded"}))
  <2> DEFINE c == IF length <= 0 THEN 0 ELSE coef \div TenTo[discard]
             dd == IF length <= 0 THEN 1 ELSE length
             y == x + d
  <2>1. y + discard = x + k
    BY <1>3
  <2>2. short = Fin(neg, dd, c, y + discard)
    <3> HIDE DEF coef, discard, k, y
    <3> QED BY <1>6, <2>1
  <2>3. ~(discard <= 0)
    BY <1>3
  <2>4. decSetCoeff(Work(Fin(neg, dg, cf, y), res, st), length, coef, len)
          = Inexactly(Work(Fin(neg, dd, c, y + discard), r, st \cup {"Rounded"}))
    <3>1. decSetCoeff(Work(Fin(neg, dg, cf, y), res, st), length, coef, len)
            = LeftOver(neg, y, res, st, length, coef, len)
      <4> HIDE DEF coef, len, y
      <4> QED BY <2>3, Cut
    <3> HIDE DEF coef, len, y
    <3> QED BY <3>1 DEF LeftOver
  <2> HIDE DEF short, r, c, discard, coef, len
  <2> QED BY <2>2, <2>4 DEF y
<1>8. Inexactly(Work(short, r, st \cup {"Rounded"})) = Work(short, r, st \cup CutFlags(e % TenTo[k]))
  <2>1. r # 0 <=> e % TenTo[k] # 0
    BY <1>5 DEF Tells
  <2> DEFINE rest == e % TenTo[k]
  <2> HIDE DEF r, short, rest
  <2> QED BY <2>1 DEF Inexactly, Flagged, Work, When, CutFlags, rest
<1> HIDE DEF w, short, r
<1>9. /\ Tells(r, e % TenTo[k], TenTo[k])
      /\ decSetCoeff(w, length, coef, len) = Work(short, r, st \cup CutFlags(e % TenTo[k]))
  BY <1>5, <1>7, <1>8
<1> QED BY <1>3, <1>9 DEF w, short, CutAtOnce

(***************************************************************************)
(* One digit up or not.                                                    *)
(***************************************************************************)
LEMMA BumpTells ==
  ASSUME NEW mode \in Roundings, NEW neg \in BOOLEAN, NEW q \in Nat,
         NEW n, n.coef = q, n.neg = neg,
         NEW unit \in Nat \ {0}, NEW rem \in Nat, NEW res, Tells(res, rem, unit)
  PROVE  /\ bump(n, mode, res) = IF Ref!RoundsUp(mode, neg, q, rem, unit) THEN 1 ELSE 0
         /\ res = 0 => ~Ref!RoundsUp(mode, neg, q, rem, unit)
         /\ rem = 0 => ~Ref!RoundsUp(mode, neg, q, rem, unit)
<1>1. res \in Nat /\ (res = 0 <=> rem = 0) /\ (res > 5 <=> 2 * rem > unit)
      /\ (res = 5 <=> 2 * rem = unit) /\ ~(res < 0)
  BY DEF Tells
<1>2. CASE mode = "HALF_EVEN"
  BY <1>1, <1>2 DEF bump, Ref!RoundsUp
<1>3. CASE mode = "DOWN"
  BY <1>1, <1>3 DEF bump, Ref!RoundsUp
<1>4. CASE mode = "HALF_DOWN"
  BY <1>1, <1>4 DEF bump, Ref!RoundsUp
<1>5. CASE mode = "HALF_UP"
  BY <1>1, <1>5 DEF bump, Ref!RoundsUp
<1>6. CASE mode = "UP"
  BY <1>1, <1>6 DEF bump, Ref!RoundsUp
<1>7. CASE mode = "CEILING"
  BY <1>1, <1>7 DEF bump, Ref!RoundsUp
<1>8. CASE mode = "FLOOR"
  BY <1>1, <1>8 DEF bump, Ref!RoundsUp
<1>9. CASE mode = "05UP"
  BY <1>1, <1>9 DEF bump, Ref!RoundsUp
<1> QED BY <1>2, <1>3, <1>4, <1>5, <1>6, <1>7, <1>8, <1>9 DEF Roundings

\* The digit to add.
Up(mode, neg, q, rem, unit) == IF Ref!RoundsUp(mode, neg, q, rem, unit) THEN 1 ELSE 0

LEMMA FinFields ==
  ASSUME NEW neg, NEW dg, NEW cf, NEW exp
  PROVE  /\ Fin(neg, dg, cf, exp).neg = neg /\ Fin(neg, dg, cf, exp).digits = dg
         /\ Fin(neg, dg, cf, exp).coef = cf /\ Fin(neg, dg, cf, exp).exp = exp
         /\ Fin(neg, dg, cf, exp).kind = "fin"
BY DEF Fin

LEMMA WorkFields ==
  ASSUME NEW n, NEW res, NEW st
  PROVE  Work(n, res, st).n = n /\ Work(n, res, st).residue = res /\ Work(n, res, st).status = st
BY DEF Work

\* What rounding leaves of a number whose digits were cut.
LEMMA RoundApplied ==
  ASSUME NEW set, set.round \in Roundings, NEW neg \in BOOLEAN,
         NEW len \in Nat \ {0}, NEW q \in Nat, q < TenTo[len], NEW exp, NEW st,
         NEW unit \in Nat \ {0}, NEW rem \in Nat, NEW res, Tells(res, rem, unit)
  PROVE  LET w == Work(Fin(neg, len, q, exp), res, st)
             b == Up(set.round, neg, q, rem, unit)
         IN  /\ b \in {0, 1} /\ (rem = 0 => b = 0)
             /\ q + b <= TenTo[len]
             /\ q + b = TenTo[len] => decApplyRound(w, set) = BumpNines(w, set)
             /\ q + b # TenTo[len] =>
                  decApplyRound(w, set) = Work(Fin(neg, len, q + b, exp), res, st)
<1> DEFINE n == Fin(neg, len, q, exp)
           w == Work(n, res, st)
           b == Up(set.round, neg, q, rem, unit)
           a == IF res = 0 THEN 0 ELSE bump(n, set.round, res)
<1>1. n.neg = neg /\ n.digits = len /\ n.coef = q
  BY FinFields
<1>2. w.n = n /\ w.residue = res /\ w.status = st
  BY WorkFields
<1>3. a = b /\ b \in {0, 1} /\ (rem = 0 => b = 0)
  <2> HIDE DEF n
  <2>1. /\ bump(n, set.round, res) = b
        /\ res = 0 => b = 0
        /\ rem = 0 => b = 0
    BY <1>1, BumpTells DEF Up
  <2>2. b \in {0, 1}
    BY DEF Up
  <2> HIDE DEF b
  <2> QED BY <2>1, <2>2
<1>4. decApplyRound(w, set) = Bumped(w, b, set)
  <2> HIDE DEF n, w, b
  <2> QED BY <1>2, <1>3 DEF decApplyRound
<1>5. TenTo[len] \in Nat
  BY Ten
<1>6. [n EXCEPT !.coef = @ + b] = Fin(neg, len, q + b, exp)
  <2> HIDE DEF b
  <2> QED BY DEF Fin
<1>7. b = 0 => n = Fin(neg, len, q + b, exp)
  BY <1>3
<1> DEFINE top == TenTo[len]
           f == Fin(neg, len, q + b, exp)
<1> HIDE DEF n, w, b, a, top, f
<1>8. top \in Nat /\ q < top /\ b \in {0, 1} /\ [n EXCEPT !.coef = @ + b] = f /\ (b = 0 => n = f)
  BY <1>3, <1>5, <1>6, <1>7 DEF top, f
<1>9. b = 0 => Bumped(w, b, set) = w
  BY DEF Bumped
<1>10. b = 1 /\ q = top - 1 => Bumped(w, b, set) = BumpNines(w, set)
  BY <1>1, <1>2 DEF Bumped, top
<1>11. b = 1 /\ q # top - 1 => Bumped(w, b, set) = Holding(w, [w.n EXCEPT !.coef = @ + b])
  BY <1>1, <1>2 DEF Bumped, top
<1>12. w = Work(n, res, st)
  BY DEF w
<1>13. Holding(w, [w.n EXCEPT !.coef = @ + b]) = Work(f, res, st)
  BY <1>2, <1>8 DEF Holding
<1>14. b = 0 => w = Work(f, res, st) /\ q + b # top
  BY <1>8, <1>12
<1>15. /\ q + b <= top
       /\ q + b = top => decApplyRound(w, set) = BumpNines(w, set)
       /\ q + b # top => decApplyRound(w, set) = Work(f, res, st)
  <2>1. q + b <= top
    BY <1>8
  <2>2. CASE b = 0
    BY <2>1, <2>2, <1>4, <1>9, <1>14
  <2>3. CASE b = 1
    <3>1. q = top - 1 <=> q + b = top
      BY <2>3, <1>8
    <3> QED BY <2>1, <2>3, <3>1, <1>4, <1>10, <1>11, <1>13
  <2> QED BY <2>2, <2>3, <1>8
<1> QED BY <1>3, <1>15 DEF w, n, b, f, top

\* 999.. bumped up.
LEMMA NinesBumped ==
  ASSUME NEW set, NEW neg, NEW len, NEW q, NEW exp, NEW res, NEW st
  PROVE  LET r == Work(Fin(neg, len, TenTo[len - 1], exp + 1), res, st)
         IN  BumpNines(Work(Fin(neg, len, q, exp), res, st), set)
               = IF TooBig(r.n, set) THEN decSetOverflow(r, set) ELSE r
<1> DEFINE n == Fin(neg, len, q, exp)
           w == Work(n, res, st)
           t == TenTo[len - 1]
           m == [n EXCEPT !.coef = t]
           m2 == [m EXCEPT !.exp = @ + 1]
<1>1. w.n = n /\ w.residue = res /\ w.status = st /\ n.digits = len
  BY WorkFields, FinFields
<1>2. m = Fin(neg, len, t, exp)
  <2> HIDE DEF t
  <2> QED BY DEF Fin
<1>3. [n EXCEPT !.coef = t, !.exp = @ + 1] = m2
  <2> HIDE DEF t, n
  <2> QED OBVIOUS
<1> HIDE DEF m
<1>4. m2 = Fin(neg, len, t, exp + 1)
  <2> HIDE DEF t
  <2> QED BY <1>2 DEF Fin
<1> HIDE DEF m2, n, w, t
<1>5. Holding(w, [w.n EXCEPT !.coef = t, !.exp = @ + 1]) = Work(m2, res, st)
  BY <1>1, <1>3 DEF Holding
<1>6. BumpNines(w, set) = LET r == Work(m2, res, st)
                          IN  IF TooBig(r.n, set) THEN decSetOverflow(r, set) ELSE r
  BY <1>1, <1>5 DEF BumpNines, t
<1> QED BY <1>4, <1>6 DEF w, n, t

-----------------------------------------------------------------------------
(***************************************************************************)
(* The reference: where it cuts, what it keeps, and its flags.             *)
(***************************************************************************)
\* The contexts the results are stated for: full arithmetic, and (what every
\* context that clamps has) room for a whole coefficient at exponent zero.
Settled(set) == /\ {"digits", "emax", "emin", "round", "clamp", "extended"} \subseteq DOMAIN set
                /\ set.digits \in Nat \ {0} /\ set.emax \in Nat
                /\ set.emin \in Int /\ set.emin <= 0
                /\ set.round \in Roundings
                /\ set.clamp \in BOOLEAN /\ set.extended = TRUE
                /\ set.clamp => set.digits <= set.emax + 1

LEMMA RangeIs ==
  ASSUME NEW set, Settled(set)
  PROVE  /\ Etiny(set) \in Int /\ Etiny(set) = (set.emin - set.digits) + 1
         /\ Etop(set) \in Int /\ Etop(set) = (set.emax - set.digits) + 1
         /\ Etiny(set) <= set.emin
         /\ set.clamp => Etop(set) >= 0 /\ Etop(set) >= set.emin
BY DEF Settled, Etiny, Etop

LEMMA RefMost ==
  ASSUME NEW a \in Int, NEW b \in Int, NEW c \in Int
  PROVE  Ref!Most({a, b, c}) = IF b <= a /\ c <= a THEN a ELSE IF c <= b THEN b ELSE c
<1> DEFINE m == IF b <= a /\ c <= a THEN a ELSE IF c <= b THEN b ELSE c
           Top(x) == \A y \in {a, b, c} : x >= y
<1>1. m \in {a, b, c} /\ Top(m)
  OBVIOUS
<1>2. \A x \in {a, b, c} : Top(x) => x = m
  BY <1>1
<1>3. Ref!Most({a, b, c}) = CHOOSE x \in {a, b, c} : Top(x)
  BY DEF Ref!Most
<1> HIDE DEF m, Top
<1>4. Ref!Most({a, b, c}) = m
  BY <1>1, <1>2, <1>3
<1> QED BY <1>4 DEF m

LEMMA RefLeast ==
  ASSUME NEW a \in Int, NEW b \in Int
  PROVE  Ref!Least({a, b}) = IF a <= b THEN a ELSE b
<1> DEFINE m == IF a <= b THEN a ELSE b
           Low(x) == \A y \in {a, b} : x <= y
<1>1. m \in {a, b} /\ Low(m)
  OBVIOUS
<1>2. \A x \in {a, b} : Low(x) => x = m
  BY <1>1
<1>3. Ref!Least({a, b}) = CHOOSE x \in {a, b} : Low(x)
  BY DEF Ref!Least
<1> HIDE DEF m, Low
<1>4. Ref!Least({a, b}) = m
  BY <1>1, <1>2, <1>3
<1> QED BY <1>4 DEF m

\* The value rounded with its last k digits gone.
Rounded(mode, neg, e, k) ==
  (e \div TenTo[k]) + Up(mode, neg, e \div TenTo[k], e % TenTo[k], TenTo[k])

LEMMA UpIs ==
  ASSUME NEW mode \in Roundings, NEW neg \in BOOLEAN, NEW q \in Nat,
         NEW unit \in Nat \ {0}, NEW rem \in 0 .. unit - 1
  PROVE  /\ Up(mode, neg, q, rem, unit) \in {0, 1}
         /\ rem = 0 => Up(mode, neg, q, rem, unit) = 0
<1>1. CASE rem = 0
  <2> DEFINE n == Fin(neg, 1, q, 0)
  <2>1. n.coef = q /\ n.neg = neg
    BY FinFields
  <2>2. Tells(0, 0, unit)
    BY DEF Tells
  <2> HIDE DEF n
  <2>3. ~Ref!RoundsUp(mode, neg, q, 0, unit)
    BY <2>1, <2>2, BumpTells
  <2> QED BY <1>1, <2>3 DEF Up
<1>2. CASE rem # 0
  BY <1>2 DEF Up
<1> QED BY <1>1, <1>2

\* Where all digits go, it does not matter how many zeros go with them.
LEMMA UpBeyond ==
  ASSUME NEW mode \in Roundings, NEW neg \in BOOLEAN, NEW rem \in Nat \ {0},
         NEW u \in Nat, NEW v \in Nat, 2 * rem < u, 2 * rem < v
  PROVE  Up(mode, neg, 0, rem, u) = Up(mode, neg, 0, rem, v)
BY DEF Up, Ref!RoundsUp, Roundings

LEMMA RoundAtIs ==
  ASSUME NEW mode \in Roundings, NEW neg \in BOOLEAN, NEW e \in Nat \ {0}, NEW k \in Nat
  PROVE  LET r == Ref!RoundAt(mode, neg, e, Ref!Least({k, Ref!Digits(e) + 1}))
         IN  r.q = Rounded(mode, neg, e, k) /\ r.inexact = (e % TenTo[k] # 0)
<1> DEFINE n == Places(e, 10)
           least == IF k <= n + 1 THEN k ELSE n + 1
           unit == TenTo[least]
           q == e \div unit
           rem == e % unit
           r == Ref!RoundAt(mode, neg, e, least)
<1>1. n \in Nat \ {0} /\ e < TenTo[n]
  BY Lengths
<1>2. least \in Nat
  BY <1>1
<1>3. Ref!Least({k, Ref!Digits(e) + 1}) = least
  <2>1. Ref!Digits(e) = n
    BY RefDigits
  <2> HIDE DEF n
  <2> QED BY <2>1, <1>1, RefLeast
<1>4. Ref!Power(10, least) = unit
  <2> HIDE DEF least
  <2> QED BY <1>2, RefPower
<1>5. r.q = q + Up(mode, neg, q, rem, unit) /\ r.inexact = (rem # 0)
  <2> HIDE DEF least
  <2>1. r = [q |-> IF Ref!RoundsUp(mode, neg, q, rem, unit) THEN q + 1 ELSE q,
             inexact |-> rem # 0]
    BY <1>4 DEF Ref!RoundAt
  <2>2. q \in Nat
    <3>1. unit \in Nat \ {0}
      BY <1>2, Ten
    <3> HIDE DEF unit
    <3> QED BY <3>1
  <2> HIDE DEF unit, q, rem
  <2> QED BY <2>1, <2>2 DEF Up
<1>6. CASE k <= n + 1
  <2>1. least = k
    BY <1>6
  <2> HIDE DEF least
  <2> QED BY <2>1, <1>3, <1>5 DEF Rounded
<1>7. CASE ~(k <= n + 1)
  <2>1. least = n + 1 /\ n + 1 \in Nat
    BY <1>1, <1>7
  <2> DEFINE v == TenTo[k]
  <2>2. e \div TenTo[0] = e
    BY TenZero
  <2>3. /\ q = 0 /\ rem = e /\ 2 * e < unit
        /\ e \div v = 0 /\ e % v = e /\ 2 * e < v
    <3>1. n + 1 > 0 + Places(e \div TenTo[0], 10) /\ k > 0 + Places(e \div TenTo[0], 10)
      <4>1. Places(e \div TenTo[0], 10) = n
        BY <2>2
      <4> HIDE DEF n
      <4> QED BY <4>1, <1>1, <1>7
    <3>2. 0 \in Nat
      OBVIOUS
    <3> HIDE DEF n, least
    <3> QED BY <2>1, <3>1, <3>2, AllCut
  <2>4. unit \in Nat /\ v \in Nat
    <3> HIDE DEF least
    <3> QED BY <1>2, Ten
  <2> HIDE DEF unit, v, q, rem
  <2>5. Up(mode, neg, 0, e, unit) = Up(mode, neg, 0, e, v)
    BY <2>3, <2>4, UpBeyond
  <2>6. Rounded(mode, neg, e, k) = 0 + Up(mode, neg, 0, e, v)
    BY <2>3 DEF Rounded, v
  <2> QED BY <1>3, <1>5, <2>3, <2>5, <2>6 DEF v
<1> QED BY <1>6, <1>7

\* The flags that hold.
FlagsOf(a, b, c, d, e) ==
  LET flags == [Rounded |-> a, Inexact |-> b, Subnormal |-> c, Underflow |-> d, Clamped |-> e]
  IN  {f \in DOMAIN flags : flags[f]}

LEMMA FlagSet ==
  ASSUME NEW a \in BOOLEAN, NEW b \in BOOLEAN, NEW c \in BOOLEAN, NEW d \in BOOLEAN, NEW e \in BOOLEAN
  PROVE  FlagsOf(a, b, c, d, e)
           = When(a, {"Rounded"}) \cup When(b, {"Inexact"}) \cup When(c, {"Subnormal"})
               \cup When(d, {"Underflow"}) \cup When(e, {"Clamped"})
<1> DEFINE flags == [Rounded |-> a, Inexact |-> b, Subnormal |-> c, Underflow |-> d, Clamped |-> e]
<1>1. DOMAIN flags = {"Rounded", "Inexact", "Subnormal", "Underflow", "Clamped"}
  OBVIOUS
<1>2. /\ flags["Rounded"] = a /\ flags["Inexact"] = b /\ flags["Subnormal"] = c
      /\ flags["Underflow"] = d /\ flags["Clamped"] = e
  OBVIOUS
<1> HIDE DEF flags
<1>3. {f \in DOMAIN flags : flags[f]}
        = When(a, {"Rounded"}) \cup When(b, {"Inexact"}) \cup When(c, {"Subnormal"})
            \cup When(d, {"Underflow"}) \cup When(e, {"Clamped"})
  BY <1>1, <1>2 DEF When
<1> QED BY <1>3 DEF flags, FlagsOf

LEMMA FinIs ==
  ASSUME NEW neg, NEW q, NEW exp, NEW len, len = Places(q, 10)
  PROVE  Ref!Finite(neg, q, exp) = Fin(neg, len, q, exp)
BY RefDigits DEF Ref!Finite, Ref!NumberWith, Fin

\* Is Q * 10^x beyond the range, and is its exponent folded down?
Beyond(q, exp, set) == q # 0 /\ exp + Places(q, 10) - 1 > set.emax
Folded(exp, set) == set.clamp /\ exp > Etop(set)

\* A number of the precision, in range.
Ranged(neg, q, exp, set) ==
  IF Beyond(q, exp, set) THEN Ref!OverflowResult(neg, set).n
  ELSE IF Folded(exp, set) THEN Ref!Finite(neg, q * TenTo[exp - Etop(set)], Etop(set))
       ELSE Ref!Finite(neg, q, exp)

OverflowFlags == {"Overflow", "Inexact", "Rounded"}

\* After a carry into a digit more than the precision.
Kept(r, set) == IF r = TenTo[set.digits] THEN TenTo[set.digits - 1] ELSE r
CarriedIn(r, set) == IF r = TenTo[set.digits] THEN 1 ELSE 0

\* What the reference makes of a rounded number.
FitsAs(set, neg, e, x, drop, r) ==
  LET q == Kept(r.q, set)
      y == x + drop + CarriedIn(r.q, set)
      tiny == x + Places(e, 10) - 1 < set.emin
      fit == Ref!Fitted(neg, e, x, drop, r, set)
  IN  /\ fit.n = Ranged(neg, q, y, set)
      /\ fit.status = IF Beyond(q, y, set) THEN OverflowFlags
                      ELSE When(drop > 0, {"Rounded"}) \cup When(r.inexact, {"Inexact"})
                             \cup When(tiny, {"Subnormal"})
                             \cup When(tiny /\ r.inexact, {"Underflow"})
                             \cup When(Folded(y, set) \/ q = 0, {"Clamped"})

LEMMA FittedIs ==
  ASSUME NEW set, Settled(set), NEW neg, NEW e \in Nat \ {0}, NEW x \in Int, NEW drop \in Nat,
         NEW r, r.q \in Nat, r.inexact \in BOOLEAN
  PROVE  FitsAs(set, neg, e, x, drop, r)
<1> DEFINE p == set.digits
           full == TenTo[p]
           carry == r.q = Ref!Power(10, p)
           q == IF carry THEN r.q \div 10 ELSE r.q
           y == x + drop + (IF carry THEN 1 ELSE 0)
           tiny == x + Ref!Digits(e) - 1 < set.emin
           folded == set.clamp /\ y > Ref!Etop(set)
           flags == [Rounded |-> drop > 0, Inexact |-> r.inexact, Subnormal |-> tiny,
                     Underflow |-> tiny /\ r.inexact, Clamped |-> folded \/ q = 0]
           beyond == q # 0 /\ y + Ref!Digits(q) - 1 > set.emax
           fit == Ref!Fitted(neg, e, x, drop, r, set)
           st == {f \in DOMAIN flags : flags[f]}
           n == IF folded THEN Ref!Finite(neg, q * Ref!Power(10, y - Ref!Etop(set)), Ref!Etop(set))
                          ELSE Ref!Finite(neg, q, y)
<1>1. fit = IF beyond THEN Ref!OverflowResult(neg, set) ELSE [n |-> n, status |-> st]
  BY DEF Ref!Fitted
<1>2. p \in Nat \ {0} /\ p - 1 \in Nat /\ p \in Nat /\ set.clamp \in BOOLEAN
  BY DEF Settled
<1>3. Ref!Power(10, p) = full /\ full = 10 * TenTo[p - 1] /\ TenTo[p - 1] \in Nat \ {0}
  <2> HIDE DEF p
  <2> QED BY <1>2, RefPower, TenBefore, Ten
<1>4. q = Kept(r.q, set) /\ q \in Nat
  <2>1. full \div 10 = TenTo[p - 1]
    <3> DEFINE t == TenTo[p - 1]
    <3> HIDE DEF t, full
    <3> QED BY <1>3 DEF t
  <2> HIDE DEF p
  <2> QED BY <1>3, <2>1 DEF Kept, p
<1>5. y = x + drop + CarriedIn(r.q, set) /\ y \in Int
  <2>1. (IF carry THEN 1 ELSE 0) = CarriedIn(r.q, set) /\ CarriedIn(r.q, set) \in {0, 1}
    BY <1>3 DEF CarriedIn
  <2> HIDE DEF carry
  <2> QED BY <2>1
<1> HIDE DEF q, y, carry
<1>6. /\ Ref!Etop(set) = Etop(set) /\ Etop(set) \in Int
      /\ Ref!Digits(q) = Places(q, 10) /\ Ref!Digits(e) = Places(e, 10)
  BY RefEtiny, RangeIs, RefDigits
<1>7. (folded <=> Folded(y, set)) /\ (beyond <=> Beyond(q, y, set))
  BY <1>6 DEF Folded, Beyond
<1>8. ~beyond => n = Ranged(neg, q, y, set)
  <2>1. CASE folded
    <3> DEFINE k == y - Etop(set)
    <3>1. k \in Nat
      BY <1>5, <1>6, <2>1
    <3> HIDE DEF k
    <3>2. Ref!Power(10, k) = TenTo[k]
      BY <3>1, RefPower
    <3>3. n = Ref!Finite(neg, q * TenTo[k], Etop(set))
      BY <1>6, <2>1, <3>2 DEF k
    <3>4. ~beyond => Ranged(neg, q, y, set) = Ref!Finite(neg, q * TenTo[k], Etop(set))
      <4> HIDE DEF folded, beyond
      <4> QED BY <1>7, <2>1 DEF Ranged, k
    <3> HIDE DEF n
    <3> QED BY <3>3, <3>4
  <2>2. CASE ~folded
    <3>1. n = Ref!Finite(neg, q, y)
      BY <2>2
    <3> HIDE DEF n, folded, beyond
    <3> QED BY <3>1, <2>2, <1>7 DEF Ranged
  <2> HIDE DEF n, folded, beyond
  <2> QED BY <2>1, <2>2
<1>9. st = When(drop > 0, {"Rounded"}) \cup When(r.inexact, {"Inexact"})
             \cup When(tiny, {"Subnormal"}) \cup When(tiny /\ r.inexact, {"Underflow"})
             \cup When(folded \/ q = 0, {"Clamped"})
  <2> DEFINE a == drop > 0
             b == r.inexact
             d == tiny /\ r.inexact
             f == folded \/ q = 0
  <2>1. a \in BOOLEAN /\ b \in BOOLEAN /\ tiny \in BOOLEAN /\ d \in BOOLEAN /\ f \in BOOLEAN
    OBVIOUS
  <2>2. st = FlagsOf(drop > 0, b, tiny, d, f)
    BY DEF FlagsOf
  <2> HIDE DEF st, tiny, d, f
  <2>3. FlagsOf(a, b, tiny, d, f)
          = When(a, {"Rounded"}) \cup When(b, {"Inexact"}) \cup When(tiny, {"Subnormal"})
               \cup When(d, {"Underflow"}) \cup When(f, {"Clamped"})
    <3> HIDE DEF a, b
    <3> QED BY <2>1, FlagSet
  <2> QED BY <2>2, <2>3 DEF d, f
<1> HIDE DEF n, st, folded, beyond, fit
<1>10. fit.n = Ranged(neg, q, y, set)
  BY <1>1, <1>7, <1>8 DEF Ranged
<1>11. Ref!OverflowResult(neg, set).status = OverflowFlags
  BY DEF Ref!OverflowResult, OverflowFlags
<1>12. fit.status = IF Beyond(q, y, set) THEN OverflowFlags
                    ELSE When(drop > 0, {"Rounded"}) \cup When(r.inexact, {"Inexact"})
                                    \cup When(tiny, {"Subnormal"})
                                    \cup When(tiny /\ r.inexact, {"Underflow"})
                                    \cup When(Folded(y, set) \/ q = 0, {"Clamped"})
  <2> HIDE DEF tiny
  <2> QED BY <1>1, <1>7, <1>9, <1>11
<1> QED BY <1>4, <1>5, <1>6, <1>10, <1>12 DEF fit, FitsAs

(***************************************************************************)
(* The code: overflow and the fold-down.                                   *)
(***************************************************************************)
LEMMA AllInTurn ==
  ASSUME NEW n, NEW cf, NEW dg, NEW exp
  PROVE  [n EXCEPT !.digits = dg, !.coef = cf, !.exp = exp]
           = [[[n EXCEPT !.digits = dg] EXCEPT !.coef = cf] EXCEPT !.exp = exp]
OBVIOUS

LEMMA OverflowIs ==
  ASSUME NEW set, Settled(set), NEW neg \in BOOLEAN, NEW len, NEW q \in Nat \ {0}, NEW exp,
         NEW res, NEW st
  PROVE  LET out == decSetOverflow(Work(Fin(neg, len, q, exp), res, st), set)
         IN  /\ out.n = Ref!OverflowResult(neg, set).n
             /\ out.status = st \cup OverflowFlags
             /\ out.n.exp <= Etop(set) \/ ~set.clamp
             /\ ~TooBig(out.n, set)
<1> DEFINE n == Fin(neg, len, q, exp)
           w == Work(n, res, st)
           p == set.digits
           max == \/ set.round \in {"DOWN", "05UP"}
                  \/ set.round = "CEILING" /\ neg
                  \/ set.round = "FLOOR" /\ ~neg
           big == IF max THEN decSetMaxValue(set) ELSE [decNumberZero EXCEPT !.kind = "inf"]
           out == decSetOverflow(w, set)
<1>1. w.n = n /\ w.residue = res /\ w.status = st /\ n.neg = neg /\ ~ISZERO(n)
  BY WorkFields, FinFields DEF ISZERO
<1>2. out = Flagged(Holding(w, [big EXCEPT !.neg = neg]), OverflowFlags)
  <2> HIDE DEF n, w
  <2> QED BY <1>1 DEF decSetOverflow, OverflowFlags
<1>3. out.n = [big EXCEPT !.neg = neg] /\ out.status = st \cup OverflowFlags
  <2> HIDE DEF n, w, big, out
  <2> QED BY <1>1, <1>2 DEF Flagged, Holding, Work
<1>4. p \in Nat \ {0} /\ p - 1 \in Nat /\ p \in Nat
  BY DEF Settled
<1> DEFINE m == TenTo[p] - 1
<1>5. m \in Nat /\ Places(m, 10) = p /\ Ref!Power(10, p) = TenTo[p]
  <2> DEFINE t == TenTo[p - 1]
             f == TenTo[p]
  <2>1. f = 10 * t /\ t \in Nat \ {0}
    <3> HIDE DEF p
    <3> QED BY <1>4, TenBefore, Ten
  <2> HIDE DEF t, f
  <2>2. m \in Nat /\ m < f /\ m >= t
    BY <2>1 DEF f
  <2>3. Ref!Power(10, p) = TenTo[p]
    <3> HIDE DEF p
    <3> QED BY <1>4, RefPower
  <2> HIDE DEF m, p
  <2> QED BY <2>2, <2>3, <1>4, LengthIs DEF t, f
<1>6. CASE max
  <2>1. Ref!OverflowResult(neg, set).n = Ref!Finite(neg, m, Etop(set))
    BY <1>5, <1>6, RefEtiny DEF Ref!OverflowResult, Ref!Nmax
  <2>2. Ref!Finite(neg, m, Etop(set)) = Fin(neg, p, m, Etop(set))
    <3> HIDE DEF m, p
    <3> QED BY <1>5, FinIs
  <2>3. [big EXCEPT !.neg = neg] = Fin(neg, p, m, Etop(set))
    <3> DEFINE t == Etop(set)
    <3> HIDE DEF t
    <3>1. big = [decNumberZero EXCEPT !.digits = p, !.coef = m, !.exp = t]
      BY <1>6 DEF decSetMaxValue, t
    <3> HIDE DEF m, p, big
    <3> DEFINE u == FALSE
               v == 1
               z == 0
               b0 == Fin(u, v, z, z)
               b1 == [b0 EXCEPT !.digits = p]
               b2 == [b1 EXCEPT !.coef = m]
               b3 == [b2 EXCEPT !.exp = t]
    <3>a. big = b3
      <4>1. decNumberZero = b0
        BY DEF decNumberZero, Fin
      <4>2. [b0 EXCEPT !.digits = p, !.coef = m, !.exp = t] = b3
        <5> HIDE DEF b0
        <5> QED BY AllInTurn
      <4> HIDE DEF b0, b3
      <4> QED BY <3>1, <4>1, <4>2
    <3> HIDE DEF u, v, z
    <3>b. b1 = Fin(u, p, z, z)
      BY DEF Fin
    <3> HIDE DEF b1
    <3>c. b2 = Fin(u, p, m, z)
      BY <3>b DEF Fin
    <3> HIDE DEF b2
    <3>d. b3 = Fin(u, p, m, t)
      BY <3>c DEF Fin
    <3> HIDE DEF b3
    <3>2. big = [neg |-> FALSE, kind |-> "fin", digits |-> p, coef |-> m, exp |-> t]
      BY <3>a, <3>d DEF Fin, u
    <3>3. [big EXCEPT !.neg = neg] = Fin(neg, p, m, t)
      BY <3>2 DEF Fin
    <3> QED BY <3>3 DEF t
  <2>4. out.n.exp = Etop(set) /\ Etop(set) \in Int
    <3> DEFINE t == Etop(set)
    <3>1. t \in Int
      BY RangeIs
    <3> HIDE DEF t
    <3>2. Fin(neg, p, m, t).exp = t /\ Fin(neg, p, m, t).digits = p
      <4> HIDE DEF m, p
      <4> QED BY FinFields
    <3>3. out.n = Fin(neg, p, m, t)
      <4> HIDE DEF out, m, p, big
      <4> QED BY <1>3, <2>3 DEF t
    <3> HIDE DEF out, m, p
    <3> QED BY <3>1, <3>2, <3>3 DEF t
  <2>5. ~TooBig(out.n, set)
    <3>1. out.n = Fin(neg, p, m, Etop(set))
      <4> HIDE DEF out, m, p, big
      <4> QED BY <1>3, <2>3
    <3>2. out.n.digits = p
      <4> HIDE DEF out, m, p
      <4> QED BY <3>1, FinFields
    <3>3. Etop(set) + p = set.emax + 1 /\ set.emax \in Nat
      <4>1. set.emax \in Nat
        BY DEF Settled
      <4>2. Etop(set) = (set.emax - p) + 1
        BY RangeIs
      <4> HIDE DEF p
      <4> QED BY <4>1, <4>2, <1>4
    <3> HIDE DEF out, p
    <3> QED BY <2>4, <3>2, <3>3 DEF TooBig
  <2> HIDE DEF out, m, p, big
  <2> QED BY <1>3, <2>1, <2>2, <2>3, <2>4, <2>5 DEF out, w, n
<1>7. CASE ~max
  <2>1. Ref!OverflowResult(neg, set).n = Ref!Infinite(neg)
    BY <1>7 DEF Ref!OverflowResult
  <2>2. [big EXCEPT !.neg = neg] = Ref!Infinite(neg)
    <3>1. big = [neg |-> FALSE, kind |-> "inf", digits |-> 1, coef |-> 0, exp |-> 0]
      BY <1>7 DEF decNumberZero
    <3> HIDE DEF big
    <3> QED BY <3>1 DEF Ref!Infinite
  <2>3. out.n.exp = 0 /\ out.n.digits = 1
    <3> HIDE DEF out, big
    <3> QED BY <1>3, <2>2 DEF Ref!Infinite
  <2>4. ~TooBig(out.n, set) /\ (0 <= Etop(set) \/ ~set.clamp)
    <3>1. set.emax \in Nat /\ set.clamp \in BOOLEAN
      BY DEF Settled
    <3>2. set.clamp => Etop(set) >= 0
      BY RangeIs
    <3>3. set.clamp => 0 <= Etop(set)
      BY <3>2, RangeIs
    <3> HIDE DEF out, big
    <3>4. ~TooBig(out.n, set)
      BY <2>3, <3>1 DEF TooBig
    <3> QED BY <3>3, <3>4
  <2> HIDE DEF out, big
  <2> QED BY <1>3, <2>1, <2>2, <2>3, <2>4 DEF out, w, n
<1> QED BY <1>6, <1>7

\* What overflowed stays as it is.
LEMMA AfterOverflow ==
  ASSUME NEW set, Settled(set), NEW neg \in BOOLEAN, NEW len, NEW q \in Nat \ {0}, NEW exp,
         NEW res, NEW st
  PROVE  LET out == decSetOverflow(Work(Fin(neg, len, q, exp), res, st), set)
         IN  WithinRange(out, set) = out
<1> DEFINE out == decSetOverflow(Work(Fin(neg, len, q, exp), res, st), set)
<1>1. out.n.exp <= Etop(set) \/ ~set.clamp
  BY OverflowIs
<1>2. ~TooBig(out.n, set)
  BY OverflowIs
<1> HIDE DEF out
<1>3. WithinRange(out, set) = out
  <2>1. CASE out.n.exp <= Etop(set)
    BY <1>2, <2>1 DEF WithinRange
  <2>2. CASE ~(out.n.exp <= Etop(set))
    BY <1>1, <1>2, <2>2 DEF WithinRange
  <2> QED BY <2>1, <2>2
<1> QED BY <1>3 DEF out

LEMMA FoldIs ==
  ASSUME NEW set, NEW neg, NEW q \in Nat \ {0}, NEW exp \in Int,
         NEW len, len = Places(q, 10), NEW res, NEW st,
         Etop(set) \in Int, exp > Etop(set)
  PROVE  LET w == FoldDown(Work(Fin(neg, len, q, exp), res, st), set)
         IN  /\ w.n = Ref!Finite(neg, q * TenTo[exp - Etop(set)], Etop(set))
             /\ w.status = st \cup {"Clamped"}
<1> DEFINE
           n == Fin(neg, len, q, exp)
           w == Work(n, res, st)
           t == Etop(set)
           k == exp - t
           f == TenTo[k]
           most == decShiftToMost(n, k)
           n1 == [n EXCEPT !.coef = @ * f]
           n2 == [n1 EXCEPT !.digits = @ + k]
<1>1. k \in Nat /\ f \in Nat \ {0}
  <2>1. k \in Nat
    OBVIOUS
  <2> HIDE DEF k
  <2> QED BY <2>1, Ten
<1>2. q * f \in Nat \ {0} /\ Places(q * f, 10) = len + k
  <2> HIDE DEF k
  <2> QED BY <1>1, PadLength
<1>3. most = n2
  <2> HIDE DEF n, k
  <2> QED BY DEF decShiftToMost
<1> HIDE DEF k, f, t
<1>4. n1 = Fin(neg, len, q * f, exp)
  BY DEF Fin
<1> HIDE DEF n1
<1>5. n2 = Fin(neg, len + k, q * f, exp)
  BY <1>4 DEF Fin
<1> HIDE DEF n2, most
<1>6. [most EXCEPT !.exp = t] = Fin(neg, len + k, q * f, t)
  BY <1>3, <1>5 DEF Fin
<1>7. Ref!Finite(neg, q * f, t) = Fin(neg, len + k, q * f, t)
  BY <1>2, FinIs
<1>8. w.n = n /\ w.residue = res /\ w.status = st /\ n.exp = exp /\ n.coef = q
  BY WorkFields, FinFields
<1> HIDE DEF w, n
<1>9. ~ISZERO(n)
  BY <1>8 DEF ISZERO
<1>10. FoldDown(w, set) = Flagged(Holding(w, [most EXCEPT !.exp = t]), {"Clamped"})
  BY <1>8, <1>9 DEF FoldDown, most, k, t
<1>11. FoldDown(w, set) = Work(Ref!Finite(neg, q * f, t), res, st \cup {"Clamped"})
  BY <1>6, <1>7, <1>8, <1>10 DEF Flagged, Holding, Work
<1> QED BY <1>11, WorkFields DEF w, n, f, k, t

LEMMA WithinIs ==
  ASSUME NEW set, Settled(set), NEW neg \in BOOLEAN, NEW q \in Nat \ {0},
         NEW len, len = Places(q, 10), len <= set.digits, NEW exp \in Int, NEW res, NEW st
  PROVE  LET out == WithinRange(Work(Fin(neg, len, q, exp), res, st), set)
         IN  /\ out.n = Ranged(neg, q, exp, set)
             /\ out.status = st \cup (IF Beyond(q, exp, set) THEN OverflowFlags
                                      ELSE When(Folded(exp, set), {"Clamped"}))
<1> DEFINE n == Fin(neg, len, q, exp)
           w == Work(n, res, st)
           out == WithinRange(w, set)
           t == Etop(set)
<1>1. len \in Nat \ {0}
  BY Lengths
<1>2. /\ t \in Int /\ t = (set.emax - set.digits) + 1 /\ set.clamp \in BOOLEAN
      /\ set.emax \in Nat /\ set.digits \in Nat
  BY RangeIs DEF Settled
<1>3. w.n = n /\ w.residue = res /\ w.status = st /\ n.exp = exp /\ n.digits = len
  BY WorkFields, FinFields
<1>4. TooBig(n, set) <=> Beyond(q, exp, set)
  <2> HIDE DEF n
  <2> QED BY <1>1, <1>2, <1>3 DEF TooBig, Beyond
<1>5. Beyond(q, exp, set) => exp > t
  <2> HIDE DEF t
  <2> QED BY <1>1, <1>2 DEF Beyond
<1>6. Folded(exp, set) <=> set.clamp /\ exp > t
  BY DEF Folded
<1>7. Ref!Finite(neg, q, exp) = n
  BY FinIs
<1>8. CASE Beyond(q, exp, set)
  <2>1. out = decSetOverflow(w, set)
    <3> HIDE DEF w, n, t
    <3> QED BY <1>2, <1>3, <1>4, <1>5, <1>8 DEF WithinRange, t
  <2>2. /\ decSetOverflow(w, set).n = Ref!OverflowResult(neg, set).n
        /\ decSetOverflow(w, set).status = st \cup OverflowFlags
    BY OverflowIs
  <2> HIDE DEF w, n, out
  <2>3. out.n = Ranged(neg, q, exp, set)
    BY <2>1, <2>2, <1>8 DEF Ranged
  <2> QED BY <2>1, <2>2, <2>3, <1>8 DEF out, w, n
<1>9. CASE ~Beyond(q, exp, set) /\ Folded(exp, set)
  <2>1. out = FoldDown(w, set)
    <3> HIDE DEF w, n, t
    <3>1. ~(n.exp <= t) /\ ~TooBig(n, set) /\ set.clamp
      BY <1>2, <1>3, <1>4, <1>6, <1>9
    <3> QED BY <1>3, <3>1 DEF WithinRange, t
  <2>2. /\ FoldDown(w, set).n = Ref!Finite(neg, q * TenTo[exp - t], t)
        /\ FoldDown(w, set).status = st \cup {"Clamped"}
    <3>1. Etop(set) \in Int /\ exp > Etop(set)
      BY <1>2, <1>6, <1>9
    <3> QED BY <3>1, FoldIs
  <2> HIDE DEF w, n, out, t
  <2>3. out.n = Ranged(neg, q, exp, set) /\ out.status = st \cup {"Clamped"}
    BY <2>1, <2>2, <1>9 DEF Ranged, t
  <2>4. out.status = st \cup When(Folded(exp, set), {"Clamped"})
    BY <2>3, <1>9 DEF When
  <2> QED BY <2>3, <2>4, <1>9 DEF out, w, n
<1>10. CASE ~Beyond(q, exp, set) /\ ~Folded(exp, set)
  <2>1. out = w
    <3> HIDE DEF w, n, t
    <3>1. CASE exp <= t
      BY <3>1, <1>3, <1>4, <1>10 DEF WithinRange, t
    <3>2. CASE ~(exp <= t)
      <4>1. ~set.clamp
        BY <3>2, <1>2, <1>6, <1>10
      <4> QED BY <3>2, <4>1, <1>3, <1>4, <1>10 DEF WithinRange, t
    <3> QED BY <3>1, <3>2
  <2> HIDE DEF w, n, out, t
  <2>2. out.n = Ranged(neg, q, exp, set) /\ out.status = st
    BY <2>1, <1>3, <1>7, <1>10 DEF Ranged
  <2>3. st = st \cup When(Folded(exp, set), {"Clamped"})
    BY <1>10 DEF When
  <2> QED BY <2>2, <2>3, <1>10 DEF out, w, n
<1> QED BY <1>8, <1>9, <1>10

(***************************************************************************)
(* The end of an operation: first the coefficient is cut to the precision. *)
(***************************************************************************)
Told(k, rest) == When(k > 0, {"Rounded"}) \cup When(rest # 0, {"Inexact"})

\* What decSetCoeff leaves of the number e * 10^x at the precision p.
WholeCut(neg, dg, cf, e, x, p) ==
  LET n == Places(e, 10)
      k == IF n > p THEN n - p ELSE 0
  IN  /\ k \in Nat /\ k < n /\ n - k \in Nat \ {0} /\ n - k <= p /\ (k > 0 => n - k = p)
      /\ e \div TenTo[k] \in Nat \ {0} /\ Places(e \div TenTo[k], 10) = n - k
      /\ k = 0 => e % TenTo[k] = 0
      /\ \E r : /\ Tells(r, e % TenTo[k], TenTo[k])
                /\ decSetCoeff(Work(Fin(neg, dg, cf, x), 0, {}), p, e, n)
                     = Work(Fin(neg, n - k, e \div TenTo[k], x + k), r,
                            Told(k, e % TenTo[k]))

LEMMA CutWhole ==
  ASSUME NEW neg, NEW dg, NEW cf, NEW e \in Nat \ {0}, NEW x \in Int, NEW p \in Nat \ {0}
  PROVE  WholeCut(neg, dg, cf, e, x, p)
<1> DEFINE n == Places(e, 10)
           k == IF n > p THEN n - p ELSE 0
           w == decSetCoeff(Work(Fin(neg, dg, cf, x), 0, {}), p, e, n)
<1>1. n \in Nat \ {0}
  BY Lengths
<1>2. k \in Nat /\ k < n /\ n - k \in Nat \ {0} /\ n - k <= p /\ (k > 0 => n - k = p)
  <2> HIDE DEF n
  <2> QED BY <1>1
<1>3. e \div TenTo[k] \in Nat \ {0} /\ Places(e \div TenTo[k], 10) = n - k
  <2> HIDE DEF k
  <2> QED BY <1>2, CutLength
<1>4. k = 0 => e % TenTo[k] = 0
  BY TenZero
<1>5. \E r : /\ Tells(r, e % TenTo[k], TenTo[k])
             /\ w = Work(Fin(neg, n - k, e \div TenTo[k], x + k), r, Told(k, e % TenTo[k]))
  <2>1. CASE n <= p
    <3>1. k = 0 /\ n - k = n /\ x + k = x
      BY <1>1, <2>1
    <3>2. TenTo[k] = 1 /\ e \div TenTo[k] = e /\ e % TenTo[k] = 0
      BY <3>1, TenZero
    <3>3. w = Work(Fin(neg, n, e, x), 0, {})
      <4> HIDE DEF n
      <4>1. n \in Int /\ p \in Int
        BY <1>1
      <4> QED BY <4>1, <2>1, ShortCut
    <3>4. Tells(0, 0, 1) /\ Told(0, 0) = {}
      BY DEF Tells, Told, When
    <3> HIDE DEF n, k, w
    <3>5. /\ Tells(0, e % TenTo[k], TenTo[k])
          /\ w = Work(Fin(neg, n - k, e \div TenTo[k], x + k), 0, Told(k, e % TenTo[k]))
      BY <3>1, <3>2, <3>3, <3>4
    <3> QED BY <3>5
  <2>2. CASE ~(n <= p)
    <3> DEFINE d == 0
               f == TenTo[d]
    <3>1. d \in Nat /\ e \div f = e /\ e % f = 0 /\ Tells(0, 0, f) /\ x + d = x
      BY TenZero DEF Tells
    <3>2. k = d + (n - p) /\ p < n /\ p \in Int /\ ~(p <= 0)
      BY <1>1, <2>2
    <3> HIDE DEF d, k
    <3>3. PICK r : /\ Tells(r, e % TenTo[k], TenTo[k])
                   /\ decSetCoeff(Work(Fin(neg, dg, cf, x + d), 0, {}), p, e \div TenTo[d], n)
                        = Work(Fin(neg, IF p <= 0 THEN 1 ELSE p, e \div TenTo[k], x + k),
                               r, {} \cup CutFlags(e % TenTo[k]))
      <4>1. CutAtOnce(neg, dg, cf, e, d, x, p, n, 0, {})
        <5>1. Places(e \div TenTo[d], 10) = n /\ e \div TenTo[d] # 0 /\ p < Places(e \div TenTo[d], 10)
              /\ Tells(0, e % TenTo[d], TenTo[d])
          BY <3>1, <3>2
        <5> HIDE DEF n
        <5>2. CutAtOnce(neg, dg, cf, e, d, x, p, Places(e \div TenTo[d], 10), 0, {})
          BY <5>1, <3>1, <3>2, CutRight
        <5> QED BY <5>1, <5>2
      <4> HIDE DEF n
      <4> QED BY <4>1, <3>2 DEF CutAtOnce
    <3>4. k > 0 /\ n - k = p
      BY <1>1, <1>2, <2>2 DEF k
    <3> DEFINE rest == e % TenTo[k]
    <3> HIDE DEF rest
    <3>5. {} \cup CutFlags(rest) = Told(k, rest)
      BY <3>4 DEF CutFlags, Told, When
    <3>6. w = Work(Fin(neg, n - k, e \div TenTo[k], x + k), r, Told(k, rest))
      <4> HIDE DEF n
      <4> QED BY <3>1, <3>2, <3>3, <3>4, <3>5 DEF rest
    <3> HIDE DEF n, w
    <3> QED BY <3>3, <3>6 DEF rest
  <2> QED BY <2>1, <2>2, <1>1
<1> HIDE DEF n, k, w
<1>6. /\ k \in Nat /\ k < n /\ n - k \in Nat \ {0} /\ n - k <= p /\ (k > 0 => n - k = p)
      /\ e \div TenTo[k] \in Nat \ {0} /\ Places(e \div TenTo[k], 10) = n - k
      /\ k = 0 => e % TenTo[k] = 0
  BY <1>2, <1>3, <1>4
<1> QED BY <1>5, <1>6 DEF n, k, w, WholeCut

\* What decFinalize does with a residue that is not negative.
LEMMA FinalizeIs ==
  ASSUME NEW set, Settled(set), NEW neg, NEW len \in Nat, NEW q, NEW y \in Int, NEW r \in Nat, NEW st
  PROVE  LET w == Work(Fin(neg, len, q, y), r, st)
         IN  decFinalize(w, set) = IF y + len - 1 < set.emin THEN decSetSubnormal(w, set)
                                   ELSE WithinRange(decApplyRound(w, set), set)
<1> DEFINE w == Work(Fin(neg, len, q, y), r, st)
           tinyexp == set.emin - w.n.digits + 1
<1>1. w.residue = r /\ w.n.exp = y /\ w.n.digits = len
  BY WorkFields, FinFields
<1> HIDE DEF w
<1>2. ~(w.residue < 0)
  BY <1>1
<1>3. w.n.exp < tinyexp <=> y + len - 1 < set.emin
  <2>1. set.emin \in Int
    BY DEF Settled
  <2> QED BY <2>1, <1>1
<1> HIDE DEF tinyexp
<1>4. decFinalize(w, set) = IF w.n.exp < tinyexp THEN decSetSubnormal(w, set)
                            ELSE WithinRange(decApplyRound(w, set), set)
  BY <1>2 DEF decFinalize, InRange, tinyexp
<1> QED BY <1>3, <1>4 DEF w

\* A number in the normal range is rounded, and brought into range.
\* What rounding leaves of a normal number.
NormalAs(set, neg, q, len, y, st, unit, rem, r) ==
  LET sum == q + Up(set.round, neg, q, rem, unit)
      kept == Kept(sum, set)
      z == y + CarriedIn(sum, set)
      out == WithinRange(decApplyRound(Work(Fin(neg, len, q, y), r, st), set), set)
  IN  /\ out.n = Ranged(neg, kept, z, set)
      /\ out.status = st \cup (IF Beyond(kept, z, set) THEN OverflowFlags
                               ELSE When(Folded(z, set), {"Clamped"}))
      /\ kept # 0

LEMMA NormalRight ==
  ASSUME NEW set, Settled(set), NEW neg \in BOOLEAN, NEW q \in Nat \ {0},
         NEW len, len = Places(q, 10), len <= set.digits, NEW y \in Int, NEW st,
         NEW unit \in Nat \ {0}, NEW rem \in Nat, NEW r, Tells(r, rem, unit),
         rem # 0 => len = set.digits
  PROVE  NormalAs(set, neg, q, len, y, st, unit, rem, r)
<1> DEFINE b == Up(set.round, neg, q, rem, unit)
           w == Work(Fin(neg, len, q, y), r, st)
           p == set.digits
           top == TenTo[len]
           sum == q + b
           kept == Kept(sum, set)
           z == y + CarriedIn(sum, set)
           out == WithinRange(decApplyRound(w, set), set)
<1>1. len \in Nat \ {0} /\ q < top /\ q >= TenTo[len - 1] /\ len - 1 \in Nat
  <2>1. len \in Nat \ {0} /\ q < top /\ q >= TenTo[len - 1]
    BY Lengths
  <2> QED BY <2>1
<1>2. p \in Nat \ {0} /\ set.round \in Roundings /\ p \in Nat
  BY DEF Settled
<1>3. top \in Nat \ {0} /\ TenTo[p] \in Nat \ {0} /\ top <= TenTo[p]
  <2> HIDE DEF p
  <2> QED BY <1>1, <1>2, Ten, TenMono DEF p
<1>4. /\ b \in {0, 1} /\ (rem = 0 => b = 0) /\ q + b <= top
      /\ q + b = top => decApplyRound(w, set) = BumpNines(w, set)
      /\ q + b # top => decApplyRound(w, set) = Work(Fin(neg, len, q + b, y), r, st)
  BY <1>1, <1>2, RoundApplied
<1> HIDE DEF b, p, top
<1>5. CASE q + b = top
  <2>1. b = 1 /\ len = p
    BY <1>1, <1>3, <1>4, <1>5 DEF p
  <2> DEFINE t == TenTo[len - 1]
             v == Work(Fin(neg, len, t, y + 1), r, st)
  <2>2. kept = t /\ z = y + 1
    <3>1. sum = TenTo[set.digits]
      BY <1>5, <2>1 DEF top, p
    <3> HIDE DEF sum
    <3> QED BY <3>1, <2>1 DEF Kept, CarriedIn, p
  <2>3. t \in Nat \ {0} /\ Places(t, 10) = len
    <3>1. t \in Nat \ {0} /\ top = 10 * t
      BY <1>1, Ten, TenBefore DEF top
    <3>2. t < top /\ t >= t
      BY <3>1
    <3> QED BY <3>1, <3>2, <1>1, LengthIs DEF top
  <2>4. decApplyRound(w, set) = IF TooBig(v.n, set) THEN decSetOverflow(v, set) ELSE v
    <3>1. BumpNines(w, set) = IF TooBig(v.n, set) THEN decSetOverflow(v, set) ELSE v
      BY NinesBumped
    <3> HIDE DEF w, v
    <3> QED BY <3>1, <1>4, <1>5
  <2>5. TooBig(v.n, set) <=> Beyond(t, y + 1, set)
    <3>1. v.n.exp = y + 1 /\ v.n.digits = len
      BY WorkFields, FinFields
    <3>2. set.emax \in Nat
      BY DEF Settled
    <3> HIDE DEF v, t
    <3> QED BY <3>1, <3>2, <1>1, <2>3 DEF TooBig, Beyond
  <2> HIDE DEF t
  <2>6. /\ WithinRange(v, set).n = Ranged(neg, t, y + 1, set)
        /\ WithinRange(v, set).status = st \cup (IF Beyond(t, y + 1, set) THEN OverflowFlags
                                        ELSE When(Folded(y + 1, set), {"Clamped"}))
    <3>1. y + 1 \in Int
      OBVIOUS
    <3> QED BY <3>1, <2>3, WithinIs
  <2>7. WithinRange(decSetOverflow(v, set), set) = decSetOverflow(v, set)
    BY <2>3, AfterOverflow
  <2>8. /\ decSetOverflow(v, set).n = Ref!OverflowResult(neg, set).n
        /\ decSetOverflow(v, set).status = st \cup OverflowFlags
    BY <2>3, OverflowIs
  <2>9. /\ out.n = Ranged(neg, t, y + 1, set)
        /\ out.status = st \cup (IF Beyond(t, y + 1, set) THEN OverflowFlags
                                 ELSE When(Folded(y + 1, set), {"Clamped"}))
    <3> HIDE DEF w, v
    <3>1. CASE Beyond(t, y + 1, set)
      BY <3>1, <2>4, <2>5, <2>7, <2>8 DEF Ranged
    <3>2. CASE ~Beyond(t, y + 1, set)
      BY <3>2, <2>4, <2>5, <2>6
    <3> QED BY <3>1, <3>2
  <2> HIDE DEF out, kept, z, sum
  <2> QED BY <2>2, <2>3, <2>9 DEF out, kept, z, sum, w, b, NormalAs
<1>6. CASE q + b # top
  <2>1. kept = sum /\ z = y /\ sum \in Nat \ {0} /\ sum < top
    <3>1. sum \in Nat \ {0} /\ sum < top /\ sum # TenTo[p]
      BY <1>3, <1>4, <1>6
    <3> HIDE DEF sum
    <3> QED BY <3>1 DEF Kept, CarriedIn, p
  <2>2. Places(sum, 10) = len
    <3>1. sum >= TenTo[len - 1]
      <4> DEFINE t == TenTo[len - 1]
      <4>1. t \in Nat
        BY <1>1, Ten
      <4> HIDE DEF t
      <4>2. q >= t
        BY <1>1 DEF t
      <4>3. sum >= t
        BY <4>1, <4>2, <1>4
      <4> QED BY <4>3 DEF t
    <3> HIDE DEF sum
    <3> QED BY <3>1, <2>1, <1>1, LengthIs DEF top
  <2>3. decApplyRound(w, set) = Work(Fin(neg, len, sum, y), r, st)
    BY <1>4, <1>6
  <2> HIDE DEF sum
  <2>4. LET o == WithinRange(Work(Fin(neg, len, sum, y), r, st), set)
        IN  /\ o.n = Ranged(neg, sum, y, set)
            /\ o.status = st \cup (IF Beyond(sum, y, set) THEN OverflowFlags
                                   ELSE When(Folded(y, set), {"Clamped"}))
    BY <2>1, <2>2, WithinIs
  <2> HIDE DEF kept, z
  <2> QED BY <2>1, <2>3, <2>4 DEF out, kept, z, sum, w, b, NormalAs
<1> QED BY <1>5, <1>6 DEF NormalAs

(***************************************************************************)
(* Below the normal range the number is cut once more, at Etiny.           *)
(***************************************************************************)
LEMMA RestStays ==
  ASSUME NEW e \in Nat, NEW k \in Nat, NEW m \in Nat, k <= m, e % TenTo[k] # 0
  PROVE  e % TenTo[m] # 0
<1> DEFINE f == TenTo[k]
           g == TenTo[m - k]
<1>1. m - k \in Nat /\ k + (m - k) = m
  OBVIOUS
<1>2. TenTo[m] = f * g /\ f \in Nat \ {0} /\ g \in Nat \ {0}
  <2> DEFINE d == m - k
  <2> HIDE DEF d
  <2>1. TenTo[k + d] = TenTo[k] * TenTo[d] /\ TenTo[k] \in Nat \ {0} /\ TenTo[d] \in Nat \ {0}
    BY <1>1, TenSum, Ten DEF d
  <2>2. k + d = m
    BY <1>1 DEF d
  <2> QED BY <2>1, <2>2 DEF d
<1>3. e % f # 0
  OBVIOUS
<1> HIDE DEF f, g
<1>4. e % (f * g) # 0
  BY <1>2, <1>3, NestedDiv
<1> QED BY <1>2, <1>4

\* How long what is left is.
LEMMA LeftLength ==
  ASSUME NEW e \in Nat \ {0}, NEW m \in Nat
  PROVE  LET n == Places(e, 10)
             len == IF n <= m THEN 1 ELSE n - m
         IN  /\ e \div TenTo[m] \in Nat /\ e \div TenTo[m] < TenTo[len]
             /\ n <= m => e \div TenTo[m] = 0
             /\ n > m => e \div TenTo[m] >= TenTo[len - 1]
             /\ len \in Nat \ {0}
<1> DEFINE n == Places(e, 10)
           f == TenTo[m]
           q == e \div f
<1>1. n \in Nat \ {0} /\ e < TenTo[n] /\ TenTo[n] \in Nat /\ f \in Nat \ {0}
  BY Lengths, Ten
<1>2. q \in Nat
  <2> HIDE DEF f
  <2> QED BY <1>1
<1>3. CASE n <= m
  <2>1. TenTo[n] <= f
    <3> HIDE DEF n
    <3> QED BY <1>1, <1>3, TenMono
  <2>2. q = 0
    <3> HIDE DEF n, f
    <3> QED BY <1>1, <2>1
  <2>3. TenTo[1] = 10
    <3>1. 0 \in Nat /\ 0 + 1 = 1
      OBVIOUS
    <3>2. TenTo[0 + 1] = 10 * TenTo[0]
      BY <3>1, TenNext
    <3> QED BY <3>1, <3>2, TenZero
  <2> DEFINE len == IF n <= m THEN 1 ELSE n - m
  <2>4. len = 1
    BY <1>3
  <2> HIDE DEF n, q, len
  <2>5. /\ q \in Nat /\ q < TenTo[len] /\ len \in Nat \ {0}
        /\ n <= m => q = 0
        /\ n > m => q >= TenTo[len - 1]
    <3>1. ~(n > m)
      BY <1>1, <1>3
    <3>2. 0 < TenTo[len]
      BY <2>3, <2>4
    <3> QED BY <1>3, <2>2, <2>4, <3>1, <3>2
  <2> QED BY <2>5 DEF q, n, len
<1>4. CASE ~(n <= m)
  <2>1. q \in Nat \ {0} /\ Places(q, 10) = n - m /\ n - m \in Nat \ {0}
    <3>1. m < n
      BY <1>1, <1>4
    <3>2. e \div TenTo[m] \in Nat \ {0} /\ Places(e \div TenTo[m], 10) = Places(e, 10) - m
      BY <3>1, CutLength
    <3> HIDE DEF n
    <3> QED BY <3>1, <3>2, <1>1 DEF n
  <2> HIDE DEF q, n
  <2>2. q < TenTo[n - m] /\ q >= TenTo[(n - m) - 1]
    BY <2>1, Lengths
  <2> QED BY <1>1, <1>4, <2>1, <2>2 DEF q, n
<1> QED BY <1>1, <1>3, <1>4

LEMMA ShiftOne ==
  ASSUME NEW neg, NEW dg, NEW cf, NEW exp, NEW n, n = Fin(neg, dg, cf, exp)
  PROVE  [decShiftToMost(n, 1) EXCEPT !.exp = @ - 1] = Fin(neg, dg + 1, cf * TenTo[1], exp - 1)
<1> DEFINE f == TenTo[1]
           n1 == [n EXCEPT !.coef = @ * f]
           n2 == [n1 EXCEPT !.digits = @ + 1]
           n3 == [n2 EXCEPT !.exp = @ - 1]
<1>1. decShiftToMost(n, 1) = [n EXCEPT !.coef = @ * f, !.digits = @ + 1]
  BY DEF decShiftToMost
<1>2. [n EXCEPT !.coef = @ * f, !.digits = @ + 1] = n2
  <2> HIDE DEF f
  <2> USE DEF n1
  <2>1. \A m : [m EXCEPT !.coef = @ * f, !.digits = @ + 1] = [[m EXCEPT !.coef = @ * f] EXCEPT !.digits = @ + 1]
    OBVIOUS
  <2> QED BY <2>1
<1> HIDE DEF f
<1>3. n1 = Fin(neg, dg, cf * f, exp)
  BY DEF Fin
<1> HIDE DEF n1
<1>4. n2 = Fin(neg, dg + 1, cf * f, exp)
  BY <1>3 DEF Fin
<1> HIDE DEF n2
<1>5. n3 = Fin(neg, dg + 1, cf * f, exp - 1)
  BY <1>4 DEF Fin
<1> QED BY <1>1, <1>2, <1>5 DEF f

\* The rounding at Etiny, where w is what the cut left.
LEMMA AtEtinyRight ==
  ASSUME NEW set, Settled(set), NEW neg \in BOOLEAN,
         NEW len \in Nat \ {0}, NEW q \in Nat, q < TenTo[len],
         (q >= TenTo[len - 1] /\ len < set.digits) \/ (q = 0 /\ len = 1),
         NEW unit \in Nat \ {0}, NEW rem \in Nat, NEW r, Tells(r, rem, unit), NEW st,
         NEW set2, set2.round = set.round, set2.emax = set.emax
  PROVE  LET sum == q + Up(set.round, neg, q, rem, unit)
             w == Work(Fin(neg, len, q, Etiny(set)), r, st)
             out == AtEtiny(decApplyRound(w, set2), Etiny(set))
         IN  /\ sum \in Nat /\ sum <= TenTo[len]
             /\ out.n = Ref!Finite(neg, sum, Etiny(set))
             /\ out.status = st \cup When("Inexact" \in st, {"Underflow"})
                               \cup When(sum = 0, {"Clamped"})
<1> DEFINE t == Etiny(set)
           b == Up(set.round, neg, q, rem, unit)
           sum == q + b
           w == Work(Fin(neg, len, q, t), r, st)
           app == decApplyRound(w, set2)
           out == AtEtiny(app, t)
           n == ShiftBack(app.n, t)
           top == TenTo[len]
           low == TenTo[len - 1]
           v == Work(Fin(neg, len, low, t + 1), r, st)
<1>1. /\ t \in Int /\ set.round \in Roundings /\ set.emax \in Nat /\ set.digits \in Nat \ {0}
      /\ t = (set.emin - set.digits) + 1 /\ set.emin \in Int /\ set.emin <= 0
  BY RangeIs DEF Settled
<1>2. top \in Nat \ {0} /\ low \in Nat \ {0} /\ top = 10 * low
  <2>1. len - 1 \in Nat /\ len \in Nat
    OBVIOUS
  <2> QED BY <2>1, Ten, TenBefore
<1>3. /\ b \in {0, 1} /\ sum <= top
      /\ sum = top => app = BumpNines(w, set2)
      /\ sum # top => app = Work(Fin(neg, len, sum, t), r, st)
  <2>1. set2.round \in Roundings
    BY <1>1
  <2>2. LET b2 == Up(set2.round, neg, q, rem, unit)
        IN  /\ b2 \in {0, 1}
            /\ q + b2 <= TenTo[len]
            /\ q + b2 = TenTo[len] => app = BumpNines(w, set2)
            /\ q + b2 # TenTo[len] => app = Work(Fin(neg, len, q + b2, t), r, st)
    BY <2>1, RoundApplied
  <2> HIDE DEF app, w, t
  <2> QED BY <2>2
<1>4. sum \in Nat
  <2> HIDE DEF b
  <2> QED BY <1>3
<1>5. sum = top => app = v
  <2> SUFFICES ASSUME sum = top PROVE app = v
    OBVIOUS
  <2>1. BumpNines(w, set2) = IF TooBig(v.n, set2) THEN decSetOverflow(v, set2) ELSE v
    BY NinesBumped
  <2>2. v.n.exp = t + 1 /\ v.n.digits = len
    BY WorkFields, FinFields
  <2>3. len < set.digits
    <3>1. CASE q = 0 /\ len = 1
      <4>1. low = 1
        BY <3>1, TenZero
      <4> HIDE DEF b, top, low
      <4>2. sum <= 1 /\ top = 10
        BY <3>1, <4>1, <1>2, <1>3
      <4> QED BY <4>2
    <3> QED BY <3>1
  <2> HIDE DEF v, w, app, t
  <2>4. ~((t + 1) + len > set.emax + 1)
    BY <1>1, <2>3
  <2>5. ~TooBig(v.n, set2)
    BY <2>2, <2>4 DEF TooBig
  <2> QED BY <1>3, <2>1, <2>5
<1>6. n = Fin(neg, Places(sum, 10), sum, t) /\ app.status = st
  <2>1. CASE sum = top
    <3> DEFINE m == Fin(neg, len, low, t + 1)
    <3>1. app.n = m /\ app.status = st /\ m.exp = t + 1
      <4>1. v.n = m /\ v.status = st /\ m.exp = t + 1
        BY WorkFields, FinFields
      <4> HIDE DEF app, v, m
      <4> QED BY <4>1, <1>5, <2>1
    <3>2. TenTo[1] = 10
      <4>1. 0 \in Nat /\ 0 + 1 = 1
        OBVIOUS
      <4>2. TenTo[0 + 1] = 10 * TenTo[0]
        BY <4>1, TenNext
      <4> QED BY <4>1, <4>2, TenZero
    <3>3. [decShiftToMost(m, 1) EXCEPT !.exp = @ - 1] = Fin(neg, len + 1, low * TenTo[1], (t + 1) - 1)
      BY ShiftOne
    <3>4. low * TenTo[1] = sum /\ (t + 1) - 1 = t
      <4> HIDE DEF top, low, t, sum
      <4> QED BY <1>1, <1>2, <2>1, <3>2
    <3>5. Places(sum, 10) = len + 1
      <4>1. TenTo[len + 1] = 10 * top /\ len + 1 \in Nat \ {0} /\ (len + 1) - 1 = len
        <5>1. len \in Nat
          OBVIOUS
        <5> QED BY <5>1, TenNext
      <4>2. sum < TenTo[len + 1] /\ sum >= TenTo[len]
        <5> HIDE DEF low, sum
        <5>1. sum = top /\ top \in Nat \ {0} /\ TenTo[len + 1] = 10 * top
          BY <1>2, <2>1, <4>1
        <5>2. top = TenTo[len]
          BY DEF top
        <5> HIDE DEF top
        <5>3. sum < 10 * top /\ sum >= top
          BY <5>1
        <5> QED BY <5>1, <5>2, <5>3
      <4>3. sum < TenTo[len + 1] /\ sum >= TenTo[(len + 1) - 1]
        BY <4>1, <4>2
      <4> HIDE DEF sum
      <4> QED BY <4>1, <4>3, <1>4, LengthIs
    <3> HIDE DEF app, m, t, sum
    <3>6. n = [decShiftToMost(m, 1) EXCEPT !.exp = @ - 1]
      BY <1>1, <3>1 DEF ShiftBack
    <3>7. n = Fin(neg, Places(sum, 10), sum, t)
      <4> HIDE DEF n, low
      <4> QED BY <3>3, <3>4, <3>5, <3>6 DEF m
    <3> QED BY <3>1, <3>7 DEF sum, app, t
  <2>2. CASE sum # top
    <3> DEFINE m == Fin(neg, len, sum, t)
    <3>1. app.n = m /\ app.status = st /\ m.exp = t
      <4>1. Work(m, r, st).n = m /\ Work(m, r, st).status = st /\ m.exp = t
        BY WorkFields, FinFields
      <4>2. app = Work(m, r, st)
        BY <1>3, <2>2
      <4> HIDE DEF app, m
      <4> QED BY <4>1, <4>2
    <3>2. Places(sum, 10) = len
      <4>1. CASE q >= low
        <5>1. sum >= low /\ sum < top
          <6> HIDE DEF b, top, low
          <6> QED BY <4>1, <1>2, <1>3, <2>2
        <5> HIDE DEF sum
        <5> QED BY <5>1, <1>4, LengthIs DEF top, low
      <4>2. CASE q = 0 /\ len = 1
        <5>1. sum \in {0, 1}
          <6> HIDE DEF b
          <6> QED BY <4>2, <1>3
        <5>2. sum = 0 => Places(sum, 10) = 1
          <6> HIDE DEF sum
          <6> QED BY <1>4, Lengths
        <5>3. sum = 1 => Places(sum, 10) = 1
          <6> SUFFICES ASSUME sum = 1 PROVE Places(sum, 10) = 1
            OBVIOUS
          <6>1. TenTo[1 - 1] = 1 /\ 1 < TenTo[1] /\ 1 \in Nat \ {0}
            <7>1. 1 - 1 = 0 /\ TenTo[1] = top
              BY <4>2
            <7>2. low = 1
              BY <4>2, TenZero
            <7> HIDE DEF top, low
            <7>3. top = 10
              BY <1>2, <7>2
            <7> QED BY <7>1, <7>3, TenZero
          <6> HIDE DEF sum
          <6> QED BY <6>1, LengthIs
        <5> HIDE DEF sum
        <5> QED BY <5>1, <5>2, <5>3, <4>2
      <4> QED BY <4>1, <4>2
    <3> HIDE DEF app, m, t
    <3>3. n = m
      BY <1>1, <3>1 DEF ShiftBack
    <3>4. m = Fin(neg, Places(sum, 10), sum, t)
      <4> HIDE DEF sum
      <4> QED BY <3>2 DEF m
    <3> HIDE DEF n, sum
    <3> QED BY <3>1, <3>3, <3>4 DEF n, sum, app, t
  <2> QED BY <2>1, <2>2
<1> HIDE DEF n, app, t, sum, b, w
<1>7. n = Ref!Finite(neg, sum, t) /\ n.coef = sum /\ n.digits = Places(sum, 10) /\ n.kind = "fin"
  <2> DEFINE ln == Places(sum, 10)
  <2>1. Ref!Finite(neg, sum, t) = Fin(neg, ln, sum, t)
    <3>1. ln = Places(sum, 10)
      OBVIOUS
    <3> HIDE DEF ln
    <3> QED BY <3>1, FinIs
  <2> HIDE DEF ln
  <2>2. n = Fin(neg, ln, sum, t)
    BY <1>6 DEF ln
  <2> QED BY <2>1, <2>2, FinFields DEF ln
<1>8. ISZERO(n) <=> sum = 0
  <2>1. sum = 0 => Places(sum, 10) = 1
    BY PlacesZero
  <2> QED BY <1>7, <2>1 DEF ISZERO
<1>9. /\ out.n = n
      /\ out.status = st \cup When("Inexact" \in st, {"Underflow"}) \cup When(sum = 0, {"Clamped"})
  <2> DEFINE flags == When("Inexact" \in st, {"Underflow"})
             a == Flagged(Holding(Underflowed(app), n), When(ISZERO(n), {"Clamped"}))
  <2>1. out = a
    BY DEF AtEtiny, n
  <2>2. Underflowed(app).status = st \cup flags
    BY <1>6 DEF Underflowed, Flagged, Work
  <2> HIDE DEF flags
  <2>3. a.n = n /\ a.status = Underflowed(app).status \cup When(ISZERO(n), {"Clamped"})
    BY DEF Flagged, Holding, Work
  <2> HIDE DEF a, out
  <2>4. When(ISZERO(n), {"Clamped"}) = When(sum = 0, {"Clamped"})
    BY <1>8 DEF When
  <2> QED BY <2>1, <2>2, <2>3, <2>4 DEF flags
<1> HIDE DEF out
<1>10. /\ sum \in Nat /\ sum <= top
       /\ out.n = Ref!Finite(neg, sum, t)
       /\ out.status = st \cup When("Inexact" \in st, {"Underflow"}) \cup When(sum = 0, {"Clamped"})
  BY <1>3, <1>4, <1>7, <1>9
<1> QED BY <1>10 DEF out, app, t, sum, b, w

\* The flags of the two cuts are those of the one at the lower place.
LEMMA ToldTwice ==
  ASSUME NEW e \in Nat, NEW k \in Nat, NEW m \in Nat, k < m
  PROVE  (Told(k, e % TenTo[k]) \cup {"Subnormal"}) \cup CutFlags(e % TenTo[m])
           = Told(m, e % TenTo[m]) \cup {"Subnormal"}
<1> DEFINE a == e % TenTo[k]
           b == e % TenTo[m]
<1>1. a # 0 => b # 0
  BY RestStays
<1>2. m > 0
  OBVIOUS
<1> HIDE DEF a, b
<1>3. (Told(k, a) \cup {"Subnormal"}) \cup CutFlags(b) = Told(m, b) \cup {"Subnormal"}
  BY <1>1, <1>2 DEF Told, CutFlags, When
<1> QED BY <1>3 DEF a, b

\* A number below the normal range is rounded at Etiny.
LEMMA SubnormalIs ==
  ASSUME NEW set, Settled(set), NEW neg, NEW len \in Nat, NEW q \in Nat \ {0},
         NEW y \in Int, NEW r, NEW st
  PROVE  LET w == Work(Fin(neg, len, q, y), r, st)
             adjust == Etiny(set) - y
             sub == Work(Fin(neg, len, q, y), r, st \cup {"Subnormal"})
             length == len - adjust
         IN  \E workset :
               /\ workset.round = set.round /\ workset.emax = set.emax
               /\ decSetSubnormal(w, set) =
                    IF adjust <= 0 THEN Underflowed(sub)
                    ELSE AtEtiny(decApplyRound(decSetCoeff(sub, length, q, len), workset), Etiny(set))
<1> DEFINE n == Fin(neg, len, q, y)
           w == Work(n, r, st)
           sub == Work(n, r, st \cup {"Subnormal"})
           adjust == Etiny(set) - y
           length == len - adjust
           workset == [set EXCEPT !.digits = length, !.emin = @ - adjust]
<1>1. w.n = n /\ w.residue = r /\ w.status = st /\ n.exp = y /\ n.coef = q /\ n.digits = len
  BY WorkFields, FinFields
<1> HIDE DEF n
<1>2. Flagged(w, {"Subnormal"}) = sub
  BY <1>1 DEF Flagged
<1> HIDE DEF w, sub
<1>3. ~ISZERO(w.n) /\ set.extended
  BY <1>1 DEF ISZERO, Settled
<1>4. decSetSubnormal(w, set) =
        IF adjust <= 0 THEN Underflowed(sub)
        ELSE AtEtiny(decApplyRound(decSetCoeff(sub, length, q, len), workset), Etiny(set))
  <2>1. CASE adjust <= 0
    BY <1>1, <1>2, <1>3, <2>1 DEF decSetSubnormal
  <2>2. CASE ~(adjust <= 0)
    BY <1>1, <1>2, <1>3, <2>2 DEF decSetSubnormal
  <2> QED BY <2>1, <2>2
<1>5. workset.round = set.round /\ workset.emax = set.emax
  OBVIOUS
<1> HIDE DEF workset
<1> QED BY <1>4, <1>5 DEF w, sub, n

\* Where a subnormal number is cut.
\* What rounding leaves of a subnormal number.
TinyAs(set, neg, e, x, k, r) ==
  LET n == Places(e, 10)
      w == Work(Fin(neg, n - k, e \div TenTo[k], x + k), r, Told(k, e % TenTo[k]))
      out == decSetSubnormal(w, set)
      m == IF Etiny(set) - x > k THEN Etiny(set) - x ELSE k
      sum == Rounded(set.round, neg, e, m)
  IN  /\ m \in Nat /\ sum \in Nat /\ sum < TenTo[set.digits]
      /\ x + m + Places(sum, 10) - 1 <= set.emin /\ (set.clamp => x + m <= Etop(set))
      /\ out.n = Ref!Finite(neg, sum, x + m)
      /\ out.status = Told(m, e % TenTo[m]) \cup {"Subnormal"}
                        \cup When(e % TenTo[m] # 0, {"Underflow"})
                        \cup When(sum = 0, {"Clamped"})

LEMMA TinyRight ==
  ASSUME NEW set, Settled(set), NEW neg \in BOOLEAN, NEW e \in Nat \ {0}, NEW x \in Int,
         NEW k \in Nat, k < Places(e, 10), Places(e, 10) - k <= set.digits,
         k > 0 => Places(e, 10) - k = set.digits,
         NEW r, Tells(r, e % TenTo[k], TenTo[k]),
         x + Places(e, 10) - 1 < set.emin
  PROVE  TinyAs(set, neg, e, x, k, r)
<1> DEFINE n == Places(e, 10)
           t == Etiny(set)
           p == set.digits
           q == e \div TenTo[k]
           y == x + k
           len == n - k
           st == Told(k, e % TenTo[k])
           f == Fin(neg, len, q, y)
           w == Work(f, r, st)
           sub == Work(f, r, st \cup {"Subnormal"})
           adjust == t - y
           length == len - adjust
           cut == decSetCoeff(sub, length, q, len)
           out == decSetSubnormal(w, set)
           m == IF t - x > k THEN t - x ELSE k
           sum == Rounded(set.round, neg, e, m)
           Right == /\ m \in Nat /\ sum \in Nat /\ sum < TenTo[p]
                    /\ x + m + Places(sum, 10) - 1 <= set.emin /\ (set.clamp => x + m <= Etop(set))
                    /\ out.n = Ref!Finite(neg, sum, x + m)
                    /\ out.status = Told(m, e % TenTo[m]) \cup {"Subnormal"}
                                      \cup When(e % TenTo[m] # 0, {"Underflow"})
                                      \cup When(sum = 0, {"Clamped"})
<1>1. /\ n \in Nat \ {0} /\ len \in Nat \ {0} /\ e < TenTo[n] /\ y \in Int
  <2>1. n \in Nat \ {0} /\ e < TenTo[n]
    BY Lengths
  <2> HIDE DEF n
  <2> QED BY <2>1 DEF n
<1>2. q \in Nat \ {0} /\ Places(q, 10) = len
  BY CutLength
<1>3. /\ t \in Int /\ set.round \in Roundings /\ set.emax \in Nat /\ p \in Nat \ {0} /\ p \in Nat
      /\ t = (set.emin - p) + 1 /\ set.emin \in Int /\ set.emin <= 0
      /\ Etop(set) = (set.emax - p) + 1
  BY RangeIs DEF Settled
<1>4. PICK workset :
        /\ workset.round = set.round /\ workset.emax = set.emax
        /\ out = IF adjust <= 0 THEN Underflowed(sub)
                 ELSE AtEtiny(decApplyRound(cut, workset), t)
  <2> HIDE DEF q, len, st, y
  <2>1. len \in Nat
    BY <1>1
  <2> QED BY <2>1, <1>1, <1>2, SubnormalIs
<1>5. /\ len <= p /\ (k > 0 => len = p) /\ k < n /\ x + n - 1 < set.emin
  OBVIOUS
<1>6. ASSUME adjust <= 0 PROVE Right
  <2> HIDE DEF n, t, p, q, st, cut, out, sub
  <2>1. k = 0 /\ m = 0 /\ len = n /\ y = x /\ x + m = x
    BY <1>1, <1>3, <1>5, <1>6
  <2>2. TenTo[0] = 1 /\ e \div 1 = e /\ e % 1 = 0
    BY TenZero
  <2>3. sum = e
    <3>1. Up(set.round, neg, e, 0, 1) = 0
      <4>1. 1 \in Nat \ {0} /\ 0 \in 0 .. 1 - 1 /\ e \in Nat
        OBVIOUS
      <4> QED BY <4>1, <1>3, UpIs
    <3>2. Rounded(set.round, neg, e, 0) = e + 0
      BY <2>2, <3>1 DEF Rounded
    <3> HIDE DEF m
    <3> QED BY <2>1, <3>2
  <2>4. q = e /\ st = {}
    BY <2>1, <2>2 DEF q, st, Told, When
  <2> HIDE DEF m, sum, len, y, f, adjust
  <2>5. f = Ref!Finite(neg, sum, x + m)
    BY <2>1, <2>3, <2>4, FinIs DEF f, n
  <2>6. out.n = f /\ out.status = {"Subnormal"}
    <3>1. sub = Work(f, r, {"Subnormal"})
      BY <2>4 DEF sub
    <3>2. out = Underflowed(Work(f, r, {"Subnormal"}))
      BY <1>4, <1>6, <3>1
    <3> QED BY <3>2 DEF Underflowed, Flagged, Work, When
  <2>7. e % TenTo[m] = 0
    BY <2>1, <2>2
  <2>8. sum # 0 /\ sum \in Nat /\ m \in Nat
    BY <2>1, <2>3
  <2>9. sum < TenTo[p]
    <3>1. TenTo[n] <= TenTo[p]
      <4>1. n \in Nat /\ n <= p
        BY <1>1, <1>5, <2>1
      <4> QED BY <4>1, <1>3, TenMono
    <3>2. TenTo[n] \in Nat /\ TenTo[p] \in Nat
      BY <1>1, <1>3, Ten
    <3> QED BY <1>1, <2>3, <3>1, <3>2
  <2>10. x + m + Places(sum, 10) - 1 <= set.emin /\ (set.clamp => x + m <= Etop(set))
    <3>1. Places(sum, 10) = n
      BY <2>3 DEF n
    <3>2. x + m + n - 1 <= set.emin /\ (set.clamp => x + m <= Etop(set))
      BY <1>1, <1>3, <1>5, <2>1, RangeIs
    <3> QED BY <3>1, <3>2
  <2>11. Told(m, 0) = {} /\ When(0 # 0, {"Underflow"}) = {} /\ When(sum = 0, {"Clamped"}) = {}
    BY <2>1, <2>8 DEF Told, When
  <2> QED BY <2>5, <2>6, <2>7, <2>8, <2>9, <2>10, <2>11
<1>7. ASSUME ~(adjust <= 0) PROVE Right
  <2>1. m = k + adjust /\ m \in Nat /\ k < m /\ x + m = t /\ length = n - m /\ adjust \in Nat \ {0}
    <3> HIDE DEF n, t
    <3> QED BY <1>1, <1>3, <1>7
  <2> DEFINE len2 == IF n <= m THEN 1 ELSE n - m
             q2 == e \div TenTo[m]
             rest == e % TenTo[m]
             st2 == Told(m, rest) \cup {"Subnormal"}
  <2>2. /\ q2 \in Nat /\ q2 < TenTo[len2] /\ len2 \in Nat \ {0}
        /\ n <= m => q2 = 0
        /\ n > m => q2 >= TenTo[len2 - 1]
    <3> HIDE DEF m, n
    <3> QED BY <2>1, LeftLength DEF n
  <2>3. len2 = IF length <= 0 THEN 1 ELSE length
    <3> HIDE DEF n, m, length
    <3> QED BY <1>1, <2>1
  <2>4. PICK r2 : /\ Tells(r2, e % TenTo[m], TenTo[m])
                  /\ cut = Work(Fin(neg, len2, q2, t), r2, st2)
    <3>1. CutAtOnce(neg, len, q, e, k, x, length, len, r, st \cup {"Subnormal"})
      <4>1. length \in Int /\ length < len
        <5> HIDE DEF n, len, adjust
        <5> QED BY <1>1, <2>1
      <4>2. q # 0
        BY <1>2
      <4>3. length < Places(e \div TenTo[k], 10) /\ e \div TenTo[k] # 0
        BY <1>2, <4>1, <4>2
      <4> HIDE DEF length, len, q, st
      <4>4. CutAtOnce(neg, len, q, e, k, x, length, Places(e \div TenTo[k], 10), r, st \cup {"Subnormal"})
        BY <4>1, <4>3, CutRight
      <4> QED BY <4>4, <1>2 DEF q
    <3>2. k + (len - length) = m
      <4> HIDE DEF n, len, adjust, m
      <4> QED BY <1>1, <2>1
    <3> HIDE DEF len2, m, length, len, st, cut, q2, rest, t, q
    <3>3. PICK r2 : /\ Tells(r2, e % TenTo[m], TenTo[m])
                    /\ decSetCoeff(Work(Fin(neg, len, q, x + k), r, st \cup {"Subnormal"}), length, e \div TenTo[k], len)
                         = Work(Fin(neg, IF length <= 0 THEN 1 ELSE length, e \div TenTo[m], x + m),
                                r2, (st \cup {"Subnormal"}) \cup CutFlags(e % TenTo[m]))
      BY <3>1, <3>2 DEF CutAtOnce
    <3>4. cut = decSetCoeff(Work(Fin(neg, len, q, x + k), r, st \cup {"Subnormal"}), length, e \div TenTo[k], len)
      BY DEF cut, q
    <3>5. (st \cup {"Subnormal"}) \cup CutFlags(e % TenTo[m]) = st2
      BY <2>1, ToldTwice DEF st, rest
    <3> HIDE DEF st2
    <3>6. cut = Work(Fin(neg, len2, q2, t), r2, st2)
      BY <2>1, <2>3, <3>3, <3>4, <3>5 DEF q2
    <3> QED BY <3>3, <3>6
  <2>5. workset.round = set.round /\ workset.emax = set.emax
    BY <1>4
  <2> DEFINE unit == TenTo[m]
  <2>6. unit \in Nat \ {0} /\ rest \in Nat /\ Tells(r2, rest, unit)
    <3>1. unit \in Nat \ {0}
      <4> HIDE DEF m
      <4> QED BY <2>1, Ten
    <3>2. rest \in Nat
      <4> HIDE DEF unit
      <4> QED BY <3>1 DEF unit
    <3> HIDE DEF m
    <3> QED BY <3>1, <3>2, <2>4
  <2>7. (q2 >= TenTo[len2 - 1] /\ len2 < p) \/ (q2 = 0 /\ len2 = 1)
    <3>1. CASE n <= m
      BY <3>1, <2>2
    <3>2. CASE ~(n <= m)
      <4> HIDE DEF q2, m, n, p
      <4>1. len2 = n - m /\ n > m
        BY <3>2, <1>1, <2>1
      <4>2. len2 < p
        BY <4>1, <1>1, <1>3, <1>5, <2>1
      <4> HIDE DEF len2
      <4> QED BY <4>1, <4>2, <2>2
    <3> QED BY <3>1, <3>2
  <2>8. sum = q2 + Up(set.round, neg, q2, rest, unit)
    BY DEF Rounded
  <2> HIDE DEF m, n, q2, rest, unit, len2, sum, cut, st2, t
  <2> DEFINE end == AtEtiny(decApplyRound(cut, workset), t)
  <2>9. /\ sum \in Nat /\ sum <= TenTo[len2]
        /\ end.n = Ref!Finite(neg, sum, t)
        /\ end.status = st2 \cup When("Inexact" \in st2, {"Underflow"}) \cup When(sum = 0, {"Clamped"})
    <3>1. LET s == q2 + Up(set.round, neg, q2, rest, unit)
              v == Work(Fin(neg, len2, q2, Etiny(set)), r2, st2)
              o == AtEtiny(decApplyRound(v, workset), Etiny(set))
          IN  /\ s \in Nat /\ s <= TenTo[len2]
              /\ o.n = Ref!Finite(neg, s, Etiny(set))
              /\ o.status = st2 \cup When("Inexact" \in st2, {"Underflow"}) \cup When(s = 0, {"Clamped"})
      BY <2>2, <2>5, <2>6, <2>7, AtEtinyRight DEF p
    <3> QED BY <3>1, <2>4, <2>8 DEF t
  <2>10. out = end
    BY <1>4, <1>7 DEF cut
  <2>11. "Inexact" \in st2 <=> rest # 0
    BY DEF st2, Told, When
  <2>12. sum < TenTo[p] /\ x + m + Places(sum, 10) - 1 <= set.emin /\ (set.clamp => x + m <= Etop(set))
    <3>1. p \in Nat /\ len2 \in Nat
      BY <1>3, <2>2
    <3>2. Places(sum, 10) \in Nat \ {0} /\ TenTo[len2] \in Nat \ {0} /\ TenTo[p] \in Nat \ {0}
      BY <2>9, <3>1, Lengths, Ten
    <3>3. CASE q2 = 0 /\ len2 = 1
      <4>1. sum \in {0, 1}
        <5>1. Up(set.round, neg, q2, rest, unit) \in {0, 1}
          BY DEF Up
        <5> QED BY <5>1, <3>3, <2>8
      <4>2. TenTo[p] >= 10
        <5>1. 0 \in Nat /\ 0 < p
          BY <1>3
        <5> QED BY <5>1, <1>3, TenGap, TenZero
      <4>3. Places(sum, 10) = 1
        <5>1. 1 < TenTo[1] /\ 1 >= TenTo[1 - 1] /\ 1 \in Nat /\ 1 \in Nat \ {0}
          <6>1. 0 \in Nat /\ 1 \in Nat /\ 0 < 1 /\ 1 - 1 = 0
            OBVIOUS
          <6>2. 10 * TenTo[0] <= TenTo[1]
            BY <6>1, TenGap
          <6> QED BY <6>1, <6>2, TenZero, Ten
        <5>2. Places(1, 10) = 1
          BY <5>1, LengthIs
        <5> QED BY <4>1, <5>2, PlacesZero
      <4>4. sum < TenTo[p]
        BY <4>1, <4>2, <3>2
      <4> QED BY <4>3, <4>4, <1>3, <2>1
    <3>4. CASE len2 < p
      <4>1. 10 * TenTo[len2] <= TenTo[p]
        BY <3>4, <3>1, TenGap
      <4>2. sum < TenTo[p]
        BY <4>1, <3>2, <2>9
      <4>3. sum < TenTo[len2 + 1]
        <5>1. TenTo[len2 + 1] = 10 * TenTo[len2]
          BY <3>1, TenNext
        <5> QED BY <5>1, <3>2, <2>9
      <4>4. Places(sum, 10) <= p
        <5>1. Places(sum, 10) <= len2 + 1
          <6> SUFFICES ASSUME ~(Places(sum, 10) <= len2 + 1) PROVE FALSE
            OBVIOUS
          <6> DEFINE l == Places(sum, 10)
          <6>1. sum # 0
            <7>1. l > 1
              BY <3>1, <3>2
            <7> QED BY <7>1, PlacesZero
          <6>2. sum >= TenTo[l - 1]
            BY <6>1, <2>9, Lengths
          <6>3. len2 + 1 <= l - 1 /\ len2 + 1 \in Nat /\ l - 1 \in Nat
            <7> HIDE DEF l
            <7> QED BY <3>1, <3>2 DEF l
          <6> HIDE DEF l
          <6>4. TenTo[len2 + 1] <= TenTo[l - 1] /\ TenTo[len2 + 1] \in Nat /\ TenTo[l - 1] \in Nat
            BY <6>3, TenMono, Ten
          <6> QED BY <6>2, <6>4, <4>3, <2>9
        <5> QED BY <5>1, <3>1, <3>2, <3>4
      <4> QED BY <4>2, <4>4, <1>3, <2>1, <3>2
    <3> QED BY <3>3, <3>4, <2>7
  <2> HIDE DEF out, end
  <2> QED BY <2>1, <2>9, <2>10, <2>11, <2>12 DEF st2, rest
<1> HIDE DEF Right
<1>8. Right
  BY <1>6, <1>7
<1> QED BY <1>8 DEF Right, m, n, sum, out, w, f, q, st, len, y, t, p, TinyAs

(***************************************************************************)
(* A zero, and then the whole of the rounding chain.                       *)
(***************************************************************************)
LEMMA ZeroAt ==
  ASSUME NEW neg, NEW x, NEW y
  PROVE  [Fin(neg, 1, 0, x) EXCEPT !.exp = y] = Fin(neg, 1, 0, y)
<1> DEFINE a == 1
           b == 0
<1> HIDE DEF a, b
<1>1. [Fin(neg, a, b, x) EXCEPT !.exp = y] = Fin(neg, a, b, y)
  BY DEF Fin
<1> QED BY <1>1 DEF a, b

LEMMA ZeroFin == ASSUME NEW neg, NEW x PROVE Ref!Finite(neg, 0, x) = Fin(neg, 1, 0, x)
BY PlacesZero, FinIs

\* The exponent of a zero, brought into range.
ZeroIn(neg, x, y) == Work(Fin(neg, 1, 0, y), 0, When(x # y, {"Clamped"}))

LEMMA ZeroRight ==
  ASSUME NEW set, Settled(set), NEW neg, NEW x \in Int
  PROVE  LET high == IF set.clamp THEN Etop(set) ELSE set.emax
             y == IF x > high THEN high ELSE IF x < Etiny(set) THEN Etiny(set) ELSE x
         IN  decFinalize(Work(Fin(neg, 1, 0, x), 0, {}), set) = ZeroIn(neg, x, y)
<1> DEFINE n == Fin(neg, 1, 0, x)
           w == Work(n, 0, {})
           high == IF set.clamp THEN Etop(set) ELSE set.emax
           t == Etiny(set)
           top == Etop(set)
           y == IF x > high THEN high ELSE IF x < t THEN t ELSE x
           out == decFinalize(w, set)
<1>1. /\ t \in Int /\ top \in Int /\ set.emax \in Nat /\ set.digits \in Nat \ {0}
      /\ t = (set.emin - set.digits) + 1 /\ set.emin \in Int /\ set.emin <= 0
      /\ top = (set.emax - set.digits) + 1 /\ set.clamp \in BOOLEAN /\ set.extended
      /\ set.clamp => top >= set.emin
  BY RangeIs DEF Settled
<1>2. /\ w.n = n /\ w.residue = 0 /\ w.status = {} /\ n.exp = x /\ n.coef = 0 /\ n.digits = 1
      /\ n.kind = "fin"
  BY WorkFields, FinFields
<1>3. out = IF x + 1 - 1 < set.emin THEN decSetSubnormal(w, set)
            ELSE WithinRange(decApplyRound(w, set), set)
  <2> DEFINE a == 1
             b == 0
  <2>1. a \in Nat /\ b \in Nat
    OBVIOUS
  <2> HIDE DEF a, b
  <2>2. decFinalize(Work(Fin(neg, a, b, x), b, {}), set)
          = IF x + a - 1 < set.emin THEN decSetSubnormal(Work(Fin(neg, a, b, x), b, {}), set)
            ELSE WithinRange(decApplyRound(Work(Fin(neg, a, b, x), b, {}), set), set)
    BY <2>1, FinalizeIs
  <2> QED BY <2>2 DEF a, b
<1>4. \A z : z # x => Flagged(Holding(w, [w.n EXCEPT !.exp = z]), {"Clamped"}) = ZeroIn(neg, x, z)
  <2> TAKE z
  <2>1. [n EXCEPT !.exp = z] = Fin(neg, 1, 0, z)
    BY ZeroAt
  <2>2. Flagged(Holding(w, [w.n EXCEPT !.exp = z]), {"Clamped"}) = Work(Fin(neg, 1, 0, z), 0, {"Clamped"})
    <3> HIDE DEF w, n
    <3> QED BY <1>2, <2>1 DEF Flagged, Holding, Work
  <2> QED BY <2>2 DEF ZeroIn, When
<1>5. w = ZeroIn(neg, x, x)
  BY DEF ZeroIn, When
<1>6. ISZERO(w.n)
  BY <1>2 DEF ISZERO
<1> HIDE DEF w, n
<1>7. decApplyRound(w, set) = w
  BY <1>2 DEF decApplyRound, Bumped
<1>8. decSetSubnormal(w, set) = IF x < t THEN Flagged(Holding(w, [w.n EXCEPT !.exp = t]), {"Clamped"}) ELSE w
  <2>1. set.extended /\ ISZERO(w.n)
    BY <1>1, <1>6
  <2> QED BY <2>1, <1>2 DEF decSetSubnormal
<1>9. CASE x < set.emin
  <2>1. ~(x > high)
    BY <1>1, <1>9
  <2>2. out = decSetSubnormal(w, set)
    <3>1. x + 1 - 1 < set.emin
      BY <1>9, <1>1
    <3> HIDE DEF out
    <3> QED BY <1>3, <3>1
  <2> HIDE DEF out, high, t
  <2>3. CASE x < t
    <3>1. y = t /\ t # x
      BY <1>1, <2>1, <2>3
    <3>2. out = ZeroIn(neg, x, t)
      BY <1>4, <1>8, <2>2, <2>3, <3>1
    <3> QED BY <3>1, <3>2 DEF out, high, t, w, n
  <2>4. CASE ~(x < t)
    <3>1. y = x
      BY <2>1, <2>4
    <3>2. out = w
      BY <1>8, <2>2, <2>4
    <3> QED BY <1>5, <3>1, <3>2 DEF out, high, t, w, n
  <2> QED BY <2>3, <2>4
<1>10. CASE ~(x < set.emin)
  <2>1. ~(x < t)
    BY <1>1, <1>10
  <2>2. out = WithinRange(w, set)
    <3>1. ~(x + 1 - 1 < set.emin)
      BY <1>10, <1>1
    <3> HIDE DEF out
    <3> QED BY <1>3, <1>7, <3>1
  <2>3. decSetOverflow(w, set) = IF x > high THEN Flagged(Holding(w, [w.n EXCEPT !.exp = high]), {"Clamped"}) ELSE w
    BY <1>2, <1>6 DEF decSetOverflow
  <2>4. FoldDown(w, set) = Flagged(Holding(w, [w.n EXCEPT !.exp = top]), {"Clamped"})
    BY <1>6 DEF FoldDown
  <2>5. TooBig(w.n, set) <=> x > set.emax
    BY <1>1, <1>2 DEF TooBig
  <2> HIDE DEF out, t
  <2>6. CASE x <= top
    <3>1. y = x
      BY <1>1, <2>1, <2>6
    <3>2. out = w
      <4>1. ~TooBig(w.n, set)
        BY <1>1, <2>5, <2>6
      <4> QED BY <1>2, <2>2, <2>6, <4>1 DEF WithinRange
    <3> QED BY <1>5, <3>1, <3>2 DEF out, t, w, n
  <2>7. CASE ~(x <= top) /\ x > set.emax
    <3>1. y = high /\ high # x /\ x > high
      BY <1>1, <2>7
    <3>2. out = decSetOverflow(w, set)
      BY <1>2, <2>2, <2>5, <2>7 DEF WithinRange
    <3> HIDE DEF high, y
    <3>3. out = ZeroIn(neg, x, high)
      BY <1>4, <2>3, <3>1, <3>2
    <3> QED BY <3>1, <3>3 DEF out, t, w, n, y, high
  <2>8. CASE ~(x <= top) /\ ~(x > set.emax)
    <3>1. out = IF set.clamp THEN FoldDown(w, set) ELSE w
      BY <1>2, <2>2, <2>5, <2>8 DEF WithinRange
    <3>2. CASE set.clamp
      <4>1. y = top /\ top # x
        BY <1>1, <2>8, <3>2
      <4>2. out = ZeroIn(neg, x, top)
        BY <1>4, <2>4, <3>1, <3>2, <4>1
      <4> QED BY <4>1, <4>2 DEF out, t, w, n
    <3>3. CASE ~set.clamp
      <4>1. y = x
        BY <1>1, <2>1, <2>8, <3>3
      <4> QED BY <1>5, <3>1, <3>3, <4>1 DEF out, t, w, n
    <3> QED BY <3>2, <3>3
  <2> QED BY <2>6, <2>7, <2>8
<1> QED BY <1>9, <1>10

\* The number and the flags of a work record are those of an outcome.
Gives(w, ref) == w.n = ref.n /\ w.status = ref.status

LEMMA ZeroGives ==
  ASSUME NEW set, Settled(set), NEW neg, NEW x \in Int
  PROVE  Gives(decFinalize(Work(Fin(neg, 1, 0, x), 0, {}), set), Ref!RoundZero(neg, x, set))
<1> DEFINE high == IF set.clamp THEN Etop(set) ELSE set.emax
           y == IF x > high THEN high ELSE IF x < Etiny(set) THEN Etiny(set) ELSE x
           out == decFinalize(Work(Fin(neg, 1, 0, x), 0, {}), set)
           ref == Ref!RoundZero(neg, x, set)
<1>1. out = ZeroIn(neg, x, y)
  BY ZeroRight
<1>2. ref = [n |-> Ref!Finite(neg, 0, y), status |-> IF y = x THEN {} ELSE {"Clamped"}]
  BY RefEtiny DEF Ref!RoundZero
<1> HIDE DEF y, out, ref
<1>3. out.n = ref.n /\ out.status = ref.status
  BY <1>1, <1>2, ZeroFin DEF ZeroIn, Work, When
<1> QED BY <1>3 DEF Gives, out, ref

LEMMA ZeroCut ==
  ASSUME NEW set, Settled(set), NEW neg, NEW x, NEW dg, NEW cf
  PROVE  decSetCoeff(Work(Fin(neg, dg, cf, x), 0, {}), set.digits, 0, Places(0, 10))
           = Work(Fin(neg, 1, 0, x), 0, {})
<1>1. set.digits \in Int /\ 1 \in Int /\ 1 <= set.digits /\ Places(0, 10) = 1
  BY PlacesZero DEF Settled
<1> DEFINE a == 1
           b == 0
<1> HIDE DEF a, b
<1>2. a <= set.digits /\ a \in Int /\ set.digits \in Int
  BY <1>1 DEF a
<1>3. decSetCoeff(Work(Fin(neg, dg, cf, x), 0, {}), set.digits, b, a) = Work(Fin(neg, a, b, x), 0, {})
  BY <1>2, ShortCut
<1> QED BY <1>1, <1>3 DEF a, b

\* A number cut to p digits, and its residue.
IsCut(w, neg, e, x, p) ==
  LET n == Places(e, 10)
      k == IF n > p THEN n - p ELSE 0
  IN  \E r : /\ Tells(r, e % TenTo[k], TenTo[k])
             /\ w = Work(Fin(neg, n - k, e \div TenTo[k], x + k), r, Told(k, e % TenTo[k]))

LEMMA SetCoeffCuts ==
  ASSUME NEW neg, NEW dg, NEW cf, NEW e \in Nat \ {0}, NEW x \in Int, NEW p \in Nat \ {0}
  PROVE  IsCut(decSetCoeff(Work(Fin(neg, dg, cf, x), 0, {}), p, e, Places(e, 10)), neg, e, x, p)
<1> DEFINE n == Places(e, 10)
           k == IF n > p THEN n - p ELSE 0
           w == decSetCoeff(Work(Fin(neg, dg, cf, x), 0, {}), p, e, n)
<1>1. \E r : /\ Tells(r, e % TenTo[k], TenTo[k])
             /\ w = Work(Fin(neg, n - k, e \div TenTo[k], x + k), r, Told(k, e % TenTo[k]))
  <2>1. WholeCut(neg, dg, cf, e, x, p)
    BY CutWhole
  <2> QED BY <2>1 DEF WholeCut
<1> HIDE DEF w, k
<1>2. IsCut(w, neg, e, x, p)
  BY <1>1 DEF IsCut, k
<1> QED BY <1>2 DEF w

\* A number cut to the precision is rounded once: to the digit and to the flag
\* what the reference says.
LEMMA CutGives ==
  ASSUME NEW set, Settled(set), NEW neg \in BOOLEAN, NEW e \in Nat \ {0}, NEW x \in Int,
         NEW w, IsCut(w, neg, e, x, set.digits)
  PROVE  Gives(decFinalize(w, set), Ref!RoundTo(neg, e, x, set))
<1>1. e # 0
  OBVIOUS
<1>2. Gives(decFinalize(w, set), Ref!RoundTo(neg, e, x, set))
  <2> DEFINE n == Places(e, 10)
             p == set.digits
             t == Etiny(set)
             k == IF n > p THEN n - p ELSE 0
             out == decFinalize(w, set)
             m == IF t - x > k THEN t - x ELSE k
             q == e \div TenTo[k]
             rest == e % TenTo[k]
             a == Ref!RoundAt(set.round, neg, e, Ref!Least({m, Ref!Digits(e) + 1}))
             fit == Ref!Fitted(neg, e, x, m, a, set)
             sum == Rounded(set.round, neg, e, m)
             tiny == x + n - 1 < set.emin
  <2>1. /\ t \in Int /\ set.emax \in Nat /\ p \in Nat \ {0} /\ p \in Nat /\ set.round \in Roundings
        /\ t = (set.emin - p) + 1 /\ set.emin \in Int /\ set.emin <= 0
        /\ Etop(set) \in Int /\ Etop(set) = (set.emax - p) + 1
    BY RangeIs DEF Settled
  <2>2. n \in Nat \ {0} /\ e \in Nat \ {0}
    BY Lengths
  <2>3. /\ k \in Nat /\ k < n /\ n - k \in Nat \ {0} /\ n - k <= p /\ (k > 0 => n - k = p)
        /\ q \in Nat \ {0} /\ Places(q, 10) = n - k
        /\ k = 0 => rest = 0
    <3> DEFINE neg0 == FALSE
    <3> HIDE DEF neg0, p
    <3>1. WholeCut(neg0, p, p, e, x, p)
      BY <2>1, <2>2, CutWhole
    <3> QED BY <3>1 DEF WholeCut, p
  <2>4. PICK r : Tells(r, rest, TenTo[k]) /\ w = Work(Fin(neg, n - k, q, x + k), r, Told(k, rest))
    BY DEF IsCut
  <2>5. m \in Nat
    <3> HIDE DEF k, t
    <3> QED BY <2>1, <2>3
  <2>6. Ref!RoundTo(neg, e, x, set) = fit
    <3> DEFINE drop == Ref!Most({0, Ref!Digits(e) - set.digits, Ref!Etiny(set) - x})
    <3>1. Ref!Digits(e) = n /\ Ref!Etiny(set) = t
      BY RefDigits, RefEtiny
    <3>2. drop = m
      <4>1. 0 \in Int /\ n - p \in Int /\ t - x \in Int
        BY <2>1, <2>2
      <4> DEFINE u == n - p
                 v == t - x
                 z == 0
      <4>2. (IF u <= z /\ v <= z THEN z ELSE IF v <= u THEN u ELSE v) = m
        <5> HIDE DEF n, p, t
        <5> QED BY <2>1, <2>2
      <4>3. z \in Int /\ u \in Int /\ v \in Int
        BY <4>1
      <4> HIDE DEF n, p, t, m, u, v, z
      <4>4. Ref!Most({z, u, v}) = m
        BY <4>2, <4>3, RefMost
      <4> QED BY <3>1, <4>4 DEF u, v, z, p
    <3>3. Ref!RoundTo(neg, e, x, set) = Ref!Fitted(neg, e, x, drop, Ref!RoundAt(set.round, neg, e, Ref!Least({drop, Ref!Digits(e) + 1})), set)
      BY <1>1 DEF Ref!RoundTo
    <3> HIDE DEF drop, m
    <3> QED BY <3>2, <3>3
  <2>7. a.q = sum /\ a.inexact = (e % TenTo[m] # 0)
    <3> HIDE DEF m
    <3> QED BY <2>1, <2>2, <2>5, RoundAtIs
  <2>8. sum \in Nat
    <3> DEFINE f == TenTo[m]
               g == e \div f
               h == e % f
    <3>1. f \in Nat \ {0}
      <4> HIDE DEF m
      <4> QED BY <2>5, Ten
    <3> HIDE DEF f
    <3>2. g \in Nat
      BY <3>1
    <3> HIDE DEF g, h
    <3>3. Up(set.round, neg, g, h, f) \in {0, 1}
      BY DEF Up
    <3>4. g + Up(set.round, neg, g, h, f) \in Nat
      BY <3>2, <3>3
    <3> QED BY <3>4 DEF Rounded, f, g, h
  <2> DEFINE kept == Kept(sum, set)
             z == x + m + CarriedIn(sum, set)
             inexact == e % TenTo[m] # 0
  <2>9. /\ fit.n = Ranged(neg, kept, z, set)
        /\ fit.status = IF Beyond(kept, z, set) THEN OverflowFlags
                        ELSE When(m > 0, {"Rounded"}) \cup When(inexact, {"Inexact"})
                               \cup When(tiny, {"Subnormal"})
                               \cup When(tiny /\ inexact, {"Underflow"})
                               \cup When(Folded(z, set) \/ kept = 0, {"Clamped"})
    <3>1. a.q \in Nat /\ a.inexact \in BOOLEAN
      <4> HIDE DEF a, sum, m
      <4> QED BY <2>7, <2>8
    <3> HIDE DEF a, m
    <3>2. LET q1 == Kept(a.q, set)
              y1 == x + m + CarriedIn(a.q, set)
          IN  /\ fit.n = Ranged(neg, q1, y1, set)
              /\ fit.status = IF Beyond(q1, y1, set) THEN OverflowFlags
                              ELSE When(m > 0, {"Rounded"}) \cup When(a.inexact, {"Inexact"})
                                     \cup When(tiny, {"Subnormal"})
                                     \cup When(tiny /\ a.inexact, {"Underflow"})
                                     \cup When(Folded(y1, set) \/ q1 = 0, {"Clamped"})
      <4>1. FitsAs(set, neg, e, x, m, a)
        BY <3>1, <2>2, <2>5, FittedIs
      <4> QED BY <4>1 DEF FitsAs
    <3> HIDE DEF tiny, fit, sum
    <3> QED BY <3>2, <2>7
  <2>10. out = IF tiny THEN decSetSubnormal(w, set) ELSE WithinRange(decApplyRound(w, set), set)
    <3> DEFINE y == x + k
               len == n - k
    <3>1. len \in Nat /\ y \in Int /\ r \in Nat /\ (y + len - 1 < set.emin <=> tiny)
      <4>1. r \in Nat
        BY <2>4 DEF Tells
      <4> HIDE DEF n, k
      <4> QED BY <4>1, <2>1, <2>2, <2>3
    <3> HIDE DEF y, len, q, tiny, rest
    <3>2. decFinalize(Work(Fin(neg, len, q, y), r, Told(k, rest)), set)
            = IF y + len - 1 < set.emin THEN decSetSubnormal(Work(Fin(neg, len, q, y), r, Told(k, rest)), set)
              ELSE WithinRange(decApplyRound(Work(Fin(neg, len, q, y), r, Told(k, rest)), set), set)
      BY <3>1, FinalizeIs
    <3> HIDE DEF k, n
    <3>3. w = Work(Fin(neg, len, q, y), r, Told(k, rest))
      BY <2>4 DEF len, y
    <3> QED BY <3>1, <3>2, <3>3
  <2>11. ASSUME tiny PROVE out.n = fit.n /\ out.status = fit.status
    <3>1. /\ m \in Nat /\ sum \in Nat /\ sum < TenTo[p]
          /\ x + m + Places(sum, 10) - 1 <= set.emin /\ (set.clamp => x + m <= Etop(set))
          /\ out.n = Ref!Finite(neg, sum, x + m)
          /\ out.status = Told(m, e % TenTo[m]) \cup {"Subnormal"}
                            \cup When(e % TenTo[m] # 0, {"Underflow"})
                            \cup When(sum = 0, {"Clamped"})
      <4>1. x + Places(e, 10) - 1 < set.emin
        BY <2>11
      <4>2. out = decSetSubnormal(Work(Fin(neg, n - k, e \div TenTo[k], x + k), r, Told(k, e % TenTo[k])), set)
        <5> HIDE DEF out, k
        <5> QED BY <2>4, <2>10, <2>11
      <4> HIDE DEF k, out
      <4>3. LET w2 == Work(Fin(neg, n - k, e \div TenTo[k], x + k), r, Told(k, e % TenTo[k]))
                out2 == decSetSubnormal(w2, set)
            IN  /\ m \in Nat /\ sum \in Nat /\ sum < TenTo[set.digits]
                /\ x + m + Places(sum, 10) - 1 <= set.emin /\ (set.clamp => x + m <= Etop(set))
                /\ out2.n = Ref!Finite(neg, sum, x + m)
                /\ out2.status = Told(m, e % TenTo[m]) \cup {"Subnormal"}
                               \cup When(e % TenTo[m] # 0, {"Underflow"})
                               \cup When(sum = 0, {"Clamped"})
        <5>1. TinyAs(set, neg, e, x, k, r)
          <6>1. Tells(r, e % TenTo[k], TenTo[k]) /\ k \in Nat /\ k < Places(e, 10) /\ Places(e, 10) - k <= set.digits
                /\ (k > 0 => Places(e, 10) - k = set.digits)
            BY <2>3, <2>4
          <6> QED BY <4>1, <6>1, TinyRight
        <5> HIDE DEF m, sum
        <5> QED BY <5>1 DEF TinyAs, m, sum
      <4> HIDE DEF m, sum
      <4> QED BY <4>2, <4>3
    <3>2. TenTo[p] \in Nat
      BY <2>1, Ten
    <3> HIDE DEF m, sum, n, out, fit, p
    <3>3. kept = sum /\ z = x + m
      <4>1. sum # TenTo[set.digits]
        BY <3>1, <3>2 DEF p
      <4>2. CarriedIn(sum, set) = 0
        BY <4>1 DEF CarriedIn
      <4> QED BY <4>1, <4>2, <3>1 DEF Kept
    <3>4. ~Beyond(kept, z, set) /\ ~Folded(z, set)
      <4>1. Places(sum, 10) \in Nat
        BY <3>1, Lengths
      <4>2. ~(x + m + Places(sum, 10) - 1 > set.emax) /\ ~(set.clamp /\ x + m > Etop(set))
        BY <3>1, <4>1, <2>1, RangeIs
      <4> HIDE DEF kept, z
      <4> QED BY <3>3, <4>2 DEF Beyond, Folded
    <3> HIDE DEF kept, z
    <3>5. fit.n = out.n
      BY <2>9, <3>1, <3>3, <3>4 DEF Ranged
    <3>6. fit.status = out.status
      <4> DEFINE rm == e % TenTo[m]
      <4> HIDE DEF rm, tiny, inexact
      <4>1. inexact = (rm # 0)
        BY DEF inexact, rm
      <4>2. out.status = Told(m, rm) \cup {"Subnormal"} \cup When(rm # 0, {"Underflow"})
                            \cup When(sum = 0, {"Clamped"})
        BY <3>1 DEF rm
      <4>3. fit.status = When(m > 0, {"Rounded"}) \cup When(inexact, {"Inexact"})
                               \cup When(TRUE, {"Subnormal"})
                               \cup When(inexact, {"Underflow"})
                               \cup When(sum = 0, {"Clamped"})
        <5>1. /\ When(tiny, {"Subnormal"}) = When(TRUE, {"Subnormal"})
              /\ When(tiny /\ inexact, {"Underflow"}) = When(inexact, {"Underflow"})
              /\ When(Folded(z, set) \/ kept = 0, {"Clamped"}) = When(sum = 0, {"Clamped"})
          BY <2>11, <3>3, <3>4 DEF When
        <5> QED BY <2>9, <3>4, <5>1
      <4> QED BY <4>1, <4>2, <4>3 DEF Told, When
    <3> QED BY <3>5, <3>6
  <2>12. ASSUME ~tiny PROVE out.n = fit.n /\ out.status = fit.status
    <3>1. m = k
      <4> HIDE DEF n, p, t
      <4> QED BY <2>1, <2>2, <2>3, <2>12
    <3> DEFINE unit == TenTo[k]
               len == n - k
               y == x + k
    <3>2. /\ unit \in Nat \ {0} /\ rest \in Nat /\ y \in Int
      <4>1. unit \in Nat \ {0}
        <5> HIDE DEF k
        <5> QED BY <2>3, Ten
      <4>2. rest \in Nat
        <5> HIDE DEF unit
        <5> QED BY <4>1 DEF unit
      <4> HIDE DEF k, rest, unit
      <4> QED BY <4>1, <4>2, <2>3
    <3>3. rest # 0 => len = p
      <4> HIDE DEF rest, n, p, k
      <4> QED BY <2>3
    <3>4. out = WithinRange(decApplyRound(Work(Fin(neg, len, q, y), r, Told(k, rest)), set), set)
      <4> HIDE DEF out, k, q, rest, n, tiny
      <4> QED BY <2>4, <2>10, <2>12
    <3>5. sum = q + Up(set.round, neg, q, rest, unit)
      <4> HIDE DEF k, m
      <4> QED BY <3>1 DEF Rounded
    <3> HIDE DEF k, m, q, rest, unit, len, y, out, tiny, fit, sum
    <3>6. LET s == q + Up(set.round, neg, q, rest, unit)
              kp == Kept(s, set)
              zz == y + CarriedIn(s, set)
              o == WithinRange(decApplyRound(Work(Fin(neg, len, q, y), r, Told(k, rest)), set), set)
          IN  /\ o.n = Ranged(neg, kp, zz, set)
              /\ o.status = Told(k, rest) \cup (IF Beyond(kp, zz, set) THEN OverflowFlags
                                      ELSE When(Folded(zz, set), {"Clamped"}))
              /\ kp # 0
      <4>1. q \in Nat \ {0} /\ len = Places(q, 10) /\ len <= set.digits
        BY <2>3 DEF len
      <4>2. Tells(r, rest, unit)
        BY <2>4 DEF unit
      <4> DEFINE told == Told(k, rest)
      <4>3. rest # 0 => len = set.digits
        BY <3>3 DEF p
      <4> HIDE DEF told
      <4>4. NormalAs(set, neg, q, len, y, told, unit, rest, r)
        BY <3>2, <4>1, <4>2, <4>3, NormalRight
      <4> QED BY <4>4 DEF NormalAs, told
    <3>7. y + CarriedIn(sum, set) = z
      BY <3>1 DEF y
    <3> HIDE DEF kept, z
    <3>8. /\ out.n = Ranged(neg, kept, z, set)
          /\ out.status = Told(k, rest) \cup (IF Beyond(kept, z, set) THEN OverflowFlags
                                      ELSE When(Folded(z, set), {"Clamped"}))
          /\ kept # 0
      BY <3>4, <3>5, <3>6, <3>7 DEF kept
    <3>9. inexact = (rest # 0)
      BY <3>1 DEF rest
    <3> HIDE DEF inexact
    <3>10. fit.status = IF Beyond(kept, z, set) THEN OverflowFlags
                        ELSE When(k > 0, {"Rounded"}) \cup When(rest # 0, {"Inexact"})
                               \cup When(FALSE, {"Subnormal"})
                               \cup When(FALSE, {"Underflow"})
                               \cup When(Folded(z, set), {"Clamped"})
      <4>1. /\ When(tiny, {"Subnormal"}) = When(FALSE, {"Subnormal"})
            /\ When(tiny /\ inexact, {"Underflow"}) = When(FALSE, {"Underflow"})
            /\ When(Folded(z, set) \/ kept = 0, {"Clamped"}) = When(Folded(z, set), {"Clamped"})
            /\ When(m > 0, {"Rounded"}) = When(k > 0, {"Rounded"})
            /\ When(inexact, {"Inexact"}) = When(rest # 0, {"Inexact"})
        BY <2>12, <3>1, <3>8, <3>9 DEF When
      <4> QED BY <2>9, <4>1
    <3>11. out.status = fit.status
      <4>1. CASE Beyond(kept, z, set)
        BY <4>1, <3>8, <3>10 DEF Told, When, OverflowFlags
      <4>2. CASE ~Beyond(kept, z, set)
        BY <4>2, <3>8, <3>10 DEF Told, When
      <4> QED BY <4>1, <4>2
    <3> QED BY <2>9, <3>8, <3>11
  <2> HIDE DEF out, fit
  <2>13. out.n = fit.n /\ out.status = fit.status
    BY <2>11, <2>12
  <2> QED BY <2>6, <2>13 DEF out, Gives
<1> QED BY <1>2

\* Whatever the coefficient.
LEMMA RoundedRight ==
  ASSUME NEW set, Settled(set), NEW neg \in BOOLEAN, NEW e \in Nat, NEW x \in Int, NEW dg, NEW cf
  PROVE  Gives(decFinalize(decSetCoeff(Work(Fin(neg, dg, cf, x), 0, {}), set.digits, e, Places(e, 10)), set),
               Ref!RoundTo(neg, e, x, set))
<1>1. CASE e = 0
  <2>1. Ref!RoundTo(neg, 0, x, set) = Ref!RoundZero(neg, x, set)
    BY DEF Ref!RoundTo
  <2>2. Gives(decFinalize(decSetCoeff(Work(Fin(neg, dg, cf, x), 0, {}), set.digits, 0, Places(0, 10)), set),
              Ref!RoundZero(neg, x, set))
    BY ZeroCut, ZeroGives
  <2> QED BY <1>1, <2>1, <2>2
<1>2. CASE e # 0
  <2> DEFINE w == decSetCoeff(Work(Fin(neg, dg, cf, x), 0, {}), set.digits, e, Places(e, 10))
  <2>1. set.digits \in Nat \ {0}
    BY DEF Settled
  <2>2. IsCut(w, neg, e, x, set.digits)
    BY <1>2, <2>1, SetCoeffCuts
  <2> HIDE DEF w
  <2>3. Gives(decFinalize(w, set), Ref!RoundTo(neg, e, x, set))
    BY <1>2, <2>2, CutGives
  <2> QED BY <2>3 DEF w
<1> QED BY <1>1, <1>2

(***************************************************************************)
(* Zeros put on the right of a number that was cut: a longer number, cut.  *)
(***************************************************************************)
LEMMA PaddedBy ==
  ASSUME NEW neg, NEW dg, NEW cf, NEW exp, NEW k, NEW n, n = Fin(neg, dg, cf, exp)
  PROVE  [decShiftToMost(n, k) EXCEPT !.exp = @ - k] = Fin(neg, dg + k, cf * TenTo[k], exp - k)
<1> DEFINE f == TenTo[k]
           n1 == [n EXCEPT !.coef = @ * f]
           n2 == [n1 EXCEPT !.digits = @ + k]
           n3 == [n2 EXCEPT !.exp = @ - k]
<1>1. decShiftToMost(n, k) = [n EXCEPT !.coef = @ * f, !.digits = @ + k]
  BY DEF decShiftToMost
<1>2. [n EXCEPT !.coef = @ * f, !.digits = @ + k] = n2
  <2> HIDE DEF f
  <2> USE DEF n1
  <2>1. \A m : [m EXCEPT !.coef = @ * f, !.digits = @ + k] = [[m EXCEPT !.coef = @ * f] EXCEPT !.digits = @ + k]
    OBVIOUS
  <2> QED BY <2>1
<1> HIDE DEF f
<1>3. n1 = Fin(neg, dg, cf * f, exp)
  BY DEF Fin
<1> HIDE DEF n1
<1>4. n2 = Fin(neg, dg + k, cf * f, exp)
  BY <1>3 DEF Fin
<1> HIDE DEF n2
<1>5. n3 = Fin(neg, dg + k, cf * f, exp - k)
  BY <1>4 DEF Fin
<1> QED BY <1>1, <1>2, <1>5 DEF f

\* What PadDown leaves.
PadsTo(neg, len, q, z, r, st, y, set) ==
  LET room == set.digits - len
      pad == IF z - y < room THEN z - y ELSE room
  IN  PadDown(Work(Fin(neg, len, q, z), r, st), y, set) =
        IF y >= z THEN Work(Fin(neg, len, q, z), r, st)
        ELSE Work(Fin(neg, len + pad, q * TenTo[pad], z - pad), r,
                  st \cup When(z - y > room, {"Rounded"}))

LEMMA PadDownIs ==
  ASSUME NEW neg, NEW len \in Int, NEW q \in Nat, NEW z \in Int, NEW r, NEW st, NEW y \in Int,
         NEW set, set.digits \in Int
  PROVE  PadsTo(neg, len, q, z, r, st, y, set)
<1> DEFINE n == Fin(neg, len, q, z)
           w == Work(n, r, st)
           room == set.digits - len
           pad == IF z - y < room THEN z - y ELSE room
           m == [decShiftToMost(n, pad) EXCEPT !.exp = @ - pad]
<1>1. m = Fin(neg, len + pad, q * TenTo[pad], z - pad)
  <2> HIDE DEF pad
  <2> QED BY PaddedBy
<1>2. w.n = n /\ w.residue = r /\ w.status = st /\ n.digits = len /\ n.exp = z
  BY WorkFields, FinFields
<1> HIDE DEF n, w
<1>3. PadDown(w, y, set) = IF y >= z THEN w
                           ELSE Flagged(Holding(w, m), When(z - y > room, {"Rounded"}))
  BY <1>2 DEF PadDown, Lesser
<1> HIDE DEF m, room, pad
<1>4. Flagged(Holding(w, m), When(z - y > room, {"Rounded"})) = Work(m, r, st \cup When(z - y > room, {"Rounded"}))
  BY <1>2 DEF Flagged, Holding, Work
<1> QED BY <1>1, <1>3, <1>4 DEF n, w, room, pad, PadsTo

LEMMA TellsScaled ==
  ASSUME NEW r, NEW rest \in Nat, NEW unit \in Nat \ {0}, Tells(r, rest, unit), NEW f \in Nat \ {0}
  PROVE  Tells(r, rest * f, unit * f)
<1>1. rest * f = 0 <=> rest = 0
  OBVIOUS
<1>2. 2 * (rest * f) = (2 * rest) * f
  OBVIOUS
<1>3. (2 * rest) * f > unit * f <=> 2 * rest > unit
  <2> DEFINE a == 2 * rest
  <2>1. a \in Nat
    OBVIOUS
  <2> HIDE DEF a
  <2>2. a > unit => a * f > unit * f
    BY <2>1
  <2>3. ~(a > unit) => a * f <= unit * f /\ a * f \in Nat /\ unit * f \in Nat
    BY <2>1
  <2> QED BY <2>1, <2>2, <2>3 DEF a
<1>4. (2 * rest) * f = unit * f <=> 2 * rest = unit
  <2> DEFINE a == 2 * rest
  <2>1. a \in Nat
    OBVIOUS
  <2> HIDE DEF a
  <2>2. a > unit => a * f > unit * f
    BY <2>1
  <2>3. a < unit => a * f < unit * f
    BY <2>1
  <2>4. a * f \in Nat /\ unit * f \in Nat
    BY <2>1
  <2> QED BY <2>1, <2>2, <2>3, <2>4 DEF a
<1> QED BY <1>1, <1>2, <1>3, <1>4 DEF Tells

LEMMA PadCut ==
  ASSUME NEW set, set.digits \in Nat \ {0}, NEW neg, NEW e \in Nat \ {0}, NEW x \in Int, NEW y \in Int,
         NEW w, IsCut(w, neg, e, x, set.digits)
  PROVE  LET low == IF y < x THEN y ELSE x
         IN  IsCut(PadDown(w, y, set), neg, e * TenTo[x - low], low, set.digits)
<1> DEFINE p == set.digits
           low == IF y < x THEN y ELSE x
           d == x - low
           f == TenTo[d]
           n == Places(e, 10)
           k == IF n > p THEN n - p ELSE 0
           u == TenTo[k]
           q == e \div u
           rest == e % u
           E == e * f
           N == Places(E, 10)
           K == IF N > p THEN N - p ELSE 0
           U == TenTo[K]
           out == PadDown(w, y, set)
<1>1. PICK r : Tells(r, rest, u) /\ w = Work(Fin(neg, n - k, q, x + k), r, Told(k, rest))
  BY DEF IsCut
<1>2. n \in Nat \ {0} /\ p \in Nat \ {0} /\ d \in Nat /\ k \in Nat /\ low \in Int /\ x = low + d
  <2>1. n \in Nat \ {0}
    BY Lengths
  <2> HIDE DEF n
  <2> QED BY <2>1
<1>3. f \in Nat \ {0} /\ u \in Nat \ {0}
  <2> HIDE DEF d, k
  <2> QED BY <1>2, Ten
<1>4. q \in Nat /\ rest \in Nat /\ e = q * u + rest
  <2> HIDE DEF u
  <2>1. q \in Nat /\ e \in Int
    BY <1>3
  <2> QED BY <1>3, <2>1, DivMod
<1>5. E \in Nat \ {0} /\ N = n + d
  <2> HIDE DEF d
  <2> QED BY <1>2, PadLength
<1> DEFINE room == p - (n - k)
           pad == IF (x + k) - y < room THEN (x + k) - y ELSE room
<1>6. out = IF y >= x + k THEN w
            ELSE Work(Fin(neg, (n - k) + pad, q * TenTo[pad], (x + k) - pad), r,
                      Told(k, rest) \cup When((x + k) - y > room, {"Rounded"}))
  <2> DEFINE len == n - k
             z == x + k
             st == Told(k, rest)
  <2>1. len \in Int /\ z \in Int /\ p \in Int
    <3> HIDE DEF n, k
    <3> QED BY <1>2
  <2> HIDE DEF len, z, st, q
  <2>2. PadDown(Work(Fin(neg, len, q, z), r, st), y, set) =
          LET rm == set.digits - len
              pd == IF z - y < rm THEN z - y ELSE rm
          IN  IF y >= z THEN Work(Fin(neg, len, q, z), r, st)
              ELSE Work(Fin(neg, len + pd, q * TenTo[pd], z - pd), r,
                         st \cup When(z - y > rm, {"Rounded"}))
    <3>1. PadsTo(neg, len, q, z, r, st, y, set)
      BY <2>1, <1>4, PadDownIs
    <3> QED BY <3>1 DEF PadsTo
  <2> QED BY <1>1, <2>2 DEF len, z, st
<1> DEFINE Good == \E s : /\ Tells(s, E % U, U)
                          /\ out = Work(Fin(neg, N - K, E \div U, low + K), s, Told(K, E % U))
<1>7. ASSUME y >= x + k PROVE Good
  <2>1. d = 0 /\ low = x
    <3> HIDE DEF n, k
    <3> QED BY <1>2, <1>7
  <2>2. E = e
    <3>1. f = 1
      BY <2>1, TenZero
    <3> HIDE DEF f
    <3> QED BY <3>1
  <2> HIDE DEF E
  <2>3. N = n /\ K = k /\ U = u
    BY <2>2
  <2>4. out = w
    <3> HIDE DEF out, k
    <3> QED BY <1>6, <1>7
  <2> HIDE DEF N, K, U, n, k, u, out, low
  <2> QED BY <1>1, <2>1, <2>2, <2>3, <2>4
<1>8. ASSUME ~(y >= x + k), n > p PROVE Good
  <2>1. k = n - p /\ k > 0 /\ room = 0 /\ (x + k) - y > 0 /\ pad = 0
    <3>1. k = n - p
      BY <1>8
    <3> HIDE DEF n, k, p
    <3> QED BY <1>2, <1>8, <3>1
  <2>2. K = k + d /\ K > 0 /\ N - K = n - k /\ low + K = x + k
    <3>1. N > p
      <4> HIDE DEF N, n, d, p
      <4> QED BY <1>2, <1>5, <1>8
    <3>2. K = N - p
      BY <3>1
    <3> HIDE DEF K, N, n, k, d, p, low
    <3> QED BY <1>2, <1>5, <2>1, <3>2
  <2>3. U = u * f
    <3> HIDE DEF K, k, d
    <3> QED BY <1>2, <2>2, TenSum
  <2>4. E \div U = q /\ E % U = rest * f
    <3>1. e \in Int
      OBVIOUS
    <3> HIDE DEF U, u, f
    <3> QED BY <1>3, <2>3, <3>1, CommonFactor
  <2>5. Tells(r, E % U, U)
    <3> HIDE DEF rest, u, f, U, E
    <3> QED BY <1>1, <1>3, <1>4, <2>3, <2>4, TellsScaled
  <2>6. out = Work(Fin(neg, n - k, q, x + k), r, Told(k, rest) \cup {"Rounded"})
    <3>1. q * TenTo[0] = q
      <4> HIDE DEF q
      <4> QED BY <1>4, TenZero
    <3>2. (n - k) + 0 = n - k /\ (x + k) - 0 = x + k
      <4> HIDE DEF n, k
      <4> QED BY <1>2
    <3>3. When((x + k) - y > room, {"Rounded"}) = {"Rounded"}
      <4> HIDE DEF room, k
      <4> QED BY <2>1 DEF When
    <3> HIDE DEF out, room, pad, q, n, k, rest
    <3> QED BY <1>6, <1>8, <2>1, <3>1, <3>2, <3>3
  <2>7. Told(k, rest) \cup {"Rounded"} = Told(K, E % U)
    <3>1. E % U = 0 <=> rest = 0
      <4> DEFINE a == E % U
      <4>1. a = rest * f
        BY <2>4
      <4> HIDE DEF a, f, rest
      <4>2. a = 0 <=> rest = 0
        BY <1>3, <1>4, <4>1
      <4> QED BY <4>2 DEF a
    <3> DEFINE a == E % U
    <3> HIDE DEF a, rest, K, k
    <3>2. a = 0 <=> rest = 0
      BY <3>1 DEF a
    <3>3. Told(k, rest) \cup {"Rounded"} = Told(K, a)
      BY <2>1, <2>2, <3>2 DEF Told, When
    <3> QED BY <3>3 DEF a
  <2> HIDE DEF out, K, k, N, n, U, E, q, low
  <2> QED BY <2>2, <2>4, <2>5, <2>6, <2>7
<1>9. ASSUME ~(y >= x + k), ~(n > p) PROVE Good
  <2>1. /\ k = 0 /\ low = y /\ d = x - y /\ d > 0 /\ room = p - n /\ room \in Nat
        /\ pad = IF d < room THEN d ELSE room
    <3>1. k = 0
      BY <1>9
    <3> HIDE DEF n, k, p
    <3> QED BY <1>2, <1>9, <3>1
  <2>2. pad \in Nat /\ K \in Nat /\ d = pad + K /\ N - K = n + pad /\ low + K = x - pad
        /\ (K > 0 <=> d > room)
    <3> HIDE DEF n, d, low, room, N, p, pad
    <3> QED BY <1>2, <1>5, <1>9, <2>1
  <2>3. u = 1 /\ q = e /\ rest = 0
    <3>1. u = 1
      BY <2>1, TenZero
    <3> HIDE DEF u
    <3> QED BY <3>1
  <2>4. r = 0
    <3> HIDE DEF rest, u
    <3> QED BY <1>1, <2>3 DEF Tells
  <2> DEFINE g == TenTo[pad]
  <2>5. U \in Nat \ {0} /\ g \in Nat \ {0} /\ f = g * U
    <3> HIDE DEF K, pad, d
    <3> QED BY <2>2, Ten, TenSum
  <2>6. E \div U = e * g /\ E % U = 0
    <3> HIDE DEF U, g, f
    <3>1. E = (e * g) * U + 0
      BY <2>5
    <3>2. e * g \in Int /\ 0 \in 0 .. U - 1
      BY <2>5
    <3> HIDE DEF E
    <3> DEFINE eg == e * g
    <3> HIDE DEF eg
    <3>3. E = eg * U + 0 /\ eg \in Int
      BY <3>1, <3>2 DEF eg
    <3>4. E \div U = eg /\ E % U = 0
      BY <2>5, <3>2, <3>3, DivUnique
    <3> QED BY <3>4 DEF eg
  <2>7. Tells(0, E % U, U)
    <3> DEFINE a == E % U
    <3>1. a = 0
      BY <2>6
    <3> HIDE DEF a, U
    <3>2. Tells(0, a, U)
      BY <2>5, <3>1 DEF Tells
    <3> QED BY <3>2 DEF a
  <2>8. out = Work(Fin(neg, n + pad, e * g, x - pad), 0, When(d > room, {"Rounded"}))
    <3>1. (n - k) + pad = n + pad /\ (x + k) - pad = x - pad /\ (x + k) - y = d
      <4> HIDE DEF n, k, pad, d
      <4> QED BY <1>2, <2>1, <2>2
    <3>2. Told(k, rest) = {}
      <4> HIDE DEF rest, k
      <4> QED BY <2>1, <2>3 DEF Told, When
    <3> HIDE DEF Told, out, room, pad, q, n, k, rest, d
    <3> QED BY <1>6, <1>9, <2>3, <2>4, <3>1, <3>2 DEF g
  <2>9. Told(K, E % U) = When(d > room, {"Rounded"})
    <3> DEFINE a == E % U
    <3>1. a = 0
      BY <2>6
    <3> HIDE DEF a, K, d, room
    <3>2. Told(K, a) = When(d > room, {"Rounded"})
      BY <2>2, <3>1 DEF Told, When
    <3> QED BY <3>2 DEF a
  <2> HIDE DEF out, K, N, n, U, E, pad, g, low, d, room
  <2> QED BY <2>2, <2>6, <2>7, <2>8, <2>9
<1> HIDE DEF Good
<1>10. Good
  BY <1>7, <1>8, <1>9
<1> QED BY <1>10 DEF Good, IsCut

-----------------------------------------------------------------------------
(***************************************************************************)
(* Operations.  A number is sound when decCheckNumber accepts it.          *)
(***************************************************************************)
Sound(n) == /\ n \in Number
            /\ n.kind = "fin" => n.digits = Places(n.coef, 10)
            /\ n.kind = "inf" => n = Infinity(n.neg)
            /\ IsNaN(n) => n.coef < TenTo[n.digits]

LEMMA FieldTypes ==
  ASSUME NEW n \in Number
  PROVE  /\ n.neg \in BOOLEAN /\ n.kind \in {"fin", "inf", "nan", "snan"}
         /\ n.digits \in Nat \ {0} /\ n.coef \in Nat /\ n.exp \in Int
BY DEF Number

LEMMA SoundFinite ==
  ASSUME NEW n, Sound(n), n.kind = "fin"
  PROVE  /\ n = Fin(n.neg, n.digits, n.coef, n.exp)
         /\ n.neg \in BOOLEAN /\ n.digits \in Nat \ {0} /\ n.coef \in Nat /\ n.exp \in Int
         /\ n.digits = Places(n.coef, 10)
         /\ ISZERO(n) <=> n.coef = 0
<1>1. n \in Number
  BY DEF Sound
<1>2. n = [neg |-> n.neg, kind |-> n.kind, digits |-> n.digits, coef |-> n.coef, exp |-> n.exp]
  BY <1>1 DEF Number
<1>3. n = Fin(n.neg, n.digits, n.coef, n.exp)
  BY <1>2 DEF Fin
<1>4. ISZERO(n) <=> n.coef = 0
  BY PlacesZero DEF ISZERO, Sound
<1> QED BY <1>1, <1>3, <1>4, FieldTypes DEF Sound

\* Full arithmetic takes its operands as they are.
LEMMA WholeOperands ==
  ASSUME NEW set, Settled(set), NEW l, NEW r, NEW st
  PROVE  /\ SubsetOperand(l, set, st) = [n |-> l, status |-> st]
         /\ SubsetOperands(l, r, set, st) = [lhs |-> l, rhs |-> r, status |-> st]
BY DEF Settled, SubsetOperand, SubsetOperands, WithRight, Operands

LEMMA FinishIs ==
  ASSUME NEW set, Settled(set), NEW w
  PROVE  decFinish(w, set) = decFinalize(w, set)
BY DEF Settled, decFinish

\* A rounding gives flags that decStatus passes on.
LEMMA RoundedFlags ==
  ASSUME NEW neg, NEW e, NEW x, NEW set
  PROVE  LET ref == Ref!RoundTo(neg, e, x, set)
         IN  /\ ref.status \subseteq {"Rounded", "Inexact", "Subnormal", "Underflow", "Clamped", "Overflow"}
             /\ ref = [n |-> ref.n, status |-> ref.status]
<1> DEFINE All == {"Rounded", "Inexact", "Subnormal", "Underflow", "Clamped", "Overflow"}
           Fine(ref) == ref.status \subseteq All /\ ref = [n |-> ref.n, status |-> ref.status]
<1>1. Fine(Ref!RoundZero(neg, x, set))
  BY DEF Ref!RoundZero
<1>2. Fine(Ref!OverflowResult(neg, set))
  BY DEF Ref!OverflowResult
<1>3. ASSUME NEW drop, NEW r PROVE Fine(Ref!Fitted(neg, e, x, drop, r, set))
  <2> DEFINE carry == r.q = Ref!Power(10, set.digits)
             q == IF carry THEN r.q \div 10 ELSE r.q
             y == x + drop + (IF carry THEN 1 ELSE 0)
             tiny == x + Ref!Digits(e) - 1 < set.emin
             folded == set.clamp /\ y > Ref!Etop(set)
             flags == [Rounded |-> drop > 0, Inexact |-> r.inexact, Subnormal |-> tiny,
                       Underflow |-> tiny /\ r.inexact, Clamped |-> folded \/ q = 0]
             beyond == q # 0 /\ y + Ref!Digits(q) - 1 > set.emax
             n == IF folded THEN Ref!Finite(neg, q * Ref!Power(10, y - Ref!Etop(set)), Ref!Etop(set))
                            ELSE Ref!Finite(neg, q, y)
             st == {f \in DOMAIN flags : flags[f]}
             fit == Ref!Fitted(neg, e, x, drop, r, set)
  <2>1. fit = IF beyond THEN Ref!OverflowResult(neg, set) ELSE [n |-> n, status |-> st]
    BY DEF Ref!Fitted
  <2>2. st \subseteq All
    <3> DEFINE a == drop > 0
               b == r.inexact
               d == tiny /\ r.inexact
               f == folded \/ q = 0
    <3> HIDE DEF a, b, tiny, d, f
    <3>1. DOMAIN [Rounded |-> a, Inexact |-> b, Subnormal |-> tiny, Underflow |-> d, Clamped |-> f] \subseteq All
      OBVIOUS
    <3> QED BY <3>1 DEF a, b, d, f
  <2> HIDE DEF n, st, beyond, fit
  <2>3. Fine([n |-> n, status |-> st])
    BY <2>2
  <2>4. Fine(fit)
    BY <2>1, <2>3, <1>2
  <2> QED BY <2>4 DEF fit
<1> HIDE DEF Fine
<1>4. Fine(Ref!RoundTo(neg, e, x, set))
  BY <1>1, <1>3 DEF Ref!RoundTo
<1> QED BY <1>4 DEF Fine

\* The outcome of an operation is that of the rounding it ends in.
LEMMA DoneRounded ==
  ASSUME NEW neg, NEW e, NEW x, NEW set, NEW w, Gives(w, Ref!RoundTo(neg, e, x, set))
  PROVE  Done(w) = Ref!RoundTo(neg, e, x, set)
<1> DEFINE ref == Ref!RoundTo(neg, e, x, set)
<1>1. /\ ref.status \subseteq {"Rounded", "Inexact", "Subnormal", "Underflow", "Clamped", "Overflow"}
      /\ ref = [n |-> ref.n, status |-> ref.status]
  BY RoundedFlags
<1>2. w.n = ref.n /\ w.status = ref.status
  BY DEF Gives
<1> HIDE DEF ref
<1>3. Done(w) = [n |-> ref.n, status |-> ref.status]
  <2>1. ref.status \cap DEC_NaNs = {} /\ ref.status \ {"sNaN"} = ref.status
    BY <1>1 DEF DEC_NaNs
  <2> QED BY <1>2, <2>1 DEF Done, decStatus
<1> QED BY <1>1, <1>3 DEF ref

\* What is exact, and what is refused.
LEMMA DoneExact ==
  ASSUME NEW n, NEW res
  PROVE  Done(Work(n, res, {})) = Ref!Exactly(n)
BY DEF Done, decStatus, Work, Ref!Exactly

LEMMA DoneInvalid == Done(Invalid({})) = Ref!InvalidOperation
<1>1. Ref!QuietNaN = [decNumberZero EXCEPT !.kind = "nan"]
  <2>1. Ref!Digits(0) = 1
    BY RefDigits, PlacesZero
  <2>2. Ref!QuietNaN = [neg |-> FALSE, kind |-> "nan", digits |-> 1, coef |-> 0, exp |-> 0]
    BY <2>1 DEF Ref!QuietNaN, Ref!NumberWith
  <2>3. [decNumberZero EXCEPT !.kind = "nan"] = [neg |-> FALSE, kind |-> "nan", digits |-> 1, coef |-> 0, exp |-> 0]
    <3> DEFINE a == FALSE
               b == "fin"
               c == 1
               d == 0
               k == "nan"
               z == [neg |-> a, kind |-> b, digits |-> c, coef |-> d, exp |-> d]
    <3>1. decNumberZero = z
      BY DEF decNumberZero
    <3> HIDE DEF a, b, c, d, k
    <3>2. [z EXCEPT !.kind = k] = [neg |-> a, kind |-> k, digits |-> c, coef |-> d, exp |-> d]
      OBVIOUS
    <3> HIDE DEF z
    <3> QED BY <3>1, <3>2 DEF a, c, d, k
  <2> QED BY <2>2, <2>3
<1>2. /\ Invalid({}).n = decNumberZero
      /\ Invalid({}).status = {"Invalid_operation"}
  BY DEF Invalid, Work
<1>3. {"Invalid_operation"} \cap DEC_NaNs # {} /\ {"Invalid_operation"} \ {"sNaN"} = {"Invalid_operation"}
  BY DEF DEC_NaNs
<1> DEFINE nan == [decNumberZero EXCEPT !.kind = "nan"]
<1>4. Done(Invalid({})) = [n |-> nan, status |-> {"Invalid_operation"}]
  <2>1. decStatus(decNumberZero, {"Invalid_operation"}) = [n |-> nan, status |-> {"Invalid_operation"}]
    BY <1>3 DEF decStatus
  <2> HIDE DEF nan
  <2> QED BY <1>2, <2>1 DEF Done
<1> HIDE DEF nan
<1> QED BY <1>1, <1>4 DEF Ref!InvalidOperation, nan

LEMMA InfiniteIs == ASSUME NEW neg PROVE Infinity(neg) = Ref!Infinite(neg)
<1> DEFINE a == FALSE
           b == "fin"
           c == 1
           d == 0
           k == "inf"
           z == [neg |-> a, kind |-> b, digits |-> c, coef |-> d, exp |-> d]
           y == [z EXCEPT !.kind = k]
           x == [y EXCEPT !.neg = neg]
<1>1. decNumberZero = z
  BY DEF decNumberZero
<1>2. Infinity(neg) = x
  <2>1. Infinity(neg) = [z EXCEPT !.kind = k, !.neg = neg]
    BY <1>1 DEF Infinity
  <2> HIDE DEF z, k
  <2> QED BY <2>1
<1> HIDE DEF a, b, c, d, k
<1>3. y = [neg |-> a, kind |-> k, digits |-> c, coef |-> d, exp |-> d]
  OBVIOUS
<1> HIDE DEF y
<1>4. x = [neg |-> neg, kind |-> k, digits |-> c, coef |-> d, exp |-> d]
  BY <1>3
<1> QED BY <1>2, <1>4 DEF a, b, c, d, k, Ref!Infinite

\* The NaN that is passed on.
Source(l, r) == IF l.kind = "snan" \/ (r.kind # "snan" /\ l.kind = "nan") THEN l ELSE r

LEMMA NaNRight ==
  ASSUME NEW set, Settled(set), NEW l, NEW r, NEW st, st = {} \/ st = {"Invalid_operation", "sNaN"},
         LET src == Source(l, r)
         IN  src.coef \in Nat /\ src.digits \in Nat \ {0} /\ src.coef < TenTo[src.digits]
               /\ src.kind \in {"nan", "snan"}
  PROVE  LET src == Source(l, r)
             out == Done(decNaNs(l, r, set, st))
         IN  /\ Ref!NumberWith(out.n.neg, out.n.kind, out.n.coef, out.n.exp)
                  = Ref!NumberWith(src.neg, "nan", src.coef % Ref!Power(10, set.digits), 0)
             /\ out.status = (IF src.kind = "snan" THEN {"Invalid_operation"} ELSE {}) \cup (st \ {"sNaN"})
             /\ out = [n |-> out.n, status |-> out.status]
<1> DEFINE src == Source(l, r)
           out == Done(decNaNs(l, r, set, st))
           p == set.digits
           top == TenTo[p]
           kept == src.coef % top
           long == src.digits > p
           cf == IF long THEN kept ELSE src.coef
           units == ((p + DECDPUN - 1) \div DECDPUN) * DECDPUN
           digits == IF units > p THEN decGetDigits(kept, p) ELSE p
           payload == [neg |-> src.neg, kind |-> "nan", exp |-> 0, coef |-> cf,
                       digits |-> IF long THEN digits ELSE src.digits]
           flags == st \cup When(src.kind = "snan", {"Invalid_operation", "sNaN"})
<1>1. decNaNs(l, r, set, st) = Work(payload, 0, flags)
  <2>1. src = CASE l.kind = "snan" -> l
               [] l.kind # "snan" /\ r.kind = "snan" -> r
               [] l.kind = "nan" /\ r.kind # "snan" -> l
               [] OTHER -> r
    BY DEF Source
  <2> HIDE DEF src
  <2> QED BY <2>1 DEF decNaNs
<1>2. p \in Nat /\ top \in Nat \ {0} /\ Ref!Power(10, p) = top
  <2>1. p \in Nat
    BY DEF Settled
  <2> HIDE DEF p
  <2> QED BY <2>1, Ten, RefPower
<1>3. cf = src.coef % top
  <2>1. CASE long
    BY <2>1
  <2>2. CASE ~long
    <3>1. src.digits \in Nat /\ src.digits <= p
      <4>1. src.digits \in Nat \ {0}
        OBVIOUS
      <4>2. ~(src.digits > p)
        BY <2>2
      <4> HIDE DEF src, p
      <4> QED BY <4>1, <4>2, <1>2
    <3>2. TenTo[src.digits] <= TenTo[p] /\ TenTo[src.digits] \in Nat
      <4> HIDE DEF src, p
      <4> QED BY <3>1, <1>2, TenMono, Ten
    <3> DEFINE c == src.coef
               low == TenTo[src.digits]
    <3>3. c \in Nat /\ c < low /\ low <= top /\ low \in Nat
      BY <3>2
    <3> HIDE DEF c, low, top
    <3>4. c % top = c
      BY <3>3, <1>2
    <3> QED BY <2>2, <3>4 DEF c
  <2> QED BY <2>1, <2>2
<1>4. "Invalid_operation" \in flags => "sNaN" \in flags
  BY DEF When
<1>5. flags \cap DEC_NaNs # {} => "sNaN" \in flags
  BY DEF When, DEC_NaNs
<1>6. out = [n |-> payload, status |-> flags \ {"sNaN"}]
  <2> HIDE DEF payload, flags
  <2> QED BY <1>1, <1>5 DEF Done, decStatus, Work
<1>7. payload.neg = src.neg /\ payload.kind = "nan" /\ payload.coef = cf /\ payload.exp = 0
  OBVIOUS
<1>8. flags \ {"sNaN"} = (IF src.kind = "snan" THEN {"Invalid_operation"} ELSE {}) \cup (st \ {"sNaN"})
  BY DEF When
<1> HIDE DEF out, payload, flags, cf, src
<1>9. /\ out.n = payload /\ out.status = flags \ {"sNaN"}
      /\ out = [n |-> out.n, status |-> out.status]
  BY <1>6
<1>10. Ref!NumberWith(out.n.neg, out.n.kind, out.n.coef, out.n.exp)
         = Ref!NumberWith(src.neg, "nan", src.coef % Ref!Power(10, p), 0)
  BY <1>2, <1>3, <1>7, <1>9
<1> QED BY <1>8, <1>9, <1>10 DEF src, out

\* What is promised when a NaN decides.
Passed(op, l, r, set, out) ==
  LET nan == Ref!PropagateNaN(l, r, set)
  IN  Ref!SameNaN(out, [n |-> nan.n, status |-> nan.status \cup
             IF op = "CompareSignal" THEN {"Invalid_operation"} ELSE {}])

LEMMA PassedRight ==
  ASSUME NEW set, Settled(set), NEW op, NEW l, Sound(l), NEW r, Sound(r), IsNaN(l) \/ IsNaN(r),
         NEW a, NEW b, Source(a, b) = Source(l, r), NEW st,
         st = IF op = "CompareSignal" THEN {"Invalid_operation", "sNaN"} ELSE {}
  PROVE  Passed(op, l, r, set, Done(decNaNs(a, b, set, st)))
<1> DEFINE src == Source(l, r)
           out == Done(decNaNs(a, b, set, st))
<1>1. src.kind \in {"nan", "snan"} /\ Sound(src)
  BY DEF Source, IsNaN
<1>2. src.coef \in Nat /\ src.digits \in Nat \ {0} /\ src.coef < TenTo[src.digits]
  <2> HIDE DEF src
  <2> QED BY <1>1, FieldTypes DEF Sound, IsNaN
<1>3. /\ Ref!NumberWith(out.n.neg, out.n.kind, out.n.coef, out.n.exp)
           = Ref!NumberWith(src.neg, "nan", src.coef % Ref!Power(10, set.digits), 0)
      /\ out.status = (IF src.kind = "snan" THEN {"Invalid_operation"} ELSE {}) \cup (st \ {"sNaN"})
  <2>1. st = {} \/ st = {"Invalid_operation", "sNaN"}
    OBVIOUS
  <2>2. LET s == Source(a, b)
        IN  s.coef \in Nat /\ s.digits \in Nat \ {0} /\ s.coef < TenTo[s.digits]
               /\ s.kind \in {"nan", "snan"}
    BY <1>1, <1>2
  <2> HIDE DEF src, out
  <2>3. LET s == Source(a, b)
            o == Done(decNaNs(a, b, set, st))
        IN  /\ Ref!NumberWith(o.n.neg, o.n.kind, o.n.coef, o.n.exp)
                  = Ref!NumberWith(s.neg, "nan", s.coef % Ref!Power(10, set.digits), 0)
            /\ o.status = (IF s.kind = "snan" THEN {"Invalid_operation"} ELSE {}) \cup (st \ {"sNaN"})
    BY <2>1, <2>2, NaNRight
  <2> QED BY <2>3 DEF src, out
<1>4. src.kind = "snan" <=> (l.kind = "snan" \/ r.kind = "snan")
  BY DEF Source
<1>5. st \ {"sNaN"} = IF op = "CompareSignal" THEN {"Invalid_operation"} ELSE {}
  OBVIOUS
<1>6. Ref!PropagateNaN(l, r, set) =
        [n |-> Ref!NumberWith(src.neg, "nan", src.coef % Ref!Power(10, set.digits), 0),
         status |-> IF src.kind = "snan" THEN {"Invalid_operation"} ELSE {}]
  <2> HIDE DEF src
  <2> QED BY <1>4 DEF Ref!PropagateNaN, src, Source
<1> HIDE DEF src, out
<1> QED BY <1>3, <1>5, <1>6 DEF Passed, Ref!SameNaN, out

(***************************************************************************)
(* Plus, minus and abs, and sums with a zero.                              *)
(***************************************************************************)
\* Fields of a finite number that are set.
LEMMA SetNeg ==
  ASSUME NEW neg, NEW dg, NEW cf, NEW exp, NEW v, NEW n, n = Fin(neg, dg, cf, exp)
  PROVE  [n EXCEPT !.neg = v] = Fin(v, dg, cf, exp)
<1>1. [n EXCEPT !.neg = v] = [Fin(neg, dg, cf, exp) EXCEPT !.neg = v]
  OBVIOUS
<1>2. [Fin(neg, dg, cf, exp) EXCEPT !.neg = v] = Fin(v, dg, cf, exp)
  BY DEF Fin
<1> QED BY <1>1, <1>2

LEMMA SetExp ==
  ASSUME NEW neg, NEW dg, NEW cf, NEW exp, NEW v, NEW n, n = Fin(neg, dg, cf, exp)
  PROVE  [n EXCEPT !.exp = v] = Fin(neg, dg, cf, v)
<1>1. [n EXCEPT !.exp = v] = [Fin(neg, dg, cf, exp) EXCEPT !.exp = v]
  OBVIOUS
<1>2. [Fin(neg, dg, cf, exp) EXCEPT !.exp = v] = Fin(neg, dg, cf, v)
  BY DEF Fin
<1> QED BY <1>1, <1>2

LEMMA SetKind ==
  ASSUME NEW neg, NEW dg, NEW cf, NEW exp, NEW n, n = Fin(neg, dg, cf, exp)
  PROVE  [n EXCEPT !.kind = "fin"] = Fin(neg, dg, cf, exp)
BY DEF Fin

LEMMA NegateIs ==
  ASSUME NEW neg, NEW dg, NEW cf, NEW exp
  PROVE  Negate(Fin(neg, dg, cf, exp)) = Fin(~neg, dg, cf, exp)
<1> DEFINE s == ~neg
           n == Fin(neg, dg, cf, exp)
<1>1. n.neg = neg
  BY FinFields
<1> HIDE DEF n
<1>2. Negate(n) = [n EXCEPT !.neg = s]
  BY <1>1 DEF Negate
<1> HIDE DEF s
<1>3. [n EXCEPT !.neg = s] = Fin(s, dg, cf, exp)
  BY SetNeg DEF n
<1>4. Negate(n) = Fin(s, dg, cf, exp)
  BY <1>2, <1>3
<1> QED BY <1>4 DEF s, n

LEMMA CopyFitIs ==
  ASSUME NEW neg, NEW dg, NEW cf, NEW exp, NEW p, NEW st
  PROVE  decCopyFit(Fin(neg, dg, cf, exp), p, 0, st)
           = decSetCoeff(Work(Fin(neg, dg, cf, exp), 0, st), p, cf, dg)
BY FinFields DEF decCopyFit

LEMMA ZeroAddend ==
  ASSUME NEW set, Settled(set), NEW lneg \in BOOLEAN, NEW lx \in Int,
         NEW neg \in BOOLEAN, NEW e \in Nat, NEW x \in Int
  PROVE  LET w == decCopyFit(Fin(neg, Places(e, 10), e, x), set.digits, 0, {})
             zero == Fin(lneg, 1, 0, lx)
             low == IF lx < x THEN lx ELSE x
             sgn == IF e = 0 /\ lneg # neg THEN set.round = "FLOOR" ELSE neg
         IN  /\ Gives(decFinish(AddToZero(zero, w, set), set), Ref!RoundTo(sgn, e * TenTo[x - low], low, set))
             /\ e # 0 => Gives(decFinish(AddZero(w, zero, set), set),
                               Ref!RoundTo(sgn, e * TenTo[x - low], low, set))
<1> DEFINE dg == Places(e, 10)
           w == decCopyFit(Fin(neg, dg, e, x), set.digits, 0, {})
           zero == Fin(lneg, 1, 0, lx)
           low == IF lx < x THEN lx ELSE x
           sgn == IF e = 0 /\ lneg # neg THEN set.round = "FLOOR" ELSE neg
           E == e * TenTo[x - low]
           ref == Ref!RoundTo(sgn, E, low, set)
<1>1. low \in Int /\ x - low \in Nat /\ sgn \in BOOLEAN
  OBVIOUS
<1>2. TenTo[x - low] \in Nat \ {0}
  <2> DEFINE d == x - low
  <2>1. d \in Nat
    BY <1>1
  <2> HIDE DEF d
  <2>2. TenTo[d] \in Nat \ {0}
    BY <2>1, Ten
  <2> QED BY <2>2 DEF d
<1>3. w = decSetCoeff(Work(Fin(neg, dg, e, x), 0, {}), set.digits, e, dg)
  <2> HIDE DEF dg
  <2> QED BY CopyFitIs
<1>4. zero.neg = lneg /\ zero.exp = lx
  BY FinFields
<1>5. set.digits \in Nat \ {0} /\ set.extended
  BY DEF Settled
<1>6. ASSUME e = 0 PROVE Gives(decFinish(AddToZero(zero, w, set), set), ref)
  <2>1. w = Work(Fin(neg, 1, 0, x), 0, {})
    <3>1. decSetCoeff(Work(Fin(neg, dg, e, x), 0, {}), set.digits, 0, Places(0, 10)) = Work(Fin(neg, 1, 0, x), 0, {})
      BY ZeroCut
    <3> HIDE DEF w
    <3> QED BY <1>3, <1>6, <3>1
  <2>2. E = 0
    <3> DEFINE f == TenTo[x - low]
    <3> HIDE DEF f
    <3>1. e * f = 0
      BY <1>2, <1>6 DEF f
    <3> QED BY <3>1 DEF f
  <2>3. ref = Ref!RoundZero(sgn, low, set)
    <3> HIDE DEF E, sgn, low
    <3> QED BY <2>2 DEF Ref!RoundTo
  <2> DEFINE n == Fin(neg, 1, 0, x)
             m == [n EXCEPT !.exp = low, !.neg = sgn]
  <2>4. m = Fin(sgn, 1, 0, low)
    <3> DEFINE a == 1
               b == 0
    <3> HIDE DEF a, b, sgn, low
    <3>1. n = Fin(neg, a, b, x)
      BY DEF a, b
    <3> HIDE DEF n
    <3> DEFINE k == [n EXCEPT !.exp = low]
               j == [k EXCEPT !.neg = sgn]
    <3>2. k = Fin(neg, a, b, low)
      BY <3>1, SetExp
    <3>3. m = j
      OBVIOUS
    <3> HIDE DEF k, m
    <3>4. j = Fin(sgn, a, b, low)
      BY <3>2, SetNeg
    <3> QED BY <3>3, <3>4 DEF a, b
  <2>5. w.n = n /\ w.residue = 0 /\ w.status = {} /\ n.exp = x /\ n.neg = neg /\ ISZERO(n)
    <3>1. n.kind = "fin" /\ n.digits = 1 /\ n.coef = 0 /\ n.exp = x /\ n.neg = neg
      BY FinFields
    <3>2. ISZERO(n)
      <4> HIDE DEF n
      <4> QED BY <3>1 DEF ISZERO
    <3> HIDE DEF w
    <3> QED BY <2>1, <3>1, <3>2, WorkFields
  <2>6. Lesser(x, lx) = low
    BY DEF Lesser
  <2>7. (IF lneg # neg THEN set.round = "FLOOR" ELSE neg) = sgn
    BY <1>6
  <2> HIDE DEF w, n, zero, low, sgn
  <2>8. AddToZero(zero, w, set) = Holding(w, m)
    <3>1. [n EXCEPT !.exp = Lesser(@, zero.exp), !.neg = IF zero.neg # @ THEN set.round = "FLOOR" ELSE @] = m
      <4>1. [n EXCEPT !.exp = Lesser(@, zero.exp), !.neg = IF zero.neg # @ THEN set.round = "FLOOR" ELSE @]
              = [n EXCEPT !.exp = Lesser(n.exp, zero.exp), !.neg = IF zero.neg # n.neg THEN set.round = "FLOOR" ELSE n.neg]
        OBVIOUS
      <4> QED BY <4>1, <1>4, <2>5, <2>6, <2>7
    <3> HIDE DEF m
    <3> QED BY <1>5, <2>5, <3>1 DEF AddToZero
  <2>9. AddToZero(zero, w, set) = Work(Fin(sgn, 1, 0, low), 0, {})
    <3> HIDE DEF m
    <3> QED BY <2>4, <2>5, <2>8 DEF Holding
  <2>10. Gives(decFinalize(Work(Fin(sgn, 1, 0, low), 0, {}), set), Ref!RoundZero(sgn, low, set))
    BY <1>1, ZeroGives
  <2> HIDE DEF ref
  <2> QED BY <2>3, <2>9, <2>10, FinishIs
<1>7. ASSUME e # 0 PROVE /\ Gives(decFinish(AddToZero(zero, w, set), set), ref)
                         /\ Gives(decFinish(AddZero(w, zero, set), set), ref)
  <2>1. IsCut(w, neg, e, x, set.digits)
    <3> HIDE DEF w
    <3>1. IsCut(decSetCoeff(Work(Fin(neg, dg, e, x), 0, {}), set.digits, e, Places(e, 10)), neg, e, x, set.digits)
      <4> HIDE DEF dg
      <4> QED BY <1>5, <1>7, SetCoeffCuts
    <3> QED BY <1>3, <3>1
  <2> HIDE DEF w
  <2>2. ~ISZERO(w.n)
    <3> DEFINE k == IF Places(e, 10) > set.digits THEN Places(e, 10) - set.digits ELSE 0
               q == e \div TenTo[k]
    <3>1. q # 0
      <4>1. e \in Nat \ {0}
        BY <1>7
      <4>2. LET kk == IF Places(e, 10) > set.digits THEN Places(e, 10) - set.digits ELSE 0
            IN  e \div TenTo[kk] \in Nat \ {0}
        <5> DEFINE p == set.digits
        <5> HIDE DEF p
        <5>1. WholeCut(neg, p, p, e, x, p)
          BY <4>1, <1>5, CutWhole DEF p
        <5> QED BY <5>1 DEF WholeCut, p
      <4> QED BY <4>2
    <3>2. w.n.coef = q
      <4> HIDE DEF q
      <4> QED BY <2>1, WorkFields, FinFields DEF IsCut, q
    <3> HIDE DEF q
    <3> QED BY <3>1, <3>2 DEF ISZERO
  <2>3. AddToZero(zero, w, set) = PadDown(w, lx, set) /\ AddZero(w, zero, set) = PadDown(w, lx, set)
    <3> HIDE DEF zero
    <3> QED BY <1>4, <1>5, <2>2 DEF AddToZero, AddZero
  <2>4. IsCut(PadDown(w, lx, set), neg, E, low, set.digits)
    <3>1. e \in Nat \ {0}
      BY <1>7
    <3> QED BY <3>1, <1>5, <2>1, PadCut
  <2>5. E \in Nat \ {0}
    <3> DEFINE f == TenTo[x - low]
    <3> HIDE DEF f
    <3>1. e * f \in Nat \ {0}
      BY <1>2, <1>7 DEF f
    <3> QED BY <3>1 DEF f
  <2>6. sgn = neg
    BY <1>7
  <2> HIDE DEF E, low, sgn, zero
  <2>7. Gives(decFinalize(PadDown(w, lx, set), set), Ref!RoundTo(neg, E, low, set))
    BY <1>1, <2>4, <2>5, CutGives
  <2> QED BY <2>3, <2>6, <2>7, FinishIs
<1> HIDE DEF ref
<1> QED BY <1>6, <1>7 DEF ref

\* Plus, minus and abs add to a zero, or subtract from it.
LEMMA UnaryRight ==
  ASSUME NEW set, Settled(set), NEW n, Sound(n), ~IsNaN(n), NEW negate \in BOOLEAN
  PROVE  Done(decAddOp(ZeroLike(n), n, set, negate, {})) = Ref!RefUnary(n.neg # negate, n, set)
<1> DEFINE z == ZeroLike(n)
           neg == n.neg # negate
           w == decAddOp(z, n, set, negate, {})
<1>1. z.kind = "fin" /\ z.neg = FALSE /\ z.exp = n.exp /\ z.digits = 1 /\ z.coef = 0
  BY DEF ZeroLike, decNumberZero
<1>2. ISZERO(z) /\ ~IsNaN(z) /\ ~IsSpecial(z)
  <2> HIDE DEF z
  <2> QED BY <1>1 DEF ISZERO, IsNaN, IsSpecial
<1>3. n \in Number /\ n.neg \in BOOLEAN /\ n.kind \in {"fin", "inf"} /\ n.exp \in Int
  BY FieldTypes DEF Sound, IsNaN
<1>4. w = AddOperands([lhs |-> z, rhs |-> n, status |-> {}], set, negate)
  <2> HIDE DEF z
  <2> QED BY WholeOperands DEF decAddOp
<1>5. ASSUME n.kind = "inf" PROVE Done(w) = Ref!RefUnary(neg, n, set)
  <2> HIDE DEF z
  <2>1. IsSpecial(n)
    BY <1>5 DEF IsSpecial
  <2>2. w = AddInfinite(z, n, negate, {})
    <3> HIDE DEF w
    <3> QED BY <1>2, <1>4, <2>1 DEF AddOperands
  <2>3. AddInfinite(z, n, negate, {}) = Work(Infinity(neg), 0, {})
    BY <1>1, <1>5 DEF AddInfinite
  <2> HIDE DEF w, neg
  <2> QED BY <1>5, <2>2, <2>3, DoneExact, InfiniteIs DEF Ref!RefUnary
<1>6. ASSUME n.kind = "fin" PROVE Done(w) = Ref!RefUnary(neg, n, set)
  <2> DEFINE e == n.coef
             x == n.exp
             dg == n.digits
             right == IF negate THEN Negate(n) ELSE n
             c == decCopyFit(right, set.digits, 0, {})
  <2>1. /\ n = Fin(n.neg, dg, e, x) /\ dg = Places(e, 10) /\ e \in Nat /\ x \in Int
    BY <1>6, SoundFinite
  <2>2. right = Fin(neg, dg, e, x) /\ neg \in BOOLEAN
    <3> HIDE DEF dg, e, x
    <3>1. CASE negate
      <4>1. Negate(n) = Fin(~n.neg, dg, e, x)
        BY <2>1, NegateIs
      <4>2. neg = ~n.neg
        BY <1>3, <3>1
      <4> QED BY <3>1, <4>1, <4>2
    <3>2. CASE ~negate
      <4>1. neg = n.neg
        BY <1>3, <3>2
      <4> QED BY <3>2, <4>1, <2>1
    <3> QED BY <3>1, <3>2
  <2>3. w = decFinish(AddToZero(z, c, set), set)
    <3>1. ~IsSpecial(n) /\ ~IsNaN(n)
      BY <1>6 DEF IsSpecial
    <3> HIDE DEF z
    <3>2. w = AddFinite(z, n, negate, set, {})
      <4> HIDE DEF w
      <4> QED BY <1>2, <1>4, <3>1 DEF AddOperands
    <3>3. AddFinite(z, n, negate, set, {}) = decFinish(AddWithZero(z, n, c, set), set)
      <4> HIDE DEF right
      <4> QED BY <1>2 DEF AddFinite, right
    <3>4. AddWithZero(z, n, c, set) = AddToZero(z, c, set)
      BY <1>2 DEF AddWithZero
    <3> QED BY <3>2, <3>3, <3>4
  <2>4. z = Fin(FALSE, 1, 0, x)
    <3> DEFINE a == FALSE
               b == 1
               d == 0
    <3>1. decNumberZero = Fin(a, b, d, d)
      BY DEF decNumberZero, Fin
    <3>2. z = [decNumberZero EXCEPT !.exp = x]
      BY DEF ZeroLike
    <3> HIDE DEF a, b, d, x
    <3>3. [decNumberZero EXCEPT !.exp = x] = Fin(a, b, d, x)
      BY <3>1, SetExp
    <3> HIDE DEF z
    <3> QED BY <3>2, <3>3 DEF a, b, d
  <2> DEFINE sgn == IF e = 0 /\ FALSE # neg THEN set.round = "FLOOR" ELSE neg
             low == IF x < x THEN x ELSE x
  <2>5. Gives(w, Ref!RoundTo(sgn, e * TenTo[x - low], low, set))
    <3> DEFINE lneg == FALSE
    <3>1. lneg \in BOOLEAN
      OBVIOUS
    <3> HIDE DEF lneg
    <3>2. LET w2 == decCopyFit(Fin(neg, Places(e, 10), e, x), set.digits, 0, {})
              zero == Fin(lneg, 1, 0, x)
              lo == IF x < x THEN x ELSE x
              sg == IF e = 0 /\ lneg # neg THEN set.round = "FLOOR" ELSE neg
          IN  Gives(decFinish(AddToZero(zero, w2, set), set), Ref!RoundTo(sg, e * TenTo[x - lo], lo, set))
      <4> HIDE DEF e, x, neg
      <4> QED BY <2>1, <2>2, <3>1, ZeroAddend
    <3> HIDE DEF w, z, right, dg, e, x, neg
    <3> QED BY <2>1, <2>2, <2>3, <2>4, <3>2 DEF lneg
  <2>6. low = x /\ e * TenTo[x - low] = e
    <3>1. x - x = 0
      BY <2>1
    <3>2. e * TenTo[0] = e
      BY <2>1, TenZero
    <3> QED BY <3>1, <3>2
  <2>7. sgn = (neg /\ (e # 0 \/ set.round = "FLOOR"))
    <3> HIDE DEF e
    <3> QED BY <2>2
  <2> HIDE DEF w, sgn, low, neg
  <2>8. Gives(w, Ref!RoundTo(sgn, e, x, set))
    BY <2>5, <2>6
  <2>9. Done(w) = Ref!RoundTo(sgn, e, x, set)
    <3> HIDE DEF e, x
    <3> QED BY <2>8, DoneRounded
  <2> QED BY <1>6, <2>7, <2>9 DEF Ref!RefUnary
<1> HIDE DEF w
<1>7. Done(w) = Ref!RefUnary(neg, n, set)
  BY <1>3, <1>5, <1>6
<1> QED BY <1>7 DEF w

\* The promise of an operation.
Keeps(op, l, r, set, out) == Ref!Correct(op, l, r, set, [n |-> out.n, status |-> out.status])

LEMMA DoneFields == ASSUME NEW w PROVE Done(w) = [n |-> Done(w).n, status |-> Done(w).status]
BY DEF Done, decStatus

LEMMA PlusMinusAbsRight ==
  ASSUME NEW set, Settled(set), NEW n, Sound(n)
  PROVE  /\ Keeps("Plus", n, n, set, decNumberPlus(n, set))
         /\ Keeps("Minus", n, n, set, decNumberMinus(n, set))
         /\ Keeps("Abs", n, n, set, decNumberAbs(n, set))
<1> DEFINE Sum(negate) == Done(decAddOp(ZeroLike(n), n, set, negate, {}))
<1>1. decNumberPlus(n, set) = Sum(FALSE) /\ decNumberMinus(n, set) = Sum(TRUE) /\ decNumberAbs(n, set) = Sum(n.neg)
  BY DEF decNumberPlus, decNumberMinus, decNumberAbs, decNumberAdd, decNumberSubtract
<1>2. n.neg \in BOOLEAN
  BY FieldTypes DEF Sound
<1>3. \A negate : Sum(negate) = [n |-> Sum(negate).n, status |-> Sum(negate).status]
  BY DoneFields
<1>4. ASSUME ~IsNaN(n)
      PROVE  /\ Keeps("Plus", n, n, set, decNumberPlus(n, set))
             /\ Keeps("Minus", n, n, set, decNumberMinus(n, set))
             /\ Keeps("Abs", n, n, set, decNumberAbs(n, set))
  <2>1. /\ Sum(FALSE) = Ref!RefUnary(n.neg # FALSE, n, set)
        /\ Sum(TRUE) = Ref!RefUnary(n.neg # TRUE, n, set)
        /\ Sum(n.neg) = Ref!RefUnary(n.neg # n.neg, n, set)
    BY <1>2, <1>4, UnaryRight
  <2>2. (n.neg # FALSE) = n.neg /\ (n.neg # TRUE) = ~n.neg /\ (n.neg # n.neg) = FALSE
    BY <1>2
  <2>3. \A op \in {"Plus", "Minus", "Abs"} : ~Ref!NaNDecides(op, n, n) /\ Ref!Unary(op) /\ op \in Ref!Determined
    BY <1>4 DEF Ref!NaNDecides, Ref!Unary, Ref!Determined, Ref!Logicals, IsNaN, Ref!IsNaN
  <2>4. \A op \in {"Plus", "Minus", "Abs"} : \A r : Ref!Correct(op, n, n, set, r) <=> r = Ref!Reference(op, n, n, set)
    BY <2>3 DEF Ref!Correct
  <2>5. /\ Ref!Reference("Plus", n, n, set) = Ref!RefUnary(n.neg, n, set)
        /\ Ref!Reference("Minus", n, n, set) = Ref!RefUnary(~n.neg, n, set)
        /\ Ref!Reference("Abs", n, n, set) = Ref!RefUnary(FALSE, n, set)
    BY DEF Ref!Reference, Ref!Logicals
  <2> HIDE DEF Sum
  <2> QED BY <1>1, <1>3, <2>1, <2>2, <2>4, <2>5 DEF Keeps
<1>5. ASSUME IsNaN(n)
      PROVE  /\ Keeps("Plus", n, n, set, decNumberPlus(n, set))
             /\ Keeps("Minus", n, n, set, decNumberMinus(n, set))
             /\ Keeps("Abs", n, n, set, decNumberAbs(n, set))
  <2> DEFINE z == ZeroLike(n)
  <2>1. ~IsNaN(z) /\ z.kind = "fin"
    BY DEF ZeroLike, decNumberZero, IsNaN
  <2> HIDE DEF z
  <2>2. \A negate : decAddOp(z, n, set, negate, {}) = decNaNs(z, n, set, {})
    BY <1>5, WholeOperands DEF decAddOp, AddOperands
  <2>3. Source(z, n) = Source(n, n)
    BY <2>1 DEF Source, IsNaN
  <2> DEFINE st == {}
  <2>4. \A op \in {"Plus", "Minus", "Abs"} : Passed(op, n, n, set, Done(decNaNs(z, n, set, {})))
    <3> TAKE op \in {"Plus", "Minus", "Abs"}
    <3>1. st = IF op = "CompareSignal" THEN {"Invalid_operation", "sNaN"} ELSE {}
      OBVIOUS
    <3> HIDE DEF st
    <3>2. Passed(op, n, n, set, Done(decNaNs(z, n, set, st)))
      BY <1>5, <2>3, <3>1, PassedRight
    <3> QED BY <3>2 DEF st
  <2>5. \A op \in {"Plus", "Minus", "Abs"} : Ref!NaNDecides(op, n, n) /\ Ref!Unary(op)
    BY <1>5 DEF Ref!NaNDecides, Ref!Unary, Ref!Logicals, IsNaN, Ref!IsNaN
  <2>6. \A op \in {"Plus", "Minus", "Abs"} : \A r : Ref!Correct(op, n, n, set, r) <=> Passed(op, n, n, set, r)
    BY <2>5 DEF Ref!Correct, Passed
  <2> DEFINE sum == Done(decNaNs(z, n, set, {}))
  <2>7. \A negate : Sum(negate) = sum
    BY <2>2 DEF z
  <2>8. sum = [n |-> sum.n, status |-> sum.status]
    BY DoneFields
  <2>9. decNumberPlus(n, set) = sum /\ decNumberMinus(n, set) = sum /\ decNumberAbs(n, set) = sum
    <3> HIDE DEF Sum, sum
    <3> QED BY <1>1, <2>7
  <2> HIDE DEF sum
  <2>10. \A op \in {"Plus", "Minus", "Abs"} : Keeps(op, n, n, set, sum)
    BY <2>4, <2>6, <2>8 DEF Keeps, sum
  <2> QED BY <2>9, <2>10
<1> QED BY <1>4, <1>5

(***************************************************************************)
(* Operations with two operands.                                           *)
(***************************************************************************)
\* Operations of two operands whose NaNs are passed on.
Plain == {"Add", "Subtract", "Multiply", "Quantize", "Compare", "CompareSignal", "ScaleB"}

LEMMA PlainNaN ==
  ASSUME NEW set, Settled(set), NEW op \in Plain, NEW l, Sound(l), NEW r, Sound(r),
         IsNaN(l) \/ IsNaN(r), NEW st,
         st = IF op = "CompareSignal" THEN {"Invalid_operation", "sNaN"} ELSE {}
  PROVE  Keeps(op, l, r, set, Done(decNaNs(l, r, set, st)))
<1> DEFINE w == decNaNs(l, r, set, st)
<1>1. Passed(op, l, r, set, Done(w))
  BY PassedRight
<1> HIDE DEF w
<1>2. Done(w) = [n |-> Done(w).n, status |-> Done(w).status]
  BY DoneFields
<1>3. ~Ref!Unary(op)
  BY DEF Plain, Ref!Unary
<1>4. Ref!NaNDecides(op, l, r)
  BY DEF Plain, Ref!NaNDecides, Ref!Logicals, IsNaN, Ref!IsNaN
<1>5. \A o : Ref!Correct(op, l, r, set, o) <=> Passed(op, l, r, set, o)
  BY <1>3, <1>4 DEF Ref!Correct, Passed
<1>6. Keeps(op, l, r, set, Done(w))
  BY <1>1, <1>2, <1>5 DEF Keeps
<1> QED BY <1>6 DEF w

LEMMA PlainKept ==
  ASSUME NEW set, NEW op \in Plain, NEW l, NEW r, ~IsNaN(l), ~IsNaN(r), NEW out,
         out = [n |-> out.n, status |-> out.status],
         out = Ref!Reference(op, l, r, set)
  PROVE  Keeps(op, l, r, set, out)
<1>1. ~Ref!Unary(op) /\ op \in Ref!Determined
  BY DEF Plain, Ref!Unary, Ref!Determined
<1>2. ~Ref!NaNDecides(op, l, r)
  BY DEF Plain, Ref!NaNDecides, Ref!Logicals, IsNaN, Ref!IsNaN
<1>3. op # "SquareRoot" /\ op # "Power" /\ op # "Exp" /\ op \notin {"NextPlus", "NextMinus", "NextToward"}
  BY DEF Plain
<1>4. \A o : Ref!Correct(op, l, r, set, o) <=> o = Ref!Reference(op, l, r, set)
  <2> HIDE DEF Plain
  <2> QED BY <1>1, <1>2, <1>3 DEF Ref!Correct
<1> QED BY <1>4 DEF Keeps

\* The length of a product.
LEMMA ProductLength ==
  ASSUME NEW a \in Nat, NEW b \in Nat
  PROVE  decGetDigits(a * b, Places(a, 10) + Places(b, 10)) = Places(a * b, 10)
<1> DEFINE m == Places(a, 10)
           n == Places(b, 10)
           x == TenTo[m]
           y == TenTo[n]
           c == a * b
<1>1. m \in Nat \ {0} /\ n \in Nat \ {0} /\ a < x /\ b < y
  BY Lengths
<1> HIDE DEF m, n
<1>2. x \in Nat \ {0} /\ y \in Nat \ {0} /\ TenTo[m + n] = x * y
  BY <1>1, Ten, TenSum
<1> HIDE DEF x, y
<1>3. c \in Nat
  OBVIOUS
<1>4. c < x * y
  <2>1. a * b <= a * y
    BY <1>1, <1>2
  <2>2. a * y < x * y
    BY <1>1, <1>2
  <2>3. a * y \in Nat /\ x * y \in Nat
    BY <1>2
  <2> HIDE DEF c
  <2> QED BY <1>3, <2>1, <2>2, <2>3 DEF c
<1> HIDE DEF c
<1>5. Places(c, 10) \in Nat \ {0} /\ (c # 0 => c >= TenTo[Places(c, 10) - 1]) /\ (c = 0 => Places(c, 10) = 1)
  BY <1>3, Lengths
<1>6. Places(c, 10) <= m + n
  <2>1. CASE c = 0
    BY <2>1, <1>1, <1>5
  <2>2. CASE c # 0
    <3> DEFINE p == Places(c, 10) - 1
    <3>1. p \in Nat /\ TenTo[p] \in Nat /\ TenTo[m + n] \in Nat /\ m + n \in Nat
      BY <1>1, <1>5, Ten
    <3>2. TenTo[p] < TenTo[m + n]
      BY <2>2, <1>2, <1>3, <1>4, <1>5, <3>1
    <3> HIDE DEF p
    <3>3. ~(m + n <= p)
      BY <3>1, <3>2, TenMono
    <3> QED BY <1>1, <1>5, <3>1, <3>3 DEF p
  <2> QED BY <2>1, <2>2
<1>7. decGetDigits(c, m + n) = Places(c, 10)
  BY <1>1, <1>5, <1>6 DEF decGetDigits
<1> QED BY <1>7 DEF c, m, n

LEMMA MultiplyRight ==
  ASSUME NEW set, Settled(set), NEW l, Sound(l), NEW r, Sound(r),
         l.exp + r.exp >= -IntMax - 1
  PROVE  Keeps("Multiply", l, r, set, decNumberMultiply(l, r, set))
<1> DEFINE neg == l.neg # r.neg
           w == decMultiplyOp(l, r, set, {})
           long == IF l.digits < r.digits THEN r ELSE l
           short == IF l.digits < r.digits THEN l ELSE r
<1>1. decNumberMultiply(l, r, set) = Done(w)
  BY DEF decNumberMultiply
<1>2. neg \in BOOLEAN /\ l.kind \in {"fin", "inf", "nan", "snan"} /\ r.kind \in {"fin", "inf", "nan", "snan"}
  BY FieldTypes DEF Sound
<1>3. ASSUME IsNaN(l) \/ IsNaN(r) PROVE Keeps("Multiply", l, r, set, Done(w))
  <2>1. w = decNaNs(l, r, set, {})
    BY <1>3 DEF decMultiplyOp
  <2> DEFINE st == {}
             op == "Multiply"
  <2>2. st = (IF op = "CompareSignal" THEN {"Invalid_operation", "sNaN"} ELSE {}) /\ op \in Plain
    BY DEF Plain
  <2> HIDE DEF st, w, op
  <2>3. Keeps(op, l, r, set, Done(decNaNs(l, r, set, st)))
    BY <1>3, <2>2, PlainNaN
  <2> QED BY <2>1, <2>3 DEF st, op
<1>4. ASSUME ~IsNaN(l), ~IsNaN(r), IsSpecial(l) \/ IsSpecial(r)
      PROVE  Done(w) = Ref!RefMultiply(l, r, set)
  <2>1. w = IF ISZERO(l) \/ ISZERO(r) THEN Invalid({}) ELSE Work(Infinity(neg), 0, {})
    BY <1>4 DEF decMultiplyOp
  <2>2. l.kind = "inf" \/ r.kind = "inf"
    BY <1>2, <1>4 DEF IsSpecial, IsNaN
  <2>3. (ISZERO(l) <=> l.kind = "fin" /\ l.coef = 0) /\ (ISZERO(r) <=> r.kind = "fin" /\ r.coef = 0)
    BY SoundFinite DEF ISZERO
  <2> HIDE DEF w, neg
  <2>4. Ref!RefMultiply(l, r, set) = IF ISZERO(l) \/ ISZERO(r) THEN Ref!InvalidOperation ELSE Ref!Exactly(Ref!Infinite(neg))
    BY <2>2, <2>3 DEF Ref!RefMultiply, neg
  <2> QED BY <2>1, <2>4, DoneInvalid, DoneExact, InfiniteIs
<1>5. ASSUME ~IsNaN(l), ~IsNaN(r), ~IsSpecial(l), ~IsSpecial(r)
      PROVE  Done(w) = Ref!RefMultiply(l, r, set)
  <2>1. l.kind = "fin" /\ r.kind = "fin" /\ long.kind = "fin" /\ short.kind = "fin" /\ Sound(long) /\ Sound(short)
    BY <1>5 DEF IsSpecial
  <2>2. long.coef * short.coef = l.coef * r.coef /\ long.exp + short.exp = l.exp + r.exp
    <3>1. l.coef \in Nat /\ r.coef \in Nat /\ l.exp \in Int /\ r.exp \in Int
      BY <2>1, SoundFinite
    <3>2. l.coef * r.coef = r.coef * l.coef
      BY <3>1
    <3> QED BY <3>1, <3>2
  <2>3. w = MultiplyFinite([lhs |-> long, rhs |-> short, status |-> {}], neg, set)
    <3> DEFINE o == SubsetOperands(long, short, set, {})
    <3>1. w = MultiplyFinite(o, neg, set)
      <4> HIDE DEF neg
      <4> QED BY <1>5 DEF decMultiplyOp, neg
    <3> HIDE DEF long, short, w, neg
    <3> QED BY <3>1, WholeOperands
  <2> HIDE DEF long, short, w, neg
  <2> DEFINE a == long.coef
             b == short.coef
             c == a * b
             x == long.exp
             y == short.exp
             dg == long.digits
  <2>4. /\ long = Fin(long.neg, dg, a, x) /\ dg = Places(a, 10) /\ short.digits = Places(b, 10)
        /\ a \in Nat /\ b \in Nat /\ x \in Int /\ y \in Int
    BY <2>1, SoundFinite
  <2>5. ProductExponent(x, y) = x + y
    <3>1. x + y >= -IntMax - 1
      BY <2>2
    <3> HIDE DEF x, y
    <3>2. WrappedSum(x, y) = x + y
      <4> DEFINE m == -IntMax - 1
                 v == x + y
      <4>1. v \in Int /\ m \in Int /\ v >= m
        BY <2>4, <3>1, IntegerAssumption
      <4>2. ~(v < m)
        <5> HIDE DEF v, m
        <5> QED BY <4>1
      <4> HIDE DEF m
      <4> QED BY <4>2 DEF WrappedSum, m
    <3> QED BY <3>2, <2>4 DEF ProductExponent
  <2>6. MultiplyFinite([lhs |-> long, rhs |-> short, status |-> {}], neg, set)
          = decFinish(decSetCoeff(Work(Fin(neg, dg, a, x + y), 0, {}), set.digits, c, Places(c, 10)), set)
    <3> DEFINE o == [lhs |-> long, rhs |-> short, status |-> {}]
               n == [long EXCEPT !.neg = neg, !.kind = "fin", !.exp = ProductExponent(x, y)]
    <3>1. o.lhs = long /\ o.rhs = short /\ o.status = {}
      OBVIOUS
    <3>2. n = Fin(neg, dg, a, x + y)
      <4> HIDE DEF dg, a, x, y
      <4> DEFINE z == x + y
                 s == long.neg
      <4>1. long = Fin(s, dg, a, x)
        BY <2>4
      <4> HIDE DEF z, s
      <4> DEFINE i == [long EXCEPT !.neg = neg]
                 j == [i EXCEPT !.kind = "fin"]
                 k == [j EXCEPT !.exp = z]
      <4>2. i = Fin(neg, dg, a, x)
        BY <4>1, SetNeg
      <4>3. [long EXCEPT !.neg = neg, !.kind = "fin", !.exp = z] = k
        OBVIOUS
      <4> HIDE DEF i
      <4>4. j = Fin(neg, dg, a, x)
        BY <4>2, SetKind
      <4> HIDE DEF j
      <4>5. k = Fin(neg, dg, a, z)
        BY <4>4, SetExp
      <4> HIDE DEF k
      <4> QED BY <2>5, <4>3, <4>5 DEF z
    <3>3. decGetDigits(c, long.digits + short.digits) = Places(c, 10)
      <4>1. decGetDigits(a * b, Places(a, 10) + Places(b, 10)) = Places(a * b, 10)
        <5> HIDE DEF a, b
        <5> QED BY <2>4, ProductLength
      <4> QED BY <2>4, <4>1
    <3> HIDE DEF o
    <3>4. MultiplyFinite(o, neg, set) = decFinish(decSetCoeff(Work(n, 0, {}), set.digits, c,
                          decGetDigits(c, long.digits + short.digits)), set)
      BY <3>1 DEF MultiplyFinite
    <3> QED BY <3>2, <3>3, <3>4 DEF o
  <2>7. c \in Nat /\ x + y \in Int
    <3> HIDE DEF a, b, x, y
    <3> QED BY <2>4
  <2>8. c = l.coef * r.coef /\ x + y = l.exp + r.exp
    BY <2>2
  <2>9. Ref!RefMultiply(l, r, set) = Ref!RoundTo(neg, c, x + y, set)
    <3> HIDE DEF c, x, y
    <3> QED BY <2>1, <2>8 DEF Ref!RefMultiply, neg
  <2> DEFINE z == x + y
  <2>10. Gives(w, Ref!RoundTo(neg, c, z, set))
    <3>1. w = decFinish(decSetCoeff(Work(Fin(neg, dg, a, z), 0, {}), set.digits, c, Places(c, 10)), set)
      BY <2>3, <2>6
    <3> HIDE DEF c, z, a, dg
    <3>2. Gives(decFinalize(decSetCoeff(Work(Fin(neg, dg, a, z), 0, {}), set.digits, c, Places(c, 10)), set),
                Ref!RoundTo(neg, c, z, set))
      BY <1>2, <2>7, RoundedRight DEF z, neg
    <3> QED BY <3>1, <3>2, FinishIs
  <2> HIDE DEF z, c
  <2>11. Done(w) = Ref!RoundTo(neg, c, z, set)
    BY <2>10, DoneRounded
  <2> QED BY <2>9, <2>11 DEF z
<1>6. Ref!Reference("Multiply", l, r, set) = Ref!RefMultiply(l, r, set)
  BY DEF Ref!Reference, Ref!Logicals
<1> HIDE DEF w
<1>7. ASSUME ~IsNaN(l), ~IsNaN(r) PROVE Keeps("Multiply", l, r, set, Done(w))
  <2>1. Done(w) = Ref!Reference("Multiply", l, r, set)
    BY <1>4, <1>5, <1>6, <1>7
  <2>2. Done(w) = [n |-> Done(w).n, status |-> Done(w).status]
    BY DoneFields
  <2> DEFINE op == "Multiply"
             out == Done(w)
  <2>3. op \in Plain
    BY DEF Plain
  <2> HIDE DEF op, out
  <2>4. Keeps(op, l, r, set, out)
    BY <1>7, <2>1, <2>2, <2>3, PlainKept DEF op, out
  <2> QED BY <2>4 DEF op, out
<1> QED BY <1>1, <1>3, <1>7

(***************************************************************************)
(* Sums.  The reference takes both addends to the lower exponent; the code *)
(* replaces one Unit, or keeps only a residue of the lower addend, or adds *)
(* digit for digit.                                                        *)
(***************************************************************************)
\* The sum of two finite numbers, as the reference takes it: at the lower
\* exponent, with the sign of the one that is larger there.
SumAs(l, r, set) ==
  LET e == IF r.exp < l.exp THEN r.exp ELSE l.exp
      a == l.coef * TenTo[l.exp - e]
      b == r.coef * TenTo[r.exp - e]
  IN  Ref!RefAdd(l, r, set) =
        IF l.neg = r.neg THEN Ref!RoundTo(l.neg, a + b, e, set)
        ELSE IF a = b THEN Ref!RoundTo(set.round = "FLOOR", 0, e, set)
        ELSE IF b < a THEN Ref!RoundTo(l.neg, a - b, e, set)
        ELSE Ref!RoundTo(r.neg, b - a, e, set)

\* Signed multiples.
LEMMA SignedAt ==
  ASSUME NEW n, n.coef \in Nat, n.neg \in BOOLEAN, n.exp \in Int, NEW e \in Int, e <= n.exp
  PROVE  /\ n.coef * TenTo[n.exp - e] \in Nat
         /\ Ref!AtExponent(n, e) = IF n.neg THEN -(n.coef * TenTo[n.exp - e])
                                            ELSE n.coef * TenTo[n.exp - e]
<1> DEFINE d == n.exp - e
           f == TenTo[d]
           c == n.coef
<1>1. d \in Nat
  OBVIOUS
<1>2. Ref!AtExponent(n, e) = Ref!Signed(n) * Ref!Power(10, d)
  BY DEF Ref!AtExponent
<1> HIDE DEF d
<1>3. Ref!Power(10, d) = f /\ f \in Nat \ {0}
  BY <1>1, RefPower, Ten
<1>4. Ref!Signed(n) = IF n.neg THEN -c ELSE c
  BY DEF Ref!Signed
<1> HIDE DEF f, c
<1>5. c \in Nat
  BY DEF c
<1>6. c * f \in Nat /\ (-c) * f = -(c * f)
  BY <1>3, <1>5
<1> QED BY <1>2, <1>3, <1>4, <1>6 DEF c, f, d

LEMMA RefSum ==
  ASSUME NEW set, NEW l, NEW r, l.kind = "fin", r.kind = "fin", l.neg \in BOOLEAN, r.neg \in BOOLEAN,
         l.coef \in Nat, r.coef \in Nat, l.exp \in Int, r.exp \in Int
  PROVE  SumAs(l, r, set)
<1> DEFINE e == IF r.exp < l.exp THEN r.exp ELSE l.exp
           a == l.coef * TenTo[l.exp - e]
           b == r.coef * TenTo[r.exp - e]
           low == Ref!Least({l.exp, r.exp})
           sum == Ref!AtExponent(l, low) + Ref!AtExponent(r, low)
           zeroNeg == IF l.neg = r.neg THEN l.neg ELSE set.round = "FLOOR"
           neg == IF sum = 0 THEN zeroNeg ELSE sum < 0
<1>1. low = e /\ e \in Int /\ e <= l.exp /\ e <= r.exp
  <2>1. low = IF l.exp <= r.exp THEN l.exp ELSE r.exp
    BY RefLeast
  <2> HIDE DEF low
  <2> QED BY <2>1
<1>2. a \in Nat /\ Ref!AtExponent(l, e) = IF l.neg THEN -a ELSE a
  <2> HIDE DEF e
  <2> QED BY <1>1, SignedAt
<1>3. b \in Nat /\ Ref!AtExponent(r, e) = IF r.neg THEN -b ELSE b
  <2> HIDE DEF e
  <2> QED BY <1>1, SignedAt
<1>4. Ref!RefAdd(l, r, set) = Ref!RoundTo(neg, Ref!Abs(sum), low, set)
  BY DEF Ref!RefAdd
<1> HIDE DEF e, a, b, low
<1>5. sum = (IF l.neg THEN -a ELSE a) + (IF r.neg THEN -b ELSE b)
  BY <1>1, <1>2, <1>3
<1> HIDE DEF sum
<1>6. CASE l.neg = r.neg
  <2>1. Ref!Abs(sum) = a + b /\ (sum < 0 <=> l.neg /\ sum # 0)
    BY <1>2, <1>3, <1>5, <1>6 DEF Ref!Abs
  <2>2. neg = l.neg
    BY <1>6, <2>1
  <2> HIDE DEF neg
  <2>3. Ref!RefAdd(l, r, set) = Ref!RoundTo(l.neg, a + b, e, set)
    BY <1>1, <1>4, <2>1, <2>2
  <2> QED BY <1>6, <2>3 DEF SumAs, a, b, e
<1>7. CASE l.neg # r.neg /\ a = b
  <2>1. Ref!Abs(sum) = 0 /\ sum = 0
    BY <1>2, <1>3, <1>5, <1>7 DEF Ref!Abs
  <2>2. neg = (set.round = "FLOOR")
    BY <1>7, <2>1
  <2> HIDE DEF neg
  <2>3. Ref!RefAdd(l, r, set) = Ref!RoundTo(set.round = "FLOOR", 0, e, set)
    BY <1>1, <1>4, <2>1, <2>2
  <2> QED BY <1>7, <2>3 DEF SumAs, a, b, e
<1>8. CASE l.neg # r.neg /\ b < a
  <2>1. Ref!Abs(sum) = a - b /\ sum # 0 /\ (sum < 0) = l.neg
    BY <1>2, <1>3, <1>5, <1>8 DEF Ref!Abs
  <2>2. neg = l.neg
    BY <2>1
  <2> HIDE DEF neg
  <2>3. Ref!RefAdd(l, r, set) = Ref!RoundTo(l.neg, a - b, e, set)
    BY <1>1, <1>4, <2>1, <2>2
  <2>4. a # b
    BY <1>2, <1>3, <1>8
  <2> QED BY <1>8, <2>3, <2>4 DEF SumAs, a, b, e
<1>9. CASE l.neg # r.neg /\ a < b
  <2>1. Ref!Abs(sum) = b - a /\ sum # 0 /\ (sum < 0) = r.neg
    BY <1>2, <1>3, <1>5, <1>9 DEF Ref!Abs
  <2>2. neg = r.neg
    BY <2>1
  <2> HIDE DEF neg
  <2>3. Ref!RefAdd(l, r, set) = Ref!RoundTo(r.neg, b - a, e, set)
    BY <1>1, <1>4, <2>1, <2>2
  <2>4. a # b /\ ~(b < a)
    BY <1>2, <1>3, <1>9
  <2> QED BY <1>9, <2>3, <2>4 DEF SumAs, a, b, e
<1> QED BY <1>2, <1>3, <1>6, <1>7, <1>8, <1>9

\* The same with the number of the lower exponent first.
SumOf(low, high, set) ==
  LET a == low.coef
      b == high.coef * TenTo[high.exp - low.exp]
  IN  IF low.neg = high.neg THEN Ref!RoundTo(low.neg, a + b, low.exp, set)
      ELSE IF a = b THEN Ref!RoundTo(set.round = "FLOOR", 0, low.exp, set)
      ELSE IF b < a THEN Ref!RoundTo(low.neg, a - b, low.exp, set)
      ELSE Ref!RoundTo(high.neg, b - a, low.exp, set)

LEMMA SumEitherWay ==
  ASSUME NEW set, NEW l, NEW r, l.kind = "fin", r.kind = "fin", l.neg \in BOOLEAN, r.neg \in BOOLEAN,
         l.coef \in Nat, r.coef \in Nat, l.exp \in Int, r.exp \in Int
  PROVE  /\ l.exp <= r.exp => Ref!RefAdd(l, r, set) = SumOf(l, r, set)
         /\ r.exp < l.exp => Ref!RefAdd(l, r, set) = SumOf(r, l, set)
<1>1. SumAs(l, r, set)
  BY RefSum
<1>2. /\ l.exp - l.exp = 0 /\ l.coef * TenTo[0] = l.coef
      /\ r.exp - r.exp = 0 /\ r.coef * TenTo[0] = r.coef
  BY TenZero
<1>3. ASSUME l.exp <= r.exp PROVE Ref!RefAdd(l, r, set) = SumOf(l, r, set)
  <2>1. ~(r.exp < l.exp)
    BY <1>3
  <2> QED BY <1>1, <1>2, <2>1 DEF SumAs, SumOf
<1>4. ASSUME r.exp < l.exp PROVE Ref!RefAdd(l, r, set) = SumOf(r, l, set)
  <2> DEFINE d == l.exp - r.exp
             a == l.coef * TenTo[d]
             b == r.coef
  <2>1. a \in Nat /\ b \in Nat
    <3>1. d \in Nat
      BY <1>4
    <3> HIDE DEF d
    <3> QED BY <3>1, Ten
  <2>2. Ref!RefAdd(l, r, set) =
          IF l.neg = r.neg THEN Ref!RoundTo(l.neg, a + b, r.exp, set)
          ELSE IF a = b THEN Ref!RoundTo(set.round = "FLOOR", 0, r.exp, set)
          ELSE IF b < a THEN Ref!RoundTo(l.neg, a - b, r.exp, set)
          ELSE Ref!RoundTo(r.neg, b - a, r.exp, set)
    BY <1>1, <1>2, <1>4 DEF SumAs
  <2>3. SumOf(r, l, set) =
          IF r.neg = l.neg THEN Ref!RoundTo(r.neg, b + a, r.exp, set)
          ELSE IF b = a THEN Ref!RoundTo(set.round = "FLOOR", 0, r.exp, set)
          ELSE IF a < b THEN Ref!RoundTo(r.neg, b - a, r.exp, set)
          ELSE Ref!RoundTo(l.neg, a - b, r.exp, set)
    BY DEF SumOf
  <2> HIDE DEF a, b
  <2>4. a + b = b + a /\ (a # b => (b < a <=> ~(a < b)))
    BY <2>1
  <2> QED BY <2>2, <2>3, <2>4
<1> QED BY <1>3, <1>4

\* A number in range that is short enough stays as it is.
LEMMA AsItIs ==
  ASSUME NEW set, Settled(set), NEW neg \in BOOLEAN, NEW e \in Nat \ {0}, NEW x \in Int,
         Places(e, 10) <= set.digits, set.emin <= x, x <= Etop(set)
  PROVE  Gives(Work(Fin(neg, Places(e, 10), e, x), 0, {}), Ref!RoundTo(neg, e, x, set))
<1> DEFINE n == Places(e, 10)
           p == set.digits
           w == Work(Fin(neg, n, e, x), 0, {})
           c == decSetCoeff(w, p, e, n)
<1>1. p \in Nat \ {0} /\ n \in Nat \ {0} /\ set.emin \in Int
  BY Lengths DEF Settled
<1>2. c = w
  <2> HIDE DEF n, p
  <2> QED BY <1>1, ShortCut DEF p, n
<1>3. Gives(decFinalize(c, set), Ref!RoundTo(neg, e, x, set))
  BY RoundedRight
<1>4. decFinalize(w, set) = w
  <2>1. w.n = Fin(neg, n, e, x) /\ w.residue = 0 /\ w.n.digits = n /\ w.n.exp = x
    BY WorkFields, FinFields
  <2> HIDE DEF w, n, p
  <2>2. ~(x < (set.emin - n) + 1)
    BY <1>1
  <2>3. decApplyRound(w, set) = w
    BY <2>1 DEF decApplyRound, Bumped
  <2>4. decFinalize(w, set) = WithinRange(w, set)
    <3>1. ~(x < set.emin - n + 1)
      BY <2>2
    <3> QED BY <2>1, <2>3, <3>1 DEF decFinalize, InRange
  <2>5. ~TooBig(w.n, set)
    <3>1. Etop(set) = (set.emax - p) + 1 /\ set.emax \in Nat /\ n <= p
      BY RangeIs DEF Settled, p, n
    <3>2. ~(x + n > set.emax + 1)
      BY <1>1, <3>1
    <3> QED BY <2>1, <3>2 DEF TooBig
  <2> QED BY <2>1, <2>4, <2>5 DEF WithinRange
<1> HIDE DEF w, c
<1> QED BY <1>2, <1>3, <1>4 DEF w

\* Quotients of naturals.
LEMMA NatDivMod ==
  ASSUME NEW a \in Nat, NEW b \in Nat \ {0}
  PROVE  /\ a = (a \div b) * b + (a % b) /\ a \div b \in Nat
         /\ a % b \in Nat /\ a % b < b /\ a % b <= a
<1> DEFINE q == a \div b
           r == a % b
<1>1. a = q * b + r /\ r \in 0 .. b - 1 /\ q \in Int
  BY DivMod
<1> HIDE DEF q, r
<1>2. q >= 0
  <2> SUFFICES ASSUME q <= -1 PROVE FALSE
    BY <1>1
  <2>1. q * b <= (-1) * b
    BY <1>1
  <2> QED BY <1>1, <2>1
<1>3. q * b \in Int /\ q * b >= 0
  BY <1>1, <1>2
<1>4. r <= a
  BY <1>1, <1>3
<1> QED BY <1>1, <1>2, <1>4 DEF q, r

\* Few enough digits.
LEMMA FitsIn ==
  ASSUME NEW c \in Nat, NEW m \in Nat \ {0}, c < TenTo[m]
  PROVE  Places(c, 10) <= m
<1>1. c < Power(10, m) /\ 10 \in Nat \ {0, 1}
  BY TenToIs
<1> QED BY <1>1, PlacesAtMost

\* The lowest Unit takes the sum, and the digits above it stay.
LEMMA SumStays ==
  ASSUME NEW a \in Nat \ {0}, NEW b \in Nat,
         NEW u \in Nat \ {0}, (a % TenTo[u]) + b < TenTo[Lesser(u, Places(a, 10))]
  PROVE  Places(a + b, 10) = Places(a, 10)
<1> DEFINE n == Places(a, 10)
           t == TenTo[u]
<1>1. n \in Nat \ {0} /\ a < TenTo[n] /\ a >= TenTo[n - 1] /\ n - 1 \in Nat
  BY Lengths
<1>2. t \in Nat \ {0} /\ TenTo[n] \in Nat \ {0} /\ TenTo[n - 1] \in Nat \ {0}
  BY <1>1, Ten
<1>3. a + b < TenTo[n]
  <2>1. CASE n <= u
    <3>1. TenTo[n] <= t
      BY <1>1, <2>1, TenMono
    <3>2. Lesser(u, n) = n
      BY <1>1, <2>1 DEF Lesser
    <3> HIDE DEF n, t
    <3>3. a % t = a
      BY <1>1, <1>2, <3>1
    <3> QED BY <3>2, <3>3 DEF n, t
  <2>2. CASE u < n
    <3> DEFINE k == n - u
               f == TenTo[k]
               q == a \div t
               r == a % t
    <3>1. k \in Nat /\ u + k = n
      BY <1>1, <2>2
    <3>2. TenTo[u + k] = t * f /\ f \in Nat \ {0}
      <4> HIDE DEF k
      <4> QED BY <3>1, TenSum, Ten
    <3>3. TenTo[n] = t * f
      BY <3>1, <3>2
    <3>4. Lesser(u, n) = u
      BY <1>1, <2>2 DEF Lesser
    <3>5. r + b < t
      BY <3>4
    <3>6. a = q * t + r /\ r \in Nat /\ q \in Int
      <4> HIDE DEF t
      <4> QED BY <1>2, DivMod
    <3> HIDE DEF n, t, f, q, r
    <3>7. q < f
      <4> SUFFICES ASSUME f <= q PROVE FALSE
        BY <3>2, <3>6
      <4>1. f * t <= q * t
        BY <1>2, <3>2, <3>6
      <4> QED BY <1>1, <1>2, <3>2, <3>3, <3>6, <4>1
    <3>8. (q + 1) * t <= f * t
      BY <1>2, <3>2, <3>6, <3>7
    <3>9. (q + 1) * t = q * t + t
      BY <1>2, <3>6
    <3> QED BY <1>2, <3>2, <3>3, <3>5, <3>6, <3>8, <3>9
  <2> QED BY <1>1, <2>1, <2>2
<1>4. a + b \in Nat /\ a + b >= TenTo[n - 1]
  BY <1>1, <1>2
<1> HIDE DEF n
<1>5. Places(a + b, 10) = n
  BY <1>1, <1>3, <1>4, LengthIs
<1> QED BY <1>5 DEF n

\* The digits of a difference, counted.
LEMMA DifferenceCounted ==
  ASSUME NEW a \in Nat, NEW c \in Nat, c <= a
  PROVE  decGetDigits(c, Places(a, 10)) = Places(c, 10)
<1> DEFINE n == Places(a, 10)
           m == Places(c, 10)
<1>1. n \in Nat \ {0} /\ a < TenTo[n] /\ TenTo[n] \in Nat
  BY Lengths, Ten
<1>2. m \in Nat
  BY Lengths
<1>3. c < TenTo[n]
  <2> HIDE DEF n
  <2> QED BY <1>1
<1>4. m <= n
  <2> HIDE DEF n
  <2> QED BY <1>1, <1>3, FitsIn
<1> HIDE DEF n, m
<1>5. (IF m < n THEN m ELSE n) = m
  BY <1>1, <1>2, <1>4
<1> QED BY <1>5 DEF decGetDigits, n, m

LEMMA SetCoef ==
  ASSUME NEW neg, NEW dg, NEW cf, NEW exp, NEW v, NEW n, n = Fin(neg, dg, cf, exp)
  PROVE  [n EXCEPT !.coef = v] = Fin(neg, dg, v, exp)
BY DEF Fin

LEMMA SetDigits ==
  ASSUME NEW neg, NEW dg, NEW cf, NEW exp, NEW v, NEW n, n = Fin(neg, dg, cf, exp)
  PROVE  [n EXCEPT !.digits = v] = Fin(neg, v, cf, exp)
BY DEF Fin

\* A sum that stays in one Unit.
LEMMA FastRight ==
  ASSUME NEW set, Settled(set), NEW l, Sound(l), NEW r, Sound(r), l.kind = "fin", r.kind = "fin",
         l.coef # 0, NEW right, right.neg \in BOOLEAN, right.coef = r.coef, right.exp = r.exp,
         NEW diffsign, diffsign = (l.neg # right.neg), InOneUnit(l, r, diffsign, set)
  PROVE  Gives(AddFast(l, r, diffsign, {}), SumOf(l, right, set))
<1> DEFINE a == l.coef
           b == r.coef
           x == l.exp
           dg == l.digits
           neg == l.neg
           unit == a % TenTo[DECDPUN]
           c == IF diffsign THEN a - b ELSE a + b
           dc == IF diffsign THEN decGetDigits(c, dg) ELSE dg
<1>1. /\ l = Fin(neg, dg, a, x) /\ neg \in BOOLEAN /\ a \in Nat \ {0} /\ b \in Nat /\ x \in Int
      /\ dg = Places(a, 10)
  BY SoundFinite
<1>2. DECDPUN \in Nat \ {0} /\ TenTo[DECDPUN] \in Nat \ {0}
  <2>1. DECDPUN \in Nat \ {0}
    BY UnitAssumption
  <2> QED BY <2>1, Ten
<1>3. unit \in Nat /\ unit <= a
  <2> HIDE DEF a
  <2> QED BY <1>1, <1>2, NatDivMod
<1>4. /\ x = r.exp /\ x >= set.emin /\ x <= Etop(set) /\ dg <= set.digits
      /\ diffsign => unit - b > 0
      /\ ~diffsign => unit + b < TenTo[Lesser(DECDPUN, dg)]
  BY DEF InOneUnit
<1>5. AddFast(l, r, diffsign, {}) = Work(Fin(neg, dc, c, x), 0, {})
  <2> DEFINE n == [l EXCEPT !.coef = c]
             m == [n EXCEPT !.digits = dc]
  <2>1. [l EXCEPT !.coef = c, !.digits = IF diffsign THEN decGetDigits(c, @) ELSE @] = m
    OBVIOUS
  <2>2. m = Fin(neg, dc, c, x)
    <3> HIDE DEF a, dg, x, neg, c, dc, n
    <3>1. n = Fin(neg, dg, c, x)
      BY <1>1, SetCoef DEF n
    <3> QED BY <3>1, SetDigits
  <2> HIDE DEF m, n, dc
  <2> QED BY <2>1, <2>2 DEF AddFast, c
<1>6. c \in Nat \ {0} /\ dc = Places(c, 10) /\ dc <= set.digits
  <2>1. CASE diffsign
    <3>1. a - b \in Nat \ {0} /\ a - b <= a
      <4> HIDE DEF a, b, unit
      <4> QED BY <1>1, <1>3, <1>4, <2>1
    <3>2. decGetDigits(a - b, Places(a, 10)) = Places(a - b, 10) /\ decGetDigits(a - b, Places(a, 10)) <= Places(a, 10)
      <4> DEFINE d == a - b
                 n == Places(a, 10)
                 m == Places(d, 10)
      <4>1. m \in Nat /\ n \in Nat
        <5> HIDE DEF a, d
        <5> QED BY <1>1, <3>1, Lengths DEF d
      <4>2. decGetDigits(d, n) = m
        <5> HIDE DEF a, d
        <5> QED BY <1>1, <3>1, DifferenceCounted DEF d
      <4>3. decGetDigits(d, n) <= n
        <5> HIDE DEF a, d, n, m
        <5> QED BY <4>1 DEF decGetDigits, m
      <4> QED BY <4>2, <4>3
    <3>3. c = a - b /\ dc = decGetDigits(a - b, Places(a, 10))
      BY <1>1, <2>1
    <3>4. set.digits \in Nat /\ dg \in Nat /\ Places(a - b, 10) \in Nat
      <4>1. Places(a - b, 10) \in Nat /\ Places(a, 10) \in Nat
        <5> DEFINE d == a - b
        <5> HIDE DEF a, d
        <5> QED BY <1>1, <3>1, Lengths DEF d
      <4> QED BY <1>1, <4>1 DEF Settled
    <3> HIDE DEF c, dc, dg, a, b
    <3> QED BY <1>1, <1>4, <3>1, <3>2, <3>3, <3>4
  <2>2. CASE ~diffsign
    <3>1. Places(a + b, 10) = Places(a, 10)
      <4>1. (a % TenTo[DECDPUN]) + b < TenTo[Lesser(DECDPUN, Places(a, 10))]
        BY <1>1, <1>4, <2>2
      <4> HIDE DEF a, b
      <4> QED BY <1>1, <1>2, <4>1, SumStays
    <3>2. a + b \in Nat \ {0}
      <4> HIDE DEF a, b
      <4> QED BY <1>1
    <3> HIDE DEF a, b
    <3> QED BY <1>1, <1>4, <2>2, <3>1, <3>2
  <2> QED BY <2>1, <2>2
<1>7. SumOf(l, right, set) = Ref!RoundTo(neg, c, x, set)
  <2>1. right.exp - l.exp = 0 /\ right.coef * TenTo[0] = b
    BY <1>1, <1>4, TenZero
  <2>2. SumOf(l, right, set) =
          IF l.neg = right.neg THEN Ref!RoundTo(l.neg, a + b, x, set)
          ELSE IF a = b THEN Ref!RoundTo(set.round = "FLOOR", 0, x, set)
          ELSE IF b < a THEN Ref!RoundTo(l.neg, a - b, x, set)
          ELSE Ref!RoundTo(right.neg, b - a, x, set)
    BY <2>1 DEF SumOf
  <2>3. diffsign => a # b /\ b < a
    <3> HIDE DEF a, b, unit
    <3> QED BY <1>1, <1>3, <1>4
  <2> QED BY <2>2, <2>3
<1>8. Gives(Work(Fin(neg, dc, c, x), 0, {}), Ref!RoundTo(neg, c, x, set))
  <2>1. set.emin <= x
    BY <1>1, <1>4 DEF Settled
  <2> HIDE DEF c, dc, x, neg
  <2> QED BY <1>1, <1>4, <1>6, <2>1, AsItIs
<1> QED BY <1>5, <1>7, <1>8

\* The digits that are counted again are as many as before.
LEMMA CountedIs ==
  ASSUME NEW neg, NEW q, NEW len, len = Places(q, 10), NEW y, NEW r, NEW st
  PROVE  Counted(Work(Fin(neg, len, q, y), r, st)) = Work(Fin(neg, len, q, y), r, st)
<1> DEFINE n == Fin(neg, len, q, y)
           w == Work(n, r, st)
<1>1. decGetDigits(q, len) = len
  BY DEF decGetDigits
<1>2. n.coef = q /\ n.digits = len
  BY FinFields
<1>3. w.n = n /\ w.residue = r /\ w.status = st
  BY WorkFields
<1>4. [n EXCEPT !.digits = len] = n
  BY SetDigits
<1>5. [n EXCEPT !.digits = decGetDigits(q, @)] = n
  <2>1. [n EXCEPT !.digits = decGetDigits(q, @)] = [n EXCEPT !.digits = decGetDigits(q, n.digits)]
    OBVIOUS
  <2> HIDE DEF n
  <2> QED BY <2>1, <1>1, <1>2, <1>4
<1> HIDE DEF n, w
<1>6. Counted(w) = Work(n, r, st)
  BY <1>2, <1>3, <1>5 DEF Counted, Holding
<1> QED BY <1>6 DEF w, n

\* A number that is rounded to zero is inexact.
LEMMA ZeroIsInexact ==
  ASSUME NEW set, Settled(set), NEW neg \in BOOLEAN, NEW e \in Nat \ {0}, NEW x \in Int,
         ISZERO(Ref!RoundTo(neg, e, x, set).n)
  PROVE  "Inexact" \in Ref!RoundTo(neg, e, x, set).status
<1> DEFINE drop == Ref!Most({0, Ref!Digits(e) - set.digits, Ref!Etiny(set) - x})
           a == Ref!RoundAt(set.round, neg, e, Ref!Least({drop, Ref!Digits(e) + 1}))
           fit == Ref!Fitted(neg, e, x, drop, a, set)
           sum == Rounded(set.round, neg, e, drop)
           kept == Kept(sum, set)
           z == x + drop + CarriedIn(sum, set)
<1>1. set.digits \in Nat \ {0} /\ Etiny(set) \in Int /\ Etop(set) \in Int /\ set.round \in Roundings
  BY RangeIs DEF Settled
<1>2. Ref!RoundTo(neg, e, x, set) = fit
  BY DEF Ref!RoundTo
<1>3. drop \in Nat
  <2>1. Places(e, 10) \in Nat
    BY Lengths
  <2> DEFINE u == Places(e, 10) - set.digits
             v == Etiny(set) - x
             o == 0
  <2>2. u \in Int /\ v \in Int /\ o \in Int
    BY <1>1, <2>1
  <2>3. drop = Ref!Most({o, u, v})
    BY RefDigits, RefEtiny
  <2>4. o = 0
    OBVIOUS
  <2> HIDE DEF u, v, o, drop
  <2> QED BY <2>2, <2>3, <2>4, RefMost
<1>4. a.q = sum /\ a.inexact = (e % TenTo[drop] # 0)
  <2> HIDE DEF drop
  <2> QED BY <1>1, <1>3, RoundAtIs
<1>5. sum \in Nat /\ (sum = 0 => e % TenTo[drop] # 0)
  <2> DEFINE f == TenTo[drop]
             g == e \div f
             h == e % f
  <2>1. f \in Nat \ {0}
    <3> HIDE DEF drop
    <3> QED BY <1>3, Ten
  <2> HIDE DEF f
  <2>2. e = g * f + h /\ h \in Nat /\ g \in Nat
    BY <2>1, NatDivMod
  <2> HIDE DEF g, h
  <2>3. Up(set.round, neg, g, h, f) \in {0, 1}
    BY DEF Up
  <2> DEFINE b == Up(set.round, neg, g, h, f)
  <2> HIDE DEF b
  <2>4. b \in Nat
    BY <2>3 DEF b
  <2>5. g = 0 => h # 0
    <3>1. g = 0 => g * f = 0
      BY <2>1
    <3> QED BY <2>2, <3>1
  <2>6. g + b \in Nat /\ (g + b = 0 => h # 0)
    BY <2>2, <2>4, <2>5
  <2> QED BY <2>6 DEF Rounded, f, g, h, b
<1> HIDE DEF drop, a, sum
<1>6. FitsAs(set, neg, e, x, drop, a)
  BY <1>1, <1>3, <1>4, <1>5, FittedIs
<1>7. /\ fit.n = Ranged(neg, kept, z, set)
      /\ fit.status = IF Beyond(kept, z, set) THEN OverflowFlags
                      ELSE When(drop > 0, {"Rounded"}) \cup When(a.inexact, {"Inexact"})
                             \cup When(x + Places(e, 10) - 1 < set.emin, {"Subnormal"})
                             \cup When(x + Places(e, 10) - 1 < set.emin /\ a.inexact, {"Underflow"})
                             \cup When(Folded(z, set) \/ kept = 0, {"Clamped"})
  BY <1>4, <1>6 DEF FitsAs
<1>8. kept \in Nat /\ (kept = 0 => sum = 0)
  <2>1. TenTo[set.digits] \in Nat \ {0} /\ TenTo[set.digits - 1] \in Nat \ {0}
    BY <1>1, Ten
  <2> QED BY <1>5, <2>1 DEF Kept
<1>9. z \in Int
  BY <1>3 DEF CarriedIn
<1> HIDE DEF fit, kept, z
<1>10. CASE Beyond(kept, z, set)
  BY <1>2, <1>7, <1>10 DEF OverflowFlags
<1>11. CASE ~Beyond(kept, z, set)
  <2>1. kept = 0
    <3> SUFFICES ASSUME kept # 0 PROVE FALSE
      OBVIOUS
    <3> DEFINE c == IF Folded(z, set) THEN kept * TenTo[z - Etop(set)] ELSE kept
               y == IF Folded(z, set) THEN Etop(set) ELSE z
    <3>1. c # 0
      <4>1. CASE Folded(z, set)
        <5> DEFINE d == z - Etop(set)
        <5>1. d \in Nat
          BY <1>1, <1>9, <4>1 DEF Folded
        <5> HIDE DEF d
        <5>2. TenTo[d] \in Nat \ {0}
          BY <5>1, Ten
        <5>3. kept * TenTo[d] # 0
          BY <5>2, <1>8
        <5> QED BY <4>1, <5>3 DEF d
      <4> QED BY <4>1
    <3>2. Ranged(neg, kept, z, set) = Ref!Finite(neg, c, y)
      BY <1>11 DEF Ranged
    <3> HIDE DEF c, y
    <3>3. Ref!Finite(neg, c, y) = Fin(neg, Places(c, 10), c, y)
      BY FinIs
    <3>4. fit.n.coef = c
      BY <1>7, <3>2, <3>3, FinFields
    <3> QED BY <1>2, <3>1, <3>4 DEF ISZERO
  <2>2. a.inexact
    BY <1>4, <1>5, <1>8, <2>1
  <2> QED BY <1>2, <1>7, <1>11, <2>2 DEF When
<1> QED BY <1>10, <1>11

\* A zero takes the sign of the mode.
LEMMA ZeroSigned ==
  ASSUME NEW set, Settled(set), NEW neg, NEW x \in Int
  PROVE  Gives(SignZero(decFinalize(Work(Fin(neg, 1, 0, x), 0, {}), set), TRUE, set),
               Ref!RoundTo(set.round = "FLOOR", 0, x, set))
<1> DEFINE high == IF set.clamp THEN Etop(set) ELSE set.emax
           y == IF x > high THEN high ELSE IF x < Etiny(set) THEN Etiny(set) ELSE x
           s == set.round = "FLOOR"
           n == Fin(neg, 1, 0, y)
           st == When(x # y, {"Clamped"})
           one == 1
           zero == 0
<1>1. decFinalize(Work(Fin(neg, 1, 0, x), 0, {}), set) = ZeroIn(neg, x, y)
  BY ZeroRight
<1>2. decFinalize(Work(Fin(s, 1, 0, x), 0, {}), set) = ZeroIn(s, x, y)
  <2> HIDE DEF s
  <2> QED BY ZeroRight
<1>3. ZeroIn(neg, x, y) = Work(n, 0, st) /\ ZeroIn(s, x, y) = Work(Fin(s, 1, 0, y), 0, st)
  BY DEF ZeroIn
<1>4. n = Fin(neg, one, zero, y) /\ "Inexact" \notin st /\ set.extended
  BY DEF When, Settled
<1>5. ISZERO(n)
  <2> HIDE DEF n, y
  <2>1. n.kind = "fin" /\ n.digits = one /\ n.coef = zero
    BY <1>4, FinFields
  <2> QED BY <2>1 DEF ISZERO
<1>6. [n EXCEPT !.neg = s] = Fin(s, 1, 0, y)
  <2> HIDE DEF n, y, s, one, zero
  <2>1. [n EXCEPT !.neg = s] = Fin(s, one, zero, y)
    BY <1>4, SetNeg
  <2> QED BY <2>1 DEF one, zero
<1>7. SignZero(Work(n, 0, st), TRUE, set) = Work(Fin(s, 1, 0, y), 0, st)
  <2> DEFINE w == Work(n, 0, st)
  <2>1. w.n = n /\ w.residue = 0 /\ w.status = st
    BY WorkFields
  <2> HIDE DEF w, n, y, st
  <2>2. SignZero(w, TRUE, set) = Holding(w, [n EXCEPT !.neg = s])
    BY <1>4, <1>5, <2>1 DEF SignZero
  <2> QED BY <1>6, <2>1, <2>2 DEF w, Holding
<1>8. Gives(decFinalize(Work(Fin(s, 1, 0, x), 0, {}), set), Ref!RoundZero(s, x, set))
  <2> HIDE DEF s
  <2> QED BY ZeroGives
<1>9. Ref!RoundTo(s, 0, x, set) = Ref!RoundZero(s, x, set)
  BY DEF Ref!RoundTo
<1> HIDE DEF y, s, st, n
<1> QED BY <1>1, <1>2, <1>3, <1>7, <1>8, <1>9 DEF s

\* The two digit strings, one below the other.
LEMMA SumLength ==
  ASSUME NEW a \in Nat \ {0}, NEW b \in Nat \ {0}, NEW pad \in Nat,
         NEW c \in Nat, c <= a + b * TenTo[pad]
  PROVE  LET m == Greater(Places(b, 10) + pad, Places(a, 10))
         IN  decGetDigits(c, m + 1) = Places(c, 10)
<1> DEFINE n == Places(b, 10) + pad
           k == Places(a, 10)
           m == Greater(n, k)
           v == b * TenTo[pad]
           d == Places(c, 10)
<1>1. v \in Nat \ {0} /\ Places(v, 10) = n
  BY PadLength
<1>2. k \in Nat \ {0} /\ a < TenTo[k] /\ TenTo[k] \in Nat
  BY Lengths, Ten
<1>3. n \in Nat \ {0} /\ v < TenTo[n] /\ TenTo[n] \in Nat
  <2> HIDE DEF n, v
  <2> QED BY <1>1, Lengths, Ten
<1>4. m \in Nat \ {0} /\ n <= m /\ k <= m
  <2> HIDE DEF n, k
  <2> QED BY <1>2, <1>3 DEF Greater
<1>5. d \in Nat
  BY Lengths
<1> HIDE DEF n, k, m, v
<1>6. TenTo[n] <= TenTo[m] /\ TenTo[k] <= TenTo[m] /\ TenTo[m] \in Nat \ {0}
      /\ TenTo[m + 1] = 10 * TenTo[m]
  BY <1>2, <1>3, <1>4, TenMono, Ten, TenNext
<1>7. c < TenTo[m + 1]
  <2>1. c <= a + v
    BY DEF v
  <2> QED BY <2>1, <1>1, <1>2, <1>3, <1>6
<1>8. d <= m + 1
  <2>1. m + 1 \in Nat \ {0}
    BY <1>4
  <2> QED BY <1>7, <2>1, FitsIn
<1> HIDE DEF d
<1>9. (IF d < m + 1 THEN d ELSE m + 1) = d
  BY <1>4, <1>5, <1>8
<1> QED BY <1>9 DEF decGetDigits, d, m, n, k

\* The end of a sum, whose coefficient is cut to the precision and rounded.
LEMMA EndRight ==
  ASSUME NEW set, Settled(set), NEW neg \in BOOLEAN, NEW c \in Nat, NEW x \in Int, NEW dg, NEW cf,
         NEW diffsign \in BOOLEAN, c = 0 => diffsign
  PROVE  LET cut == decSetCoeff(Work(Fin(neg, dg, cf, x), 0, {}), set.digits, c, Places(c, 10))
         IN  Gives(AddEnd(cut, diffsign, set),
                   Ref!RoundTo(IF c = 0 THEN set.round = "FLOOR" ELSE neg, c, x, set))
<1> DEFINE cut == decSetCoeff(Work(Fin(neg, dg, cf, x), 0, {}), set.digits, c, Places(c, 10))
           f == decFinalize(cut, set)
<1>1. set.digits \in Nat \ {0} /\ set.extended
  BY DEF Settled
<1>2. Counted(cut) = cut
  <2>1. CASE c = 0
    <3>1. decSetCoeff(Work(Fin(neg, dg, cf, x), 0, {}), set.digits, 0, Places(0, 10)) = Work(Fin(neg, 1, 0, x), 0, {})
      BY ZeroCut
    <3>2. cut = Work(Fin(neg, 1, 0, x), 0, {})
      <4> HIDE DEF cut
      <4>1. cut = decSetCoeff(Work(Fin(neg, dg, cf, x), 0, {}), set.digits, 0, Places(0, 10))
        BY <2>1 DEF cut
      <4> QED BY <3>1, <4>1
    <3> DEFINE z == 0
               one == 1
               st == {}
    <3>3. one = Places(z, 10)
      BY PlacesZero
    <3> HIDE DEF z, one, cut, st
    <3>4. Counted(Work(Fin(neg, one, z, x), z, st)) = Work(Fin(neg, one, z, x), z, st)
      BY <3>3, CountedIs
    <3> QED BY <3>2, <3>4 DEF z, one, st
  <2>2. CASE c # 0
    <3> DEFINE n == Places(c, 10)
               p == set.digits
               k == IF n > p THEN n - p ELSE 0
               q == c \div TenTo[k]
    <3>1. WholeCut(neg, dg, cf, c, x, p)
      <4> HIDE DEF p
      <4>1. c \in Nat \ {0} /\ p \in Nat \ {0}
        BY <1>1, <2>2 DEF p
      <4> QED BY <4>1, CutWhole
    <3>2. /\ Places(q, 10) = n - k
          /\ \E r : cut = Work(Fin(neg, n - k, q, x + k), r, Told(k, c % TenTo[k]))
      <4> HIDE DEF p
      <4> QED BY <3>1 DEF WholeCut, p
    <3>3. PICK r : cut = Work(Fin(neg, n - k, q, x + k), r, Told(k, c % TenTo[k]))
      BY <3>2
    <3> DEFINE len == n - k
               y == x + k
               st == Told(k, c % TenTo[k])
    <3> HIDE DEF cut
    <3>4. len = Places(q, 10) /\ cut = Work(Fin(neg, len, q, y), r, st)
      BY <3>2, <3>3
    <3> HIDE DEF len, q, y, st
    <3> QED BY <3>4, CountedIs
  <2> QED BY <2>1, <2>2
<1>3. Gives(f, Ref!RoundTo(neg, c, x, set))
  BY RoundedRight
<1>4. AddEnd(cut, diffsign, set) = SignZero(f, diffsign, set)
  <2> HIDE DEF cut
  <2>1. RoundSubset(cut, set) = cut
    BY <1>1 DEF RoundSubset
  <2> QED BY <1>2, <2>1, FinishIs DEF AddEnd
<1>5. CASE c = 0
  <2>1. cut = Work(Fin(neg, 1, 0, x), 0, {})
    <3>1. decSetCoeff(Work(Fin(neg, dg, cf, x), 0, {}), set.digits, 0, Places(0, 10)) = Work(Fin(neg, 1, 0, x), 0, {})
      BY ZeroCut
    <3> HIDE DEF cut
    <3>2. cut = decSetCoeff(Work(Fin(neg, dg, cf, x), 0, {}), set.digits, 0, Places(0, 10))
      BY <1>5 DEF cut
    <3> QED BY <3>1, <3>2
  <2> HIDE DEF cut
  <2>2. Gives(SignZero(decFinalize(Work(Fin(neg, 1, 0, x), 0, {}), set), TRUE, set),
              Ref!RoundTo(set.round = "FLOOR", 0, x, set))
    BY ZeroSigned
  <2>3. diffsign = TRUE
    BY <1>5
  <2> HIDE DEF f
  <2>4. Gives(AddEnd(cut, diffsign, set), Ref!RoundTo(set.round = "FLOOR", 0, x, set))
    BY <1>4, <2>1, <2>2, <2>3 DEF f
  <2> QED BY <1>5, <2>4 DEF cut
<1>6. CASE c # 0
  <2> HIDE DEF cut, f
  <2>1. SignZero(f, diffsign, set) = f
    <3>1. ISZERO(f.n) => "Inexact" \in f.status
      <4>1. c \in Nat \ {0}
        BY <1>6
      <4> QED BY <1>3, <4>1, ZeroIsInexact DEF Gives
    <3> QED BY <3>1 DEF SignZero
  <2> QED BY <1>3, <1>4, <1>6, <2>1 DEF cut
<1> QED BY <1>5, <1>6

\* The careful sum: every digit of both.
LEMMA AlignedRight ==
  ASSUME NEW set, Settled(set), NEW ln \in BOOLEAN, NEW hn \in BOOLEAN,
         NEW a \in Nat \ {0}, NEW b \in Nat \ {0}, NEW x \in Int, NEW z \in Int, x <= z,
         NEW low, low = Fin(ln, Places(a, 10), a, x), NEW high, high = Fin(hn, Places(b, 10), b, z),
         NEW diffsign, diffsign = (ln # hn)
  PROVE  Gives(AddAligned(low, high, diffsign, set, {}), SumOf(low, high, set))
<1> DEFINE pad == z - x
           v == b * TenTo[pad]
           k == Places(a, 10)
           h == Places(b, 10)
           maxdigits == Greater(h + pad, k)
           sum == IF diffsign THEN a - v ELSE a + v
           borrowed == sum < 0
           c == IF borrowed THEN -sum ELSE sum
           neg == ln # borrowed
           cut == decSetCoeff(Work(Fin(neg, k, a, x), 0, {}), set.digits, c, Places(c, 10))
<1>1. /\ low.neg = ln /\ low.digits = k /\ low.coef = a /\ low.exp = x
      /\ high.neg = hn /\ high.digits = h /\ high.coef = b /\ high.exp = z
  BY FinFields
<1>2. pad \in Nat
  OBVIOUS
<1>3. v \in Nat \ {0}
  <2>1. TenTo[pad] \in Nat \ {0}
    <3> HIDE DEF pad
    <3> QED BY <1>2, Ten
  <2> DEFINE t == TenTo[pad]
  <2> HIDE DEF t
  <2>2. b * t \in Nat \ {0}
    BY <2>1 DEF t
  <2> QED BY <2>2 DEF t
<1>4. c \in Nat /\ c <= a + v /\ (c = 0 => diffsign)
  <2> HIDE DEF v
  <2> QED BY <1>3
<1>5. decGetDigits(c, maxdigits + 1) = Places(c, 10)
  <2>1. c <= a + b * TenTo[pad]
    BY <1>4
  <2> HIDE DEF c, pad
  <2> QED BY <1>2, <1>4, <2>1, SumLength
<1>6. [low EXCEPT !.neg = @ # borrowed] = Fin(neg, k, a, x)
  <2>1. [low EXCEPT !.neg = @ # borrowed] = [low EXCEPT !.neg = low.neg # borrowed]
    OBVIOUS
  <2>2. low = Fin(ln, k, a, x)
    OBVIOUS
  <2> DEFINE s == low.neg # borrowed
  <2>3. s = neg
    BY <1>1
  <2> HIDE DEF k, borrowed, s, neg
  <2>4. [low EXCEPT !.neg = s] = Fin(s, k, a, x)
    BY <2>2, SetNeg
  <2> QED BY <2>1, <2>3, <2>4 DEF s
<1>7. AddAligned(low, high, diffsign, set, {}) = AddEnd(cut, diffsign, set)
  <2>1. set.extended
    BY DEF Settled
  <2> DEFINE n == [low EXCEPT !.neg = @ # borrowed]
             len == decGetDigits(c, maxdigits + 1)
  <2>2. AddAligned(low, high, diffsign, set, {}) =
          AddEnd(decSetCoeff(Work(n, 0, {}), set.digits, c,
                             IF set.extended THEN len ELSE Greater(len, maxdigits)), diffsign, set)
    <3> HIDE DEF k, h
    <3> QED BY <1>1 DEF AddAligned
  <2>3. n = Fin(neg, k, a, x) /\ len = Places(c, 10)
    BY <1>5, <1>6
  <2> HIDE DEF n, len, c, maxdigits, neg, k
  <2> QED BY <2>1, <2>2, <2>3 DEF cut
<1>8. Gives(AddEnd(cut, diffsign, set), Ref!RoundTo(IF c = 0 THEN set.round = "FLOOR" ELSE neg, c, x, set))
  <2>1. neg \in BOOLEAN /\ diffsign \in BOOLEAN
    OBVIOUS
  <2> HIDE DEF c, neg, k
  <2> QED BY <1>4, <2>1, EndRight
<1>9. SumOf(low, high, set) = Ref!RoundTo(IF c = 0 THEN set.round = "FLOOR" ELSE neg, c, x, set)
  <2>1. SumOf(low, high, set) =
          IF ln = hn THEN Ref!RoundTo(ln, a + v, x, set)
          ELSE IF a = v THEN Ref!RoundTo(set.round = "FLOOR", 0, x, set)
          ELSE IF v < a THEN Ref!RoundTo(ln, a - v, x, set)
          ELSE Ref!RoundTo(hn, v - a, x, set)
    BY <1>1 DEF SumOf
  <2> HIDE DEF v
  <2>2. CASE ln = hn
    <3>1. c = a + v /\ neg = ln /\ c # 0
      <4>1. sum = a + v
        BY <2>2
      <4> HIDE DEF sum
      <4>2. c = a + v /\ c # 0 /\ ~borrowed
        BY <1>3, <4>1
      <4>3. borrowed = FALSE
        BY <4>2
      <4> HIDE DEF borrowed, c
      <4>4. (ln # FALSE) = ln
        OBVIOUS
      <4> QED BY <4>2, <4>3, <4>4
    <3> HIDE DEF c, neg
    <3> QED BY <2>1, <2>2, <3>1
  <2>3. CASE ln # hn /\ a = v
    <3>1. c = 0
      BY <1>3, <2>3
    <3> HIDE DEF c, neg
    <3> QED BY <2>1, <2>3, <3>1
  <2>4. CASE ln # hn /\ v < a
    <3>1. c = a - v /\ neg = ln /\ c # 0 /\ a # v
      BY <1>3, <2>4
    <3> HIDE DEF c, neg
    <3> QED BY <2>1, <2>4, <3>1
  <2>5. CASE ln # hn /\ a < v
    <3>1. c = v - a /\ neg = hn /\ c # 0 /\ a # v /\ ~(v < a)
      BY <1>3, <2>5
    <3> HIDE DEF c, neg
    <3> QED BY <2>1, <2>5, <3>1
  <2> QED BY <1>3, <2>2, <2>3, <2>4, <2>5
<1> QED BY <1>7, <1>8, <1>9

(***************************************************************************)
(* Sums of numbers that lie far apart: the lower one only leaves a         *)
(* residue, which is below zero when it is subtracted.                     *)
(***************************************************************************)
\* A little less than the coefficient is rounded like a lot more than the one
\* before, which ends in a digit that 05UP treats alike.
LEMMA BumpDown ==
  ASSUME NEW mode \in Roundings, NEW neg \in BOOLEAN, NEW q \in Nat, NEW s \in Nat,
         q % 5 = 1 <=> s % 5 = 0,
         NEW n, n.coef = q, n.neg = neg,
         NEW unit \in Nat \ {0}, NEW rem \in Nat, 2 * rem > unit
  PROVE  /\ bump(n, mode, -1) \in {0, -1}
         /\ bump(n, mode, -1) = 0 <=> Up(mode, neg, s, rem, unit) = 1
         /\ bump(n, mode, -1) = -1 <=> Up(mode, neg, s, rem, unit) = 0
<1>1. rem > 0 /\ ~(2 * rem < unit) /\ 2 * rem # unit /\ 2 * rem >= unit
  OBVIOUS
<1>2. CASE mode = "HALF_EVEN"
  BY <1>1, <1>2 DEF bump, Up, Ref!RoundsUp
<1>3. CASE mode = "DOWN"
  BY <1>1, <1>3 DEF bump, Up, Ref!RoundsUp
<1>4. CASE mode = "HALF_DOWN"
  BY <1>1, <1>4 DEF bump, Up, Ref!RoundsUp
<1>5. CASE mode = "HALF_UP"
  BY <1>1, <1>5 DEF bump, Up, Ref!RoundsUp
<1>6. CASE mode = "UP"
  BY <1>1, <1>6 DEF bump, Up, Ref!RoundsUp
<1>7. CASE mode = "CEILING"
  BY <1>1, <1>7 DEF bump, Up, Ref!RoundsUp
<1>8. CASE mode = "FLOOR"
  BY <1>1, <1>8 DEF bump, Up, Ref!RoundsUp
<1>9. CASE mode = "05UP"
  BY <1>1, <1>9 DEF bump, Up, Ref!RoundsUp
<1> QED BY <1>2, <1>3, <1>4, <1>5, <1>6, <1>7, <1>8, <1>9 DEF Roundings

\* With something below zero underneath, a residue is one less, unless digits
\* beyond the first one dropped hide it.
LEMMA DropBelow ==
  ASSUME NEW c \in Nat, NEW discard \in Nat \ {0}
  PROVE  LET r == DropResidue(c, discard, -1)
             s == DropResidue(c, discard, 0)
         IN  (r = s /\ s \notin {0, 5}) \/ (r = s - 1 /\ s \in {0, 5}) \/ (s \in {3, 7} /\ r = s - 1)
<1>0. DECDPUN \in Nat \ {0}
  BY UnitAssumption
<1>1. CASE discard % DECDPUN = 0
  <2> DEFINE k == discard - DECDPUN
             g == TenTo[k]
             b == TenTo[DECDPUN]
             half == b \div 2
             u == (c \div g) % b
  <2>1. k \in Nat
    <3> DEFINE m == discard \div DECDPUN
    <3>1. discard = m * DECDPUN + (discard % DECDPUN) /\ m \in Nat
      BY <1>0, NatDivMod
    <3>2. discard = m * DECDPUN
      BY <1>0, <1>1, <3>1
    <3> HIDE DEF m
    <3>3. m >= 1
      <4> SUFFICES ASSUME m = 0 PROVE FALSE
        BY <3>1
      <4>1. m * DECDPUN = 0
        BY <1>0
      <4> QED BY <3>2, <4>1
    <3>4. m * DECDPUN >= DECDPUN
      BY <1>0, <3>1, <3>3
    <3> QED BY <1>0, <3>2, <3>4
  <2>2. g \in Nat \ {0} /\ b \in Nat \ {0}
    BY <1>0, <2>1, Ten
  <2>3. half \in Int /\ u \in Int
    <3> HIDE DEF g, b
    <3>1. c \div g \in Nat
      BY <2>2, NatDivMod
    <3> QED BY <2>2, <3>1, NatDivMod
  <2>4. /\ DropResidue(c, discard, -1) =
             CASE u > half -> 7 [] u = half -> (IF c % g # 0 THEN 1 ELSE -1) + 5
               [] u < half /\ u # 0 -> 3 [] OTHER -> IF c % g # 0 THEN 1 ELSE -1
        /\ DropResidue(c, discard, 0) =
             CASE u > half -> 7 [] u = half -> (IF c % g # 0 THEN 1 ELSE 0) + 5
               [] u < half /\ u # 0 -> 3 [] OTHER -> IF c % g # 0 THEN 1 ELSE 0
    BY <1>1 DEF DropResidue, BoundaryResidue
  <2> HIDE DEF u, half, g
  <2> QED BY <2>3, <2>4
<1>2. CASE discard % DECDPUN # 0
  <2> DEFINE k == discard - 1
             g == TenTo[k]
             u == (c \div g) % 10
             lower == c % g # 0
  <2>1. g \in Nat \ {0}
    BY Ten
  <2>2. u \in 0 .. 9
    <3> HIDE DEF g
    <3>1. c \div g \in Nat
      BY <2>1, NatDivMod
    <3> QED BY <3>1
  <2>3. /\ DropResidue(c, discard, -1) = (IF lower THEN 1 ELSE -1) + resmap(u)
        /\ DropResidue(c, discard, 0) = (IF lower THEN 1 ELSE 0) + resmap(u)
    BY <1>2 DEF DropResidue, GuardResidue
  <2>4. resmap(u) = IF u = 0 THEN 0 ELSE IF u < 5 THEN 3 ELSE IF u = 5 THEN 5 ELSE 7
    <3> HIDE DEF u
    <3> QED BY <2>2 DEF resmap
  <2> HIDE DEF u, lower
  <2> QED BY <2>2, <2>3, <2>4
<1> QED BY <1>1, <1>2

\* What is dropped, less a part of its last digit.
LEMMA RestLess ==
  ASSUME NEW t \in Nat \ {0}, NEW h \in Nat, t = 2 * h, NEW f \in Nat \ {0},
         NEW a \in 1 .. f - 1, NEW rest \in 1 .. t - 1,
         NEW r \in Nat \ {0}, r # 5, r > 5 <=> 2 * rest > t
  PROVE  rest * f - a \in Nat \ {0} /\ Tells(r, rest * f - a, t * f)
<1>1. rest * f >= f /\ rest * f \in Nat
  <2>1. rest * f >= 1 * f
    OBVIOUS
  <2> QED BY <2>1
<1>2. t * f = 2 * (h * f) /\ h * f \in Nat
  OBVIOUS
<1>3. CASE 2 * rest > t
  <2>1. rest >= h + 1
    BY <1>3
  <2>2. rest * f >= (h + 1) * f
    BY <2>1
  <2>3. (h + 1) * f = h * f + f
    OBVIOUS
  <2> DEFINE u == rest * f
             v == h * f
  <2> HIDE DEF u, v
  <2>4. u >= v + f /\ u \in Nat /\ v \in Nat /\ u >= f
    BY <1>1, <1>2, <2>2, <2>3 DEF u, v
  <2>5. u - a \in Nat \ {0} /\ 2 * (u - a) > 2 * v
    BY <2>4
  <2>6. Tells(r, u - a, 2 * v)
    BY <1>3, <2>5 DEF Tells
  <2> QED BY <1>2, <2>5, <2>6 DEF u, v
<1>4. CASE 2 * rest <= t
  <2>1. rest <= h
    BY <1>4
  <2>2. rest * f <= h * f
    BY <2>1
  <2> DEFINE u == rest * f
             v == h * f
  <2> HIDE DEF u, v
  <2>3. u <= v /\ u \in Nat /\ v \in Nat /\ u >= f
    BY <1>1, <1>2, <2>2 DEF u, v
  <2>4. u - a \in Nat \ {0} /\ 2 * (u - a) < 2 * v
    BY <2>3
  <2>5. ~(2 * (u - a) > 2 * v) /\ 2 * (u - a) # 2 * v /\ u - a \in Nat \ {0}
    BY <2>3, <2>4
  <2>6. ~(r > 5) /\ r # 0
    BY <1>4
  <2>7. Tells(r, u - a, 2 * v)
    BY <2>5, <2>6 DEF Tells
  <2> QED BY <1>2, <2>4, <2>7 DEF u, v
<1> QED BY <1>3, <1>4

\* The higher number, shortened or padded to the precision.
ResidueLeaves(neg, b, z, diffsign, set, p) ==
  LET h == Places(b, 10)
      res == IF diffsign THEN -1 ELSE 1
      r == DropResidue(b, h - p, res)
      w == AddResidue(Fin(neg, h, b, z), diffsign, set, {})
  IN  /\ h <= p => w = Work(Fin(neg, p, b * TenTo[p - h], z - (p - h)), res, Inexactness)
      /\ h > p /\ r # 0 =>
           w = Work(Fin(neg, p, b \div TenTo[h - p], z + (h - p)), r, Inexactness)

LEMMA ResidueIs ==
  ASSUME NEW set, NEW p \in Nat \ {0}, set.digits = p, NEW neg, NEW b \in Nat \ {0}, NEW z \in Int,
         NEW diffsign \in BOOLEAN
  PROVE  ResidueLeaves(neg, b, z, diffsign, set, p)
<1> DEFINE h == Places(b, 10)
           res == IF diffsign THEN -1 ELSE 1
           high == Fin(neg, h, b, z)
           c == decCopyFit(high, p, res, {})
           w == AddResidue(high, diffsign, set, {})
<1>1. h \in Nat \ {0}
  BY Lengths
<1>2. high.coef = b /\ high.digits = h
  BY FinFields
<1>3. c = decSetCoeff(Work(high, res, {}), p, b, h)
  <2> HIDE DEF h, high
  <2> QED BY <1>2 DEF decCopyFit
<1>4. w = PadToPrecision(c, p - h)
  <2> HIDE DEF h, high
  <2> QED BY <1>2 DEF AddResidue
<1>5. res \in {-1, 1}
  OBVIOUS
<1>6. ASSUME h <= p
      PROVE  w = Work(Fin(neg, p, b * TenTo[p - h], z - (p - h)), res, Inexactness)
  <2> DEFINE j == p - h
  <2>1. c = Work(high, res, Inexactness)
    <3> DEFINE v == Work(high, res, {})
    <3>1. v.n = high /\ v.residue = res /\ v.status = {}
      BY WorkFields
    <3>2. [high EXCEPT !.coef = b, !.digits = h] = high
      <4> HIDE DEF h
      <4> DEFINE i == [high EXCEPT !.coef = b]
      <4>1. i = Fin(neg, h, b, z)
        BY SetCoef
      <4> HIDE DEF i
      <4>2. [i EXCEPT !.digits = h] = Fin(neg, h, b, z)
        BY <4>1, SetDigits
      <4>3. [high EXCEPT !.coef = b, !.digits = h] = [i EXCEPT !.digits = h]
        BY InTurn DEF i
      <4> QED BY <4>2, <4>3
    <3> HIDE DEF v, high, h, res
    <3>3. decSetCoeff(v, p, b, h) = Inexactly(Holding(v, high))
      <4>1. h - p <= 0
        BY <1>1, <1>6
      <4> QED BY <3>1, <3>2, <4>1 DEF decSetCoeff
    <3>4. Holding(v, high) = v
      BY <3>1 DEF Holding, v
    <3>5. Inexactly(v) = Work(high, res, Inexactness)
      BY <3>1, <1>5 DEF Inexactly, Flagged, When, Inexactness
    <3> QED BY <1>3, <3>3, <3>4, <3>5 DEF v
  <2>2. c.n = high /\ c.residue = res /\ c.status = Inexactness
    <3> HIDE DEF c, high
    <3> QED BY <2>1, WorkFields
  <2>3. j \in Nat /\ h + j = p
    BY <1>1, <1>6
  <2>4. CASE j = 0
    <3>1. w = c
      <4> HIDE DEF c, w
      <4> QED BY <1>4, <2>4 DEF PadToPrecision
    <3>2. b * TenTo[0] = b /\ z - 0 = z /\ h = p
      <4>1. b * TenTo[0] = b /\ z - 0 = z
        BY TenZero
      <4> HIDE DEF h
      <4> QED BY <1>1, <2>3, <2>4, <4>1
    <3> HIDE DEF h, w, c, res
    <3>3. Fin(neg, p, b * TenTo[j], z - j) = high
      BY <2>4, <3>2
    <3> HIDE DEF high, j
    <3> QED BY <2>1, <3>1, <3>3 DEF j
  <2>5. CASE j > 0
    <3>1. [decShiftToMost(high, j) EXCEPT !.exp = @ - j] = Fin(neg, h + j, b * TenTo[j], z - j)
      <4> HIDE DEF j, h
      <4> QED BY PaddedBy
    <3> HIDE DEF c, w, high, h
    <3>2. w = Holding(c, [decShiftToMost(high, j) EXCEPT !.exp = @ - j])
      BY <1>4, <2>2, <2>5 DEF PadToPrecision
    <3> HIDE DEF j
    <3>3. w = Work(Fin(neg, p, b * TenTo[j], z - j), res, Inexactness)
      BY <2>2, <2>3, <3>1, <3>2 DEF Holding
    <3> QED BY <3>3 DEF j
  <2> QED BY <2>3, <2>4, <2>5
<1>7. ASSUME h > p, DropResidue(b, h - p, res) # 0
      PROVE  w = Work(Fin(neg, p, b \div TenTo[h - p], z + (h - p)), DropResidue(b, h - p, res), Inexactness)
  <2> DEFINE k == h - p
             r == DropResidue(b, k, res)
             st == {}
             n == Fin(neg, p, b \div TenTo[k], z + k)
  <2>1. k \in Nat \ {0} /\ k <= h
    BY <1>1, <1>7
  <2>2. decSetCoeff(Work(high, res, st), p, b, h) = LeftOver(neg, z, res, st, p, b, h)
    <3>1. ~(h - p <= 0)
      BY <2>1
    <3> HIDE DEF h, res, st
    <3> QED BY <3>1, Cut
  <2>3. LeftOver(neg, z, res, st, p, b, h) = Inexactly(Work(n, r, st \cup {"Rounded"}))
    <3>1. (IF res > 1 THEN 1 ELSE res) = res
      BY <1>5
    <3>2. ~(h - p > h) /\ ~(p <= 0)
      BY <1>1, <2>1
    <3> HIDE DEF res, st, h
    <3> QED BY <3>1, <3>2 DEF LeftOver
  <2>4. Inexactly(Work(n, r, st \cup {"Rounded"})) = Work(n, r, Inexactness)
    <3> DEFINE v == Work(n, r, st \cup {"Rounded"})
    <3>1. v.n = n /\ v.residue = r /\ v.status = {"Rounded"}
      BY WorkFields
    <3>2. r # 0
      BY <1>7
    <3> HIDE DEF v, n, r
    <3>3. Inexactly(v) = Work(n, r, Inexactness)
      BY <3>1, <3>2 DEF Inexactly, Flagged, When, Inexactness
    <3> QED BY <3>3 DEF v
  <2>5. w = c
    <3>1. ~(p - h > 0)
      BY <1>1, <1>7
    <3> HIDE DEF c, w, h
    <3> QED BY <1>4, <3>1 DEF PadToPrecision
  <2> HIDE DEF w, c
  <2> QED BY <1>3, <2>2, <2>3, <2>4, <2>5 DEF st
<1> HIDE DEF w
<1> QED BY <1>6, <1>7 DEF ResidueLeaves, w

\* Two numbers of which the lower one lies below the rounding digit.
Apart(a, b, pad, p) == /\ a < TenTo[pad]
                       /\ Places(b, 10) + pad > Places(a, 10) + p + 1

LEMMA ApartIs ==
  ASSUME NEW a \in Nat \ {0}, NEW b \in Nat \ {0}, NEW pad \in Nat, NEW p \in Nat \ {0},
         Apart(a, b, pad, p)
  PROVE  LET m == (pad + Places(b, 10)) - p
         IN  m \in Nat /\ m >= 3 /\ 100 * a <= TenTo[m]
<1> DEFINE n == Places(a, 10)
           h == Places(b, 10)
           m == (pad + h) - p
<1>1. n \in Nat \ {0} /\ h \in Nat \ {0} /\ a < TenTo[n] /\ TenTo[n] \in Nat
  BY Lengths, Ten
<1>2. h + pad > n + p + 1
  BY DEF Apart
<1> HIDE DEF n, h
<1>3. m \in Nat /\ m >= n + 2
  BY <1>1, <1>2
<1> HIDE DEF m
<1>4. TenTo[n + 2] <= TenTo[m] /\ TenTo[n + 2] = 100 * TenTo[n] /\ TenTo[m] \in Nat
  <2>1. TenTo[(n + 1) + 1] = 10 * TenTo[n + 1] /\ TenTo[n + 1] = 10 * TenTo[n]
    BY <1>1, TenNext
  <2>2. (n + 1) + 1 = n + 2 /\ n + 2 \in Nat
    BY <1>1
  <2> QED BY <1>1, <1>3, <2>1, <2>2, TenMono, Ten
<1>5. 100 * a <= TenTo[m]
  BY <1>1, <1>4
<1> QED BY <1>1, <1>3, <1>5 DEF m, h

\* A sum with a number that lies far below.
PlusLeaves(set, neg, a, b, x, z, p) ==
  LET e == b * TenTo[z - x] + a
  IN  /\ e \in Nat \ {0}
      /\ IsCut(AddResidue(Fin(neg, Places(b, 10), b, z), FALSE, set, {}), neg, e, x, p)

LEMMA PlusCut ==
  ASSUME NEW set, NEW p \in Nat \ {0}, set.digits = p, NEW neg \in BOOLEAN,
         NEW a \in Nat \ {0}, NEW b \in Nat \ {0}, NEW x \in Int, NEW z \in Int, x < z,
         Apart(a, b, z - x, p)
  PROVE  PlusLeaves(set, neg, a, b, x, z, p)
<1> DEFINE pad == z - x
           h == Places(b, 10)
           f == TenTo[pad]
           e == b * f + a
           m == (pad + h) - p
           v == TenTo[m]
           w == AddResidue(Fin(neg, h, b, z), FALSE, set, {})
<1>1. pad \in Nat /\ pad # 0 /\ h \in Nat \ {0} /\ b < TenTo[h] /\ b >= TenTo[h - 1]
  BY Lengths
<1>2. m \in Nat /\ m >= 3 /\ 100 * a <= v
  <2> HIDE DEF pad
  <2> QED BY <1>1, ApartIs DEF pad
<1>3. f \in Nat \ {0} /\ v \in Nat \ {0} /\ a < f
  <2>1. a < f
    BY DEF Apart
  <2> HIDE DEF pad, m
  <2> QED BY <1>1, <1>2, <2>1, Ten
<1>4. e \in Nat \ {0} /\ e \div f = b /\ e % f = a
  <2> HIDE DEF f
  <2>1. a \in 0 .. f - 1
    BY <1>3
  <2>2. (b * f + a) \div f = b /\ (b * f + a) % f = a
    <3>1. f \in Nat \ {0}
      BY <1>3
    <3>2. b \in Int
      OBVIOUS
    <3> QED BY <3>1, <3>2, <2>1, DivUnique
  <2>3. e = b * f + a
    BY DEF e
  <2>4. b * f \in Nat
    BY <1>3
  <2> DEFINE g == b * f
  <2>5. e = g + a /\ g \in Nat
    BY <2>3, <2>4
  <2> HIDE DEF e, g
  <2>6. e \in Nat \ {0}
    BY <2>5
  <2> QED BY <2>2, <2>3, <2>6
<1>5. Places(e, 10) = h + pad
  <2>1. TenTo[h + pad] = TenTo[h] * f /\ TenTo[(h - 1) + pad] = TenTo[h - 1] * f
        /\ TenTo[h] \in Nat /\ TenTo[h - 1] \in Nat
    <3> HIDE DEF pad, h
    <3>1. h - 1 \in Nat
      BY <1>1
    <3> QED BY <1>1, <3>1, TenSum, Ten
  <2> DEFINE t == TenTo[h]
             u == TenTo[h - 1]
  <2> HIDE DEF f, t, u
  <2>2. b + 1 <= t /\ u <= b /\ t \in Nat /\ u \in Nat
    BY <1>1, <2>1 DEF t, u
  <2>3. (b + 1) * f <= t * f /\ u * f <= b * f
    BY <1>3, <2>2
  <2>4. (b + 1) * f = b * f + f /\ b * f \in Nat /\ t * f \in Nat /\ u * f \in Nat
    BY <1>3, <2>2
  <2>5. e < t * f /\ e >= u * f
    <3> DEFINE bf == b * f
               tf == t * f
               uf == u * f
    <3>1. bf + f <= tf /\ uf <= bf /\ bf \in Nat /\ tf \in Nat /\ uf \in Nat
      BY <2>3, <2>4
    <3> HIDE DEF bf, tf, uf
    <3>2. bf + a < tf /\ bf + a >= uf
      BY <1>3, <3>1
    <3> QED BY <3>2 DEF bf, tf, uf
  <2>6. h + pad \in Nat \ {0} /\ (h + pad) - 1 = (h - 1) + pad
    BY <1>1
  <2> HIDE DEF e, h, pad
  <2>7. e < TenTo[h + pad] /\ e >= TenTo[(h + pad) - 1]
    BY <2>1, <2>5, <2>6 DEF t, u
  <2> QED BY <1>4, <2>6, <2>7, LengthIs
<1>6. (IF Places(e, 10) > p THEN Places(e, 10) - p ELSE 0) = m /\ Places(e, 10) - m = p
  <2> HIDE DEF h, pad, e
  <2> QED BY <1>1, <1>2, <1>5
<1>7. ResidueLeaves(neg, b, z, FALSE, set, p)
  BY ResidueIs
<1>8. \E r : /\ Tells(r, e % v, v)
             /\ w = Work(Fin(neg, p, e \div v, x + m), r, Inexactness)
             /\ e % v # 0
  <2>1. CASE h <= p
    <3> DEFINE j == p - h
               g == TenTo[j]
               q == b * g
               y == z - j
    <3>1. j \in Nat /\ pad = j + m /\ z - j = x + m
      <4> HIDE DEF h
      <4> QED BY <1>1, <2>1
    <3>2. f = g * v /\ g \in Nat \ {0}
      <4>1. TenTo[j + m] = TenTo[j] * TenTo[m] /\ TenTo[j] \in Nat \ {0}
        <5> HIDE DEF j, m
        <5> QED BY <1>2, <3>1, TenSum, Ten
      <4> QED BY <3>1, <4>1
    <3> HIDE DEF f, v, g
    <3>3. b * f = q * v /\ q \in Nat
      <4>1. b * (g * v) = (b * g) * v
        BY <1>3, <3>2
      <4> QED BY <3>2, <4>1
    <3>4. a \in 0 .. v - 1 /\ a < v /\ 2 * a < v
      BY <1>2, <1>3
    <3>5. e \div v = q /\ e % v = a
      <4> HIDE DEF q
      <4>1. e = q * v + a
        BY <3>3
      <4> HIDE DEF e
      <4>2. (q * v + a) \div v = q /\ (q * v + a) % v = a
        <5>1. v \in Nat \ {0}
          BY <1>3
        <5>2. q \in Int
          BY <3>3
        <5>3. a \in 0 .. v - 1
          BY <3>4
        <5> QED BY <5>1, <5>2, <5>3, DivUnique
      <4> QED BY <4>1, <4>2
    <3>6. Tells(1, a, v)
      BY <1>3, <3>4 DEF Tells
    <3>7. w = Work(Fin(neg, p, b * TenTo[p - h], z - (p - h)), 1, Inexactness)
      BY <1>7, <2>1 DEF ResidueLeaves
    <3>8. w = Work(Fin(neg, p, q, y), 1, Inexactness)
      BY <3>7 DEF g
    <3> HIDE DEF w, e, q
    <3> QED BY <3>1, <3>5, <3>6, <3>8
  <2>2. CASE h > p
    <3> DEFINE k == h - p
               r == DropResidue(b, k, 1)
    <3>1. k \in Nat \ {0} /\ pad + k = m /\ x + m = z + k
      <4> HIDE DEF h
      <4> QED BY <1>1, <2>2
    <3>2. Tells(r, e % v, v)
      <4> DEFINE one == 1
      <4>1. one \in {0, 1} /\ (one = 0 <=> e % TenTo[pad] = 0) /\ e \div TenTo[pad] = b
        BY <1>4
      <4> HIDE DEF one, pad, k, e
      <4>2. Tells(DropResidue(e \div TenTo[pad], k, one), e % TenTo[pad + k], TenTo[pad + k])
        BY <1>1, <1>4, <3>1, <4>1, DropTells
      <4> HIDE DEF m
      <4> QED BY <3>1, <4>1, <4>2 DEF one
    <3>3. e \div v = b \div TenTo[k]
      <4>1. TenTo[pad + k] = f * TenTo[k] /\ TenTo[k] \in Nat \ {0}
        <5> HIDE DEF pad, k
        <5> QED BY <1>1, <3>1, TenSum, Ten
      <4> DEFINE g == TenTo[k]
      <4>2. v = f * g /\ g \in Nat \ {0}
        BY <3>1, <4>1
      <4> HIDE DEF v, f, g, e
      <4>3. e \div (f * g) = (e \div f) \div g
        <5>1. e \in Nat
          BY <1>4
        <5>2. f \in Nat \ {0}
          BY <1>3
        <5>3. g \in Nat \ {0}
          BY <4>2
        <5> QED BY <5>1, <5>2, <5>3, NestedDiv
      <4> QED BY <1>4, <4>2, <4>3 DEF g
    <3>4. e % v # 0
      <4>1. pad <= m
        <5> HIDE DEF k
        <5> QED BY <1>1, <3>1
      <4> HIDE DEF pad, m, e
      <4> QED BY <1>1, <1>2, <1>4, <4>1, RestStays
    <3>5. r # 0
      <4> HIDE DEF r, e, v
      <4> QED BY <3>2, <3>4 DEF Tells
    <3>6. w = Work(Fin(neg, p, b \div TenTo[k], z + k), r, Inexactness)
      BY <1>7, <2>2, <3>5 DEF ResidueLeaves
    <3> HIDE DEF w, e, r, k, v, m
    <3> QED BY <3>1, <3>2, <3>3, <3>4, <3>6
  <2>3. h <= p \/ h > p
    <3> HIDE DEF h
    <3> QED BY <1>1
  <2> HIDE DEF w, e, v, h, m
  <2> QED BY <2>1, <2>2, <2>3
<1>9. IsCut(w, neg, e, x, p)
  <2>1. PICK r : /\ Tells(r, e % v, v)
                 /\ w = Work(Fin(neg, p, e \div v, x + m), r, Inexactness)
                 /\ e % v # 0
    BY <1>8
  <2>2. Told(m, e % v) = Inexactness
    <3> HIDE DEF e, v, m
    <3> QED BY <1>2, <2>1 DEF Told, When, Inexactness
  <2> DEFINE n == Places(e, 10)
             k == IF n > p THEN n - p ELSE 0
  <2>3. k = m /\ n - k = p
    BY <1>6
  <2> HIDE DEF e, m, w, n, k
  <2>4. Tells(r, e % TenTo[k], TenTo[k]) /\ w = Work(Fin(neg, n - k, e \div TenTo[k], x + k), r, Told(k, e % TenTo[k]))
    BY <2>1, <2>2, <2>3
  <2> QED BY <2>4 DEF IsCut, n, k
<1> HIDE DEF w
<1> QED BY <1>4, <1>9 DEF PlusLeaves, w

\* What is left of q * 10^m when a little is taken away from it: the digits of
\* q, and a residue below zero.
Borrows(w, neg, a, e, x, p) ==
  \E m \in Nat, q \in Nat :
    /\ m >= 3 /\ 100 * a <= TenTo[m]
    /\ q >= TenTo[p - 1] /\ q < TenTo[p]
    /\ e = q * TenTo[m] - a
    /\ w = Work(Fin(neg, p, q, x + m), -1, Inexactness)

\* The residue when digits of the higher number were dropped.
LEMMA ResidueBelow ==
  ASSUME NEW b \in Nat \ {0}, NEW k \in Nat \ {0}
  PROVE  LET r == DropResidue(b, k, -1)
             rest == b % TenTo[k]
         IN  /\ rest = 0 => r = -1
             /\ rest # 0 => r \in Nat \ {0} /\ r # 5 /\ (r > 5 <=> 2 * rest > TenTo[k])
<1> DEFINE r == DropResidue(b, k, -1)
           s == DropResidue(b, k, 0)
           rest == b % TenTo[k]
           t == TenTo[k]
<1>1. Tells(s, rest, t)
  <2> DEFINE old == 0
             d == 0
  <2>1. TenTo[d] = 1 /\ b \div TenTo[d] = b /\ b % TenTo[d] = 0 /\ d + k = k
    <3>1. TenTo[d] = 1
      BY TenZero
    <3>2. b \div 1 = b /\ b % 1 = 0 /\ d + k = k
      OBVIOUS
    <3> HIDE DEF d
    <3> QED BY <3>1, <3>2
  <2>2. old \in {0, 1} /\ d \in Nat /\ (old = 0 <=> b % TenTo[d] = 0)
    <3> HIDE DEF d
    <3>1. old = 0
      OBVIOUS
    <3>2. b % TenTo[d] = 0
      BY <2>1
    <3>3. d \in Nat
      BY DEF d
    <3> QED BY <3>1, <3>2, <3>3
  <2> HIDE DEF d, old
  <2>3. Tells(DropResidue(b \div TenTo[d], k, old), b % TenTo[d + k], TenTo[d + k])
    BY <2>2, DropTells
  <2> QED BY <2>1, <2>3 DEF old
<1>2. (r = s /\ s \notin {0, 5}) \/ (r = s - 1 /\ s \in {0, 5}) \/ (s \in {3, 7} /\ r = s - 1)
  BY DropBelow
<1>3. t \in Nat \ {0} /\ rest \in Nat
  <2>1. t \in Nat \ {0}
    BY Ten
  <2> HIDE DEF t
  <2>2. b % t \in Nat
    BY <2>1, NatDivMod
  <2> QED BY <2>1, <2>2 DEF t
<1>4. rest = 0 => r = -1
  <2> HIDE DEF r, s, rest, t
  <2>1. CASE rest = 0
    <3>1. s = 0
      BY <1>1, <2>1 DEF Tells
    <3> QED BY <1>2, <3>1
  <2> QED BY <2>1
<1>5. rest # 0 => r \in Nat \ {0} /\ r # 5 /\ (r > 5 <=> 2 * rest > t)
  <2> HIDE DEF r, s, rest, t
  <2>1. CASE rest # 0
    <3>1. s \in Nat /\ s # 0 /\ (s > 5 <=> 2 * rest > t)
      BY <1>1, <2>1 DEF Tells
    <3>2. r \in Nat \ {0} /\ r # 5 /\ (r > 5 <=> s > 5)
      BY <1>2, <3>1
    <3> QED BY <3>1, <3>2
  <2> QED BY <2>1
<1> QED BY <1>4, <1>5

\* Below a multiple of v: q * v + rest * f less a, where v is t times f.
LEMMA TakenDiv ==
  ASSUME NEW q \in Nat, NEW t \in Nat \ {0}, NEW f \in Nat \ {0},
         NEW rest \in 1 .. t - 1, NEW a \in 1 .. f - 1
  PROVE  LET e == (q * t + rest) * f - a
             v == t * f
         IN  /\ v \in Nat \ {0} /\ rest * f - a \in 0 .. v - 1
             /\ e = q * v + (rest * f - a) /\ e \in Nat
             /\ e \div v = q /\ e % v = rest * f - a
<1> DEFINE v == t * f
           rf == rest * f
           u == rf - a
           qv == q * v
           e == (q * t + rest) * f - a
<1>1. v \in Nat \ {0}
  OBVIOUS
<1>2. rf \in Nat /\ f <= rf /\ rf + f <= v
  <2>1. rf \in Nat
    OBVIOUS
  <2>2. f <= rf
    <3>1. \E j \in Nat : rest = 1 + j
      <4>1. rest - 1 \in Nat /\ rest = 1 + (rest - 1)
        OBVIOUS
      <4> QED BY <4>1
    <3>2. PICK j \in Nat : rest = 1 + j
      BY <3>1
    <3>3. (1 + j) * f = f + j * f /\ j * f \in Nat
      OBVIOUS
    <3> QED BY <3>2, <3>3
  <2>3. rf + f <= v
    <3>1. \E j \in Nat : t = (rest + 1) + j
      <4>1. t - (rest + 1) \in Nat /\ t = (rest + 1) + (t - (rest + 1))
        OBVIOUS
      <4> QED BY <4>1
    <3>2. PICK j \in Nat : t = (rest + 1) + j
      BY <3>1
    <3>3. ((rest + 1) + j) * f = (rest * f + f) + j * f /\ j * f \in Nat
      OBVIOUS
    <3> QED BY <3>2, <3>3
  <2> QED BY <2>1, <2>2, <2>3
<1>3. qv \in Nat
  <2> HIDE DEF v
  <2> QED BY <1>1
<1>4. (q * t + rest) * f = qv + rf
  OBVIOUS
<1>5. e = qv + u
  <2> HIDE DEF qv
  <2>1. e = (qv + rf) - a
    BY <1>4
  <2> HIDE DEF e, rf
  <2> QED BY <1>2, <1>3, <2>1
<1> HIDE DEF e, rf, v
<1>6. u \in 0 .. v - 1 /\ u \in Nat
  BY <1>1, <1>2
<1> HIDE DEF u
<1>7. e \in Nat
  <2> HIDE DEF qv
  <2> QED BY <1>3, <1>5, <1>6
<1>8. (q * v + u) \div v = q /\ (q * v + u) % v = u
  <2>1. q \in Int
    OBVIOUS
  <2> QED BY <1>1, <1>6, <2>1, DivUnique
<1>9. e \div v = q /\ e % v = u
  BY <1>5, <1>8
<1> QED BY <1>1, <1>5, <1>6, <1>7, <1>9 DEF e, v, u, rf

\* A difference with a number that lies far below.
MinusLeaves(set, neg, a, b, x, z, p) ==
  LET e == b * TenTo[z - x] - a
      w == AddResidue(Fin(neg, Places(b, 10), b, z), TRUE, set, {})
  IN  /\ e \in Nat \ {0}
      /\ IsCut(w, neg, e, x, p) \/ Borrows(w, neg, a, e, x, p)

LEMMA MinusCut ==
  ASSUME NEW set, NEW p \in Nat \ {0}, set.digits = p, NEW neg \in BOOLEAN,
         NEW a \in Nat \ {0}, NEW b \in Nat \ {0}, NEW x \in Int, NEW z \in Int, x < z,
         Apart(a, b, z - x, p)
  PROVE  MinusLeaves(set, neg, a, b, x, z, p)
<1> DEFINE pad == z - x
           h == Places(b, 10)
           f == TenTo[pad]
           e == b * f - a
           m == (pad + h) - p
           v == TenTo[m]
           w == AddResidue(Fin(neg, h, b, z), TRUE, set, {})
<1>1. pad \in Nat /\ pad # 0 /\ h \in Nat \ {0} /\ b < TenTo[h] /\ b >= TenTo[h - 1]
  BY Lengths
<1>2. m \in Nat /\ m >= 3 /\ 100 * a <= v
  <2> HIDE DEF pad
  <2> QED BY <1>1, ApartIs DEF pad
<1>3. f \in Nat \ {0} /\ v \in Nat \ {0} /\ a < f
  <2>1. a < f
    BY DEF Apart
  <2> HIDE DEF pad, m
  <2> QED BY <1>1, <1>2, <2>1, Ten
<1>4. e \in Nat \ {0}
  <2> HIDE DEF f
  <2>1. b * f \in Nat /\ f <= b * f
    <3>1. \E j \in Nat : b = 1 + j
      <4>1. b - 1 \in Nat /\ b = 1 + (b - 1)
        OBVIOUS
      <4> QED BY <4>1
    <3>2. PICK j \in Nat : b = 1 + j
      BY <3>1
    <3>3. (1 + j) * f = f + j * f /\ j * f \in Nat
      BY <1>3
    <3> QED BY <1>3, <3>2, <3>3
  <2> DEFINE g == b * f
  <2> HIDE DEF g
  <2>2. g - a \in Nat \ {0}
    BY <1>3, <2>1 DEF g
  <2> QED BY <2>2 DEF g
<1>5. ResidueLeaves(neg, b, z, TRUE, set, p)
  BY ResidueIs
<1>6. CASE h <= p
  <2> DEFINE j == p - h
             g == TenTo[j]
             q == b * g
             y == z - j
  <2>1. j \in Nat /\ pad = j + m /\ z - j = x + m /\ h + j = p
    <3> HIDE DEF h
    <3> QED BY <1>1, <1>6
  <2>2. f = g * v /\ g \in Nat \ {0}
    <3>1. TenTo[j + m] = TenTo[j] * TenTo[m] /\ TenTo[j] \in Nat \ {0}
      <4> HIDE DEF j, m
      <4> QED BY <1>2, <2>1, TenSum, Ten
    <3> QED BY <2>1, <3>1
  <2>3. q \in Nat \ {0} /\ Places(q, 10) = p
    <3>1. Places(b * TenTo[j], 10) = Places(b, 10) + j /\ b * TenTo[j] \in Nat \ {0}
      <4> HIDE DEF j
      <4> QED BY <2>1, PadLength
    <3> HIDE DEF j
    <3> QED BY <2>1, <3>1
  <2>4. q >= TenTo[p - 1] /\ q < TenTo[p]
    <3> HIDE DEF q
    <3> QED BY <2>3, Lengths
  <2> HIDE DEF f, v, g
  <2>5. b * f = q * v
    <3>1. b * (g * v) = (b * g) * v
      BY <1>3, <2>2
    <3> QED BY <2>2, <3>1
  <2>6. w = Work(Fin(neg, p, b * TenTo[p - h], z - (p - h)), -1, Inexactness)
    BY <1>5, <1>6 DEF ResidueLeaves
  <2>7. w = Work(Fin(neg, p, q, y), -1, Inexactness)
    BY <2>6 DEF g
  <2> HIDE DEF w, q, y, m
  <2>8. q \in Nat /\ y = x + m /\ e = q * TenTo[m] - a
    BY <2>1, <2>3, <2>5 DEF y, v
  <2> HIDE DEF e
  <2>9. Borrows(w, neg, a, e, x, p)
    BY <1>2, <2>4, <2>7, <2>8 DEF Borrows, v
  <2> QED BY <1>4, <2>9 DEF MinusLeaves, e, w, f
<1>7. CASE h > p
  <2> DEFINE k == h - p
             r == DropResidue(b, k, -1)
             t == TenTo[k]
             q == b \div t
             rest == b % t
  <2>1. k \in Nat \ {0} /\ k < h /\ k + pad = m /\ x + m = z + k /\ h - k = p
    <3> HIDE DEF h
    <3> QED BY <1>1, <1>7
  <2>2. v = t * f /\ t \in Nat \ {0}
    <3>1. TenTo[k + pad] = TenTo[k] * TenTo[pad] /\ TenTo[k] \in Nat \ {0}
      <4> HIDE DEF k, pad
      <4> QED BY <1>1, <2>1, TenSum, Ten
    <3> QED BY <2>1, <3>1
  <2>3. q \in Nat \ {0} /\ Places(q, 10) = p
    <3>1. b \div TenTo[k] \in Nat \ {0} /\ Places(b \div TenTo[k], 10) = Places(b, 10) - k
      <4> HIDE DEF k
      <4> QED BY <2>1, CutLength DEF h
    <3> HIDE DEF k
    <3> QED BY <2>1, <3>1
  <2>4. q >= TenTo[p - 1] /\ q < TenTo[p]
    <3> HIDE DEF q
    <3> QED BY <2>3, Lengths
  <2>5. b = q * t + rest /\ rest \in Nat /\ rest < t
    <3> HIDE DEF t
    <3> QED BY <2>2, NatDivMod
  <2>6. /\ rest = 0 => r = -1
        /\ rest # 0 => r \in Nat \ {0} /\ r # 5 /\ (r > 5 <=> 2 * rest > t)
    <3> HIDE DEF k
    <3> QED BY <2>1, ResidueBelow
  <2>7. r # 0 => w = Work(Fin(neg, p, b \div TenTo[h - p], z + (h - p)), r, Inexactness)
    BY <1>5, <1>7 DEF ResidueLeaves
  <2>8. w = Work(Fin(neg, p, q, x + m), r, Inexactness)
    <3>1. w = Work(Fin(neg, p, q, z + k), r, Inexactness)
      <4>1. r # 0
        <5> HIDE DEF r, rest, t
        <5> QED BY <2>5, <2>6
      <4> QED BY <2>7, <4>1
    <3> HIDE DEF w, q, r, k, m
    <3> QED BY <2>1, <3>1
  <2>9. CASE rest = 0
    <3>1. b * f = q * v
      <4> HIDE DEF rest, t, q, f, v
      <4>1. (q * t) * f = q * (t * f) /\ q * t \in Nat
        BY <1>3, <2>2, <2>3
      <4>2. b = q * t
        BY <2>5, <2>9, <4>1
      <4> QED BY <2>2, <4>1, <4>2
    <3>2. r = -1
      BY <2>6, <2>9
    <3> HIDE DEF w, q, m, f, r
    <3>3. e = q * TenTo[m] - a /\ q \in Nat
      BY <2>3, <3>1 DEF v
    <3> HIDE DEF e
    <3>4. Borrows(w, neg, a, e, x, p)
      BY <1>2, <2>4, <2>8, <3>2, <3>3 DEF Borrows, v
    <3> QED BY <1>4, <3>4 DEF MinusLeaves, e, w, f
  <2>10. CASE rest # 0
    <3> DEFINE u == rest * f - a
    <3>1. rest \in 1 .. t - 1 /\ a \in 1 .. f - 1
      <4> HIDE DEF rest, t, f
      <4> QED BY <1>3, <2>2, <2>5, <2>10
    <3>2. e = q * v + u /\ u \in 0 .. v - 1 /\ e \div v = q /\ e % v = u
      <4> HIDE DEF rest, t, f, q, v
      <4>1. /\ t * f \in Nat \ {0} /\ rest * f - a \in 0 .. t * f - 1
            /\ (q * t + rest) * f - a = q * (t * f) + (rest * f - a) /\ (q * t + rest) * f - a \in Nat
            /\ ((q * t + rest) * f - a) \div (t * f) = q
            /\ ((q * t + rest) * f - a) % (t * f) = rest * f - a
        <5>1. q \in Nat /\ t \in Nat \ {0} /\ f \in Nat \ {0}
          BY <1>3, <2>2, <2>3
        <5> QED BY <3>1, <5>1, TakenDiv
      <4>2. e = (q * t + rest) * f - a
        BY <2>5
      <4> HIDE DEF e
      <4> QED BY <2>2, <4>1, <4>2
    <3>3. u \in Nat \ {0} /\ Tells(r, u, v)
      <4>1. \E i \in Nat : t = 2 * i
        <5>1. TenTo[k] = 10 * TenTo[k - 1] /\ TenTo[k - 1] \in Nat
          <6> HIDE DEF k
          <6>1. k - 1 \in Nat
            BY <2>1
          <6> QED BY <2>1, <6>1, TenBefore, Ten
        <5>2. t = 2 * (5 * TenTo[k - 1]) /\ 5 * TenTo[k - 1] \in Nat
          <6> HIDE DEF k
          <6> QED BY <5>1
        <5> QED BY <5>2
      <4>2. PICK i \in Nat : t = 2 * i
        BY <4>1
      <4>3. r \in Nat \ {0} /\ r # 5 /\ (r > 5 <=> 2 * rest > t)
        BY <2>6, <2>10
      <4> HIDE DEF r, rest, t, f, v
      <4>4. rest * f - a \in Nat \ {0} /\ Tells(r, rest * f - a, t * f)
        <5>1. t \in Nat \ {0} /\ f \in Nat \ {0}
          BY <1>3, <2>2
        <5>2. r \in Nat \ {0} /\ r # 5
          BY <4>3
        <5>3. r > 5 <=> 2 * rest > t
          BY <4>3
        <5> QED BY <3>1, <4>2, <5>1, <5>2, <5>3, RestLess
      <4> QED BY <2>2, <4>4
    <3>4. Places(e, 10) = p + m
      <4>1. q * v <= e /\ e < (q + 1) * v
        <5>1. (q + 1) * v = q * v + v /\ q * v \in Nat
          <6> HIDE DEF q, v
          <6> QED BY <1>3, <2>3
        <5> DEFINE g == q * v
        <5> HIDE DEF g, u, v
        <5>2. e = g + u
          BY <3>2 DEF g
        <5>3. g <= g + u /\ g + u < g + v
          <6>1. g \in Nat
            BY <5>1 DEF g
          <6>2. v \in Nat /\ u \in 0 .. v - 1
            BY <1>3, <3>2
          <6> QED BY <6>1, <6>2
        <5> HIDE DEF e
        <5> QED BY <5>1, <5>2, <5>3 DEF g
      <4>2. TenTo[p + m] = TenTo[p] * v /\ TenTo[(p - 1) + m] = TenTo[p - 1] * v
            /\ TenTo[p] \in Nat /\ TenTo[p - 1] \in Nat
        <5> HIDE DEF m
        <5>1. p - 1 \in Nat /\ p \in Nat
          OBVIOUS
        <5> QED BY <1>2, <5>1, TenSum, Ten
      <4> DEFINE c == TenTo[p]
                 d == TenTo[p - 1]
      <4>3. q + 1 <= c /\ d <= q /\ c \in Nat /\ d \in Nat
        <5>1. q \in Nat
          BY <2>3
        <5> HIDE DEF q
        <5> QED BY <2>4, <4>2, <5>1
      <4> HIDE DEF q, v, c, d
      <4>4. (q + 1) * v <= c * v /\ d * v <= q * v
        BY <1>3, <2>3, <4>3
      <4>5. q * v \in Nat /\ (q + 1) * v \in Nat /\ c * v \in Nat /\ d * v \in Nat
        BY <1>3, <2>3, <4>3
      <4> DEFINE qv == q * v
                 qw == (q + 1) * v
                 cv == c * v
                 dv == d * v
      <4> HIDE DEF qv, qw, cv, dv, e
      <4>6. e < cv /\ e >= dv
        BY <1>4, <4>1, <4>4, <4>5 DEF qv, qw, cv, dv
      <4>7. (p + m) - 1 = (p - 1) + m /\ p + m \in Nat \ {0}
        <5> HIDE DEF m
        <5> QED BY <1>2
      <4> HIDE DEF m
      <4>8. e < TenTo[p + m] /\ e >= TenTo[(p + m) - 1]
        BY <4>2, <4>6, <4>7 DEF cv, dv, c, d
      <4> QED BY <1>4, <4>7, <4>8, LengthIs
    <3> DEFINE n == Places(e, 10)
               i == IF n > p THEN n - p ELSE 0
    <3>5. i = m /\ n - i = p
      <4> HIDE DEF m, e
      <4> QED BY <1>2, <3>4
    <3>6. Told(m, e % v) = Inexactness
      <4> HIDE DEF e, v, m, u
      <4> QED BY <1>2, <3>2, <3>3 DEF Told, When, Inexactness
    <3> HIDE DEF e, m, w, n, i, r, q, u
    <3>7. Tells(r, e % TenTo[i], TenTo[i]) /\ w = Work(Fin(neg, n - i, e \div TenTo[i], x + i), r, Told(i, e % TenTo[i]))
      BY <2>8, <3>2, <3>3, <3>5, <3>6 DEF v
    <3>8. IsCut(w, neg, e, x, p)
      BY <3>7 DEF IsCut, n, i
    <3> QED BY <1>4, <3>8 DEF MinusLeaves, e, w, f
  <2> QED BY <2>9, <2>10
<1>8. h <= p \/ h > p
  <2> HIDE DEF h
  <2> QED BY <1>1
<1> QED BY <1>6, <1>7, <1>8

\* A number that may be bumped down.
LEMMA AppliedBelow ==
  ASSUME NEW set, NEW neg, NEW len, NEW q \in Nat, NEW exp, NEW st, NEW b,
         b = bump(Fin(neg, len, q, exp), set.round, -1), b \in {0, -1}
  PROVE  LET w == Work(Fin(neg, len, q, exp), -1, st)
         IN  /\ b = 0 => decApplyRound(w, set) = w
             /\ b = -1 /\ q = TenTo[len - 1] => decApplyRound(w, set) = BumpHundreds(w, set)
             /\ b = -1 /\ q # TenTo[len - 1] =>
                  decApplyRound(w, set) = Work(Fin(neg, len, q - 1, exp), -1, st)
<1> DEFINE n == Fin(neg, len, q, exp)
           w == Work(n, -1, st)
<1>1. n.coef = q /\ n.digits = len /\ w.n = n /\ w.residue = -1 /\ w.status = st
  BY FinFields, WorkFields
<1>2. [n EXCEPT !.coef = @ + b] = Fin(neg, len, q + b, exp)
  <2>1. [n EXCEPT !.coef = q + b] = Fin(neg, len, q + b, exp)
    BY SetCoef
  <2> HIDE DEF n
  <2>2. [n EXCEPT !.coef = @ + b] = [n EXCEPT !.coef = q + b]
    BY <1>1
  <2> QED BY <2>1, <2>2
<1> HIDE DEF n
<1> HIDE DEF w
<1>3. decApplyRound(w, set) = Bumped(w, b, set)
  BY <1>1 DEF decApplyRound, n
<1>4. b # 1
  OBVIOUS
<1>5. ASSUME b = 0 PROVE decApplyRound(w, set) = w
  BY <1>3, <1>5 DEF Bumped
<1>6. ASSUME b = -1, q = TenTo[len - 1] PROVE decApplyRound(w, set) = BumpHundreds(w, set)
  BY <1>1, <1>3, <1>4, <1>6 DEF Bumped
<1>7. ASSUME b = -1, q # TenTo[len - 1] PROVE decApplyRound(w, set) = Work(Fin(neg, len, q - 1, exp), -1, st)
  <2>1. decApplyRound(w, set) = Holding(w, [w.n EXCEPT !.coef = @ + b])
    BY <1>1, <1>3, <1>4, <1>7 DEF Bumped
  <2>2. q + b = q - 1
    BY <1>7
  <2>3. [w.n EXCEPT !.coef = @ + b] = Fin(neg, len, q - 1, exp)
    BY <1>1, <1>2, <2>2
  <2> QED BY <1>1, <2>1, <2>3 DEF Holding
<1> QED BY <1>5, <1>6, <1>7 DEF w, n

\* 1000.. bumped down.
LEMMA HundredsIs ==
  ASSUME NEW set, NEW neg, NEW len \in Int, NEW q, NEW exp \in Int, NEW st, exp # Etiny(set)
  PROVE  BumpHundreds(Work(Fin(neg, len, q, exp), -1, st), set)
           = Work(Fin(neg, len, TenTo[len] - 1, exp - 1), -1, st)
<1> DEFINE n == Fin(neg, len, q, exp)
           w == Work(n, -1, st)
<1>1. n.coef = q /\ n.digits = len /\ n.exp = exp /\ w.n = n /\ w.residue = -1 /\ w.status = st
  BY FinFields, WorkFields
<1>2. [n EXCEPT !.coef = TenTo[n.digits] - 1, !.exp = @ - 1] = Fin(neg, len, TenTo[len] - 1, exp - 1)
  <2> DEFINE v == TenTo[len] - 1
             y == exp - 1
             n1 == [n EXCEPT !.coef = v]
  <2>1. n1 = Fin(neg, len, v, exp)
    BY SetCoef
  <2>2. [n1 EXCEPT !.exp = y] = Fin(neg, len, v, y)
    <3> HIDE DEF n1, v, y
    <3> QED BY <2>1, SetExp
  <2>3. [n EXCEPT !.coef = v, !.exp = y] = [n1 EXCEPT !.exp = y]
    <3> HIDE DEF n, v, y
    <3> QED OBVIOUS
  <2>4. [n EXCEPT !.coef = TenTo[n.digits] - 1, !.exp = @ - 1] = [n EXCEPT !.coef = v, !.exp = y]
    <3> HIDE DEF n
    <3> QED BY <1>1
  <2> HIDE DEF n, n1
  <2> QED BY <2>2, <2>3, <2>4
<1> HIDE DEF n
<1> HIDE DEF w
<1>3. BumpHundreds(w, set) = Work(Fin(neg, len, TenTo[len] - 1, exp - 1), -1, st)
  BY <1>1, <1>2 DEF BumpHundreds, Holding
<1> QED BY <1>3 DEF w, n

BelowNmin == {"Underflow", "Subnormal", "Inexact", "Rounded"}

\* The same at the lowest exponent.
LEMMA NinesBelowIs ==
  ASSUME NEW set, NEW neg, NEW len \in Int, NEW q, NEW exp \in Int, NEW st, exp = Etiny(set),
         NEW v, v + 1 = TenTo[len - 1], v \in Int,
         NEW d, len = 1 => d = 1, len # 1 => d = len - 1
  PROVE  BumpHundreds(Work(Fin(neg, len, q, exp), -1, st), set)
           = Work(Fin(neg, d, v, exp), -1, st \cup BelowNmin)
<1> DEFINE n == Fin(neg, len, q, exp)
           w == Work(n, -1, st)
           n1 == [n EXCEPT !.coef = v]
           nn == Fin(neg, d, v, exp)
<1>1. n.coef = q /\ n.digits = len /\ n.exp = exp /\ w.n = n /\ w.residue = -1 /\ w.status = st
  BY FinFields, WorkFields
<1>2. n1 = Fin(neg, len, v, exp)
  BY SetCoef
<1>3. [n1 EXCEPT !.digits = d] = nn
  <2> HIDE DEF n1
  <2> QED BY <1>2, SetDigits
<1>4. [n EXCEPT !.coef = v, !.digits = d] = [n1 EXCEPT !.digits = d]
  <2> HIDE DEF n
  <2> QED OBVIOUS
<1>5. NinesBelow(n) = [n EXCEPT !.coef = v, !.digits = d]
  <2> HIDE DEF n
  <2>1. v = TenTo[len - 1] - 1
    <3> DEFINE f == TenTo[len - 1]
    <3>1. v + 1 = f
      OBVIOUS
    <3> HIDE DEF f
    <3>2. v = (v + 1) - 1
      OBVIOUS
    <3> QED BY <3>1, <3>2 DEF f
  <2>2. d = IF len = 1 THEN 1 ELSE len - 1
    OBVIOUS
  <2> QED BY <1>1, <2>1, <2>2 DEF NinesBelow
<1> HIDE DEF n, n1
<1>6. NinesBelow(n) = nn
  BY <1>3, <1>4, <1>5
<1> HIDE DEF w, nn
<1>7. BumpHundreds(w, set) = Flagged(Holding(w, NinesBelow(w.n)), BelowNmin)
  BY <1>1 DEF BumpHundreds, BelowNmin
<1>8. Holding(w, nn) = Work(nn, -1, st)
  BY <1>1 DEF Holding
<1>9. Flagged(Work(nn, -1, st), BelowNmin) = Work(nn, -1, st \cup BelowNmin)
  <2> DEFINE u == Work(nn, -1, st)
  <2>1. u.n = nn /\ u.residue = -1 /\ u.status = st
    BY WorkFields
  <2> HIDE DEF u
  <2> QED BY <2>1 DEF Flagged, u
<1>10. BumpHundreds(w, set) = Work(nn, -1, st \cup BelowNmin)
  BY <1>1, <1>6, <1>7, <1>8, <1>9
<1> QED BY <1>10 DEF w, n, nn

\* In the normal range, a residue below zero is one well above a half of the
\* number before.
LEMMA BorrowNormal ==
  ASSUME NEW set, Settled(set), set.digits > 1, NEW neg \in BOOLEAN,
         NEW s \in Nat \ {0}, Places(s, 10) = set.digits, NEW u \in Int, u >= Etiny(set),
         NEW e \in Nat \ {0}, NEW x \in Int,
         IsCut(Work(Fin(neg, set.digits, s, u), 7, Inexactness), neg, e, x, set.digits),
         NEW q \in Nat, NEW y \in Int,
         \/ q = s + 1 /\ y = u /\ q # TenTo[set.digits]
         \/ s = TenTo[set.digits] - 1 /\ q = TenTo[set.digits - 1] /\ y = u + 1
  PROVE  Gives(decFinalize(Work(Fin(neg, set.digits, q, y), -1, Inexactness), set),
               Ref!RoundTo(neg, e, x, set))
<1> DEFINE p == set.digits
           mode == set.round
           n == Fin(neg, p, q, y)
           w == Work(n, -1, Inexactness)
           w1 == Work(Fin(neg, p, s, u), 7, Inexactness)
           top == TenTo[p]
           low == TenTo[p - 1]
           up == Up(mode, neg, s, 2, 2)
           sum == s + up
           kept == Kept(sum, set)
           z == u + CarriedIn(sum, set)
           b == bump(n, mode, -1)
<1>1. /\ p \in Nat /\ p > 1 /\ mode \in Roundings /\ set.emin \in Int
      /\ Etiny(set) \in Int /\ Etiny(set) = (set.emin - p) + 1
  BY RangeIs DEF Settled
<1>2. top \in Nat /\ low \in Nat /\ low # 0 /\ top = 10 * low
  <2> HIDE DEF p
  <2>1. p \in Nat \ {0} /\ p - 1 \in Nat
    BY <1>1
  <2> QED BY <2>1, TenBefore, Ten
<1>3. s < top /\ s >= low
  BY Lengths
<1>4. \/ q = s + 1 /\ y = u /\ q # top
      \/ s = top - 1 /\ q = low /\ y = u + 1
  OBVIOUS
<1>5. q % 5 = 1 <=> s % 5 = 0
  <2>1. CASE q = s + 1
    <3>1. (s + 1) % 5 = 1 <=> s % 5 = 0
      OBVIOUS
    <3> QED BY <2>1, <3>1
  <2>2. CASE s = top - 1 /\ q = low
    <3>1. \E i \in Nat : low = 10 * i
      <4> HIDE DEF p
      <4>1. p - 1 \in Nat \ {0} /\ (p - 1) - 1 \in Nat
        BY <1>1
      <4>2. TenTo[p - 1] = 10 * TenTo[(p - 1) - 1] /\ TenTo[(p - 1) - 1] \in Nat
        BY <4>1, TenBefore, Ten
      <4> QED BY <4>2
    <3>2. PICK i \in Nat : low = 10 * i
      BY <3>1
    <3> HIDE DEF top, low
    <3>3. s = 100 * i - 1 /\ q = 10 * i
      BY <1>2, <2>2, <3>2
    <3>4. (10 * i) % 5 = 0 /\ (100 * i - 1) % 5 = 4
      OBVIOUS
    <3> QED BY <3>3, <3>4
  <2> QED BY <1>4, <2>1, <2>2
<1>6. /\ b \in {0, -1} /\ up \in {0, 1}
      /\ b = 0 <=> up = 1
      /\ b = -1 <=> up = 0
  <2> DEFINE unit == 2
             rem == 2
  <2>1. n.coef = q /\ n.neg = neg
    BY FinFields
  <2>2. unit \in Nat \ {0} /\ rem \in Nat /\ 2 * rem > unit
    OBVIOUS
  <2> HIDE DEF n, mode, unit, rem
  <2>3. /\ bump(n, mode, -1) \in {0, -1}
        /\ bump(n, mode, -1) = 0 <=> Up(mode, neg, s, rem, unit) = 1
        /\ bump(n, mode, -1) = -1 <=> Up(mode, neg, s, rem, unit) = 0
    BY <1>1, <1>5, <2>1, <2>2, BumpDown
  <2> DEFINE bb == bump(n, mode, -1)
             uu == Up(mode, neg, s, rem, unit)
  <2> HIDE DEF bb, uu
  <2>4. bb \in {0, -1} /\ (bb = 0 <=> uu = 1) /\ (bb = -1 <=> uu = 0)
    BY <2>3 DEF bb, uu
  <2>5. uu \in {0, 1}
    BY <2>4
  <2> QED BY <2>4, <2>5 DEF bb, uu, unit, rem
<1>7. decFinalize(w1, set) = WithinRange(decApplyRound(w1, set), set)
  <2> DEFINE r == 7
  <2>1. r \in Nat
    OBVIOUS
  <2> HIDE DEF p, r
  <2>2. ~(u + p - 1 < set.emin)
    BY <1>1
  <2> QED BY <1>1, <2>1, <2>2, FinalizeIs DEF r
<1>8. /\ decFinalize(w1, set).n = Ranged(neg, kept, z, set)
      /\ decFinalize(w1, set).status = Inexactness \cup (IF Beyond(kept, z, set) THEN OverflowFlags
                               ELSE When(Folded(z, set), {"Clamped"}))
  <2> DEFINE unit == 2
             rem == 2
             r == 7
             st == Inexactness
             len == p
  <2>1. Tells(r, rem, unit) /\ rem \in Nat /\ unit \in Nat \ {0}
    BY DEF Tells
  <2>2. len = Places(s, 10) /\ len <= set.digits /\ (rem # 0 => len = set.digits)
    BY <1>1
  <2> HIDE DEF unit, rem, r, st, len
  <2>3. NormalAs(set, neg, s, len, u, st, unit, rem, r)
    BY <2>1, <2>2, NormalRight
  <2> QED BY <1>7, <2>3 DEF NormalAs, unit, rem, r, st, len
<1>9. decApplyRound(w, set) = Work(Fin(neg, p, kept, z), -1, Inexactness)
      /\ kept \in Nat \ {0} /\ Places(kept, 10) = p /\ z \in Int
  <2>1. /\ b = 0 => decApplyRound(w, set) = w
        /\ b = -1 /\ q = TenTo[p - 1] => decApplyRound(w, set) = BumpHundreds(w, set)
        /\ b = -1 /\ q # TenTo[p - 1] =>
             decApplyRound(w, set) = Work(Fin(neg, p, q - 1, y), -1, Inexactness)
    <3> DEFINE bb == b
               st == Inexactness
               len == p
    <3>1. bb \in {0, -1} /\ bb = bump(Fin(neg, len, q, y), set.round, -1)
      BY <1>6
    <3> HIDE DEF bb, st, len
    <3>2. LET ww == Work(Fin(neg, len, q, y), -1, st)
          IN  /\ bb = 0 => decApplyRound(ww, set) = ww
              /\ bb = -1 /\ q = TenTo[len - 1] => decApplyRound(ww, set) = BumpHundreds(ww, set)
              /\ bb = -1 /\ q # TenTo[len - 1] =>
                   decApplyRound(ww, set) = Work(Fin(neg, len, q - 1, y), -1, st)
      BY <3>1, AppliedBelow
    <3> QED BY <3>2 DEF bb, st, len
  <2>2. kept = (IF sum = top THEN low ELSE sum) /\ z = u + (IF sum = top THEN 1 ELSE 0)
    BY DEF Kept, CarriedIn
  <2>3. low < top /\ low # top
    BY <1>2
  <2>4. CASE q = s + 1 /\ y = u /\ q # top /\ b = 0
    <3>1. up = 1 /\ sum = q
      BY <1>6, <2>4
    <3>2. kept = q /\ z = y
      <4> HIDE DEF kept, z, sum, b, top, low
      <4> QED BY <2>2, <2>4, <3>1
    <3>3. q < top /\ q >= low
      <4> HIDE DEF top, low, b
      <4> QED BY <1>2, <1>3, <2>4
    <3>4. Places(q, 10) = p /\ q \in Nat \ {0}
      <4> HIDE DEF p, b
      <4> QED BY <1>1, <1>2, <2>4, <3>3, LengthIs
    <3> HIDE DEF kept, z, b
    <3> QED BY <2>1, <2>4, <3>2, <3>4
  <2>5. CASE q = s + 1 /\ y = u /\ b = -1
    <3>1. up = 0 /\ sum = s
      BY <1>6, <2>5
    <3>2. kept = s /\ z = y
      <4> HIDE DEF kept, z, sum, b, top, low
      <4> QED BY <1>2, <1>3, <2>2, <2>5, <3>1
    <3>3. q # low /\ q - 1 = s
      <4> HIDE DEF top, low, b
      <4> QED BY <1>2, <1>3, <2>5
    <3> HIDE DEF kept, z, b
    <3> QED BY <2>1, <2>5, <3>2, <3>3
  <2>6. CASE s = top - 1 /\ q = low /\ y = u + 1 /\ b = 0
    <3>1. up = 1 /\ sum = s + 1
      BY <1>6, <2>6
    <3>2. sum = top
      <4> HIDE DEF sum, b, top, low
      <4> QED BY <1>2, <2>6, <3>1
    <3>3. kept = q /\ z = y
      <4> HIDE DEF kept, z, sum, b, top, low
      <4> QED BY <2>2, <2>6, <3>2
    <3>4. Places(q, 10) = p /\ q \in Nat \ {0}
      <4>1. p \in Nat \ {0}
        BY <1>1
      <4>2. q \in Nat \ {0} /\ q < TenTo[p] /\ q >= TenTo[p - 1]
        <5> HIDE DEF b, p
        <5> QED BY <1>2, <2>3, <2>6
      <4> HIDE DEF p, b
      <4> QED BY <4>1, <4>2, LengthIs
    <3> HIDE DEF kept, z, b
    <3> QED BY <2>1, <2>6, <3>3, <3>4
  <2>7. CASE s = top - 1 /\ q = low /\ y = u + 1 /\ b = -1
    <3>1. up = 0 /\ sum = s
      BY <1>6, <2>7
    <3>2. kept = s /\ z = u
      <4> HIDE DEF kept, z, sum, b, top, low
      <4> QED BY <1>2, <1>3, <2>2, <2>7, <3>1
    <3>3. y # Etiny(set) /\ y - 1 = u
      <4> HIDE DEF b
      <4> QED BY <1>1, <2>7
    <3>4. BumpHundreds(w, set) = Work(Fin(neg, p, TenTo[p] - 1, y - 1), -1, Inexactness)
      <4> DEFINE len == p
                 st == Inexactness
      <4>1. y # Etiny(set)
        BY <3>3
      <4>3. len \in Int
        BY <1>1
      <4> HIDE DEF len, st
      <4>2. BumpHundreds(Work(Fin(neg, len, q, y), -1, st), set) = Work(Fin(neg, len, TenTo[len] - 1, y - 1), -1, st)
        BY <4>1, <4>3, HundredsIs
      <4> QED BY <4>2 DEF len, st
    <3>5. decApplyRound(w, set) = Work(Fin(neg, p, TenTo[p] - 1, y - 1), -1, Inexactness)
      <4> HIDE DEF w, b
      <4> QED BY <2>1, <2>7, <3>4
    <3>6. TenTo[p] - 1 = s
      BY <2>7
    <3>7. decApplyRound(w, set) = Work(Fin(neg, p, s, u), -1, Inexactness)
      <4> HIDE DEF w, p
      <4> QED BY <3>3, <3>5, <3>6
    <3> HIDE DEF kept, z, b, w
    <3> QED BY <3>2, <3>7
  <2> QED BY <1>4, <1>6, <2>4, <2>5, <2>6, <2>7
<1>10. decFinalize(w, set) = WithinRange(decApplyRound(w, set), set)
  <2>1. w.n = n /\ w.residue = -1 /\ n.digits = p /\ n.exp = y /\ n.coef = q
    BY FinFields, WorkFields
  <2>2. ~(y < (set.emin - p) + 1)
    <3> HIDE DEF p, top, low
    <3> QED BY <1>1, <1>4
  <2>3. set.emin - p + 1 = (set.emin - p) + 1
    BY <1>1
  <2>4. ~(y = (set.emin - p) + 1 /\ q = TenTo[p - 1])
    <3>1. CASE q = s + 1
      <4>1. q # low
        <5> HIDE DEF low, top
        <5> QED BY <1>2, <1>3, <3>1
      <4> QED BY <4>1
    <3>2. CASE y = u + 1
      <4> HIDE DEF p, top, low
      <4> QED BY <1>1, <3>2
    <3> QED BY <1>4, <3>1, <3>2
  <2> HIDE DEF n, p
  <2> HIDE DEF w
  <2> QED BY <2>1, <2>2, <2>3, <2>4 DEF decFinalize, InRange
<1>11. LET out == WithinRange(Work(Fin(neg, p, kept, z), -1, Inexactness), set)
       IN  /\ out.n = Ranged(neg, kept, z, set)
           /\ out.status = Inexactness \cup (IF Beyond(kept, z, set) THEN OverflowFlags
                                             ELSE When(Folded(z, set), {"Clamped"}))
  <2> DEFINE len == p
             kk == kept
             zz == z
             res == -1
             st == Inexactness
  <2>1. kk \in Nat \ {0} /\ len = Places(kk, 10) /\ len <= set.digits /\ zz \in Int
    <3>1. kept \in Nat \ {0} /\ Places(kept, 10) = p /\ z \in Int
      BY <1>9
    <3>2. p <= p
      BY <1>1
    <3> QED BY <3>1, <3>2
  <2> HIDE DEF len, kk, zz, res, st
  <2>2. LET out == WithinRange(Work(Fin(neg, len, kk, zz), res, st), set)
        IN  /\ out.n = Ranged(neg, kk, zz, set)
            /\ out.status = st \cup (IF Beyond(kk, zz, set) THEN OverflowFlags
                                              ELSE When(Folded(zz, set), {"Clamped"}))
    BY <2>1, WithinIs
  <2> QED BY <2>2 DEF len, kk, zz, res, st
<1>12. Gives(decFinalize(w1, set), Ref!RoundTo(neg, e, x, set))
  <2> HIDE DEF w1
  <2>1. IsCut(w1, neg, e, x, set.digits)
    BY DEF w1
  <2> QED BY <2>1, CutGives
<1>13. decFinalize(w, set).n = decFinalize(w1, set).n
       /\ decFinalize(w, set).status = decFinalize(w1, set).status
  <2> HIDE DEF w, w1, kept, z
  <2> QED BY <1>8, <1>9, <1>10, <1>11
<1> HIDE DEF w, w1
<1> QED BY <1>12, <1>13 DEF Gives, w, n

\* The reference below the normal range.
LEMMA TinyGives ==
  ASSUME NEW set, Settled(set), NEW neg \in BOOLEAN, NEW e \in Nat \ {0}, NEW x \in Int,
         x + Places(e, 10) - 1 < set.emin, NEW m \in Nat, m = Etiny(set) - x, e % TenTo[m] # 0
  PROVE  LET sum == Rounded(set.round, neg, e, m)
             ref == Ref!RoundTo(neg, e, x, set)
         IN  /\ ref.n = Ref!Finite(neg, sum, Etiny(set))
             /\ ref.status = (Inexactness \cup {"Subnormal"}) \cup {"Underflow"} \cup When(sum = 0, {"Clamped"})
<1> DEFINE p == set.digits
           t == Etiny(set)
           n == Places(e, 10)
           k == IF n > p THEN n - p ELSE 0
           q == e \div TenTo[k]
           rest == e % TenTo[k]
           w == decSetCoeff(Work(Fin(neg, n, e, x), 0, {}), p, e, n)
           sum == Rounded(set.round, neg, e, m)
           ref == Ref!RoundTo(neg, e, x, set)
<1>1. p \in Nat \ {0} /\ p \in Nat /\ set.emin \in Int /\ t \in Int /\ t = (set.emin - p) + 1
  BY RangeIs DEF Settled
<1>2. n \in Nat \ {0}
  BY Lengths
<1>3. WholeCut(neg, n, e, e, x, p)
  <2> HIDE DEF p, n
  <2> QED BY <1>1, CutWhole
<1>4. /\ k \in Nat /\ k < n /\ n - k \in Nat \ {0} /\ n - k <= p /\ (k > 0 => n - k = p)
      /\ q \in Nat \ {0}
  BY <1>3 DEF WholeCut
<1>5. PICK r : Tells(r, rest, TenTo[k]) /\ w = Work(Fin(neg, n - k, q, x + k), r, Told(k, rest))
  BY <1>3 DEF WholeCut
<1>6. Gives(decFinalize(w, set), ref)
  <2>1. IsCut(w, neg, e, x, set.digits)
    <3> HIDE DEF w, k
    <3> QED BY <1>5 DEF IsCut, k, n, p, q, rest
  <2> HIDE DEF w
  <2> QED BY <2>1, CutGives
<1>7. x + n - 1 = (x + n) - 1 /\ (x + n) - 1 < set.emin
  <2> HIDE DEF n
  <2>1. x + n - 1 < set.emin
    BY DEF n
  <2>2. x + n - 1 = (x + n) - 1
    BY <1>2
  <2> QED BY <2>1, <2>2
<1>8. TinyAs(set, neg, e, x, k, r)
  <2>1. Tells(r, e % TenTo[k], TenTo[k]) /\ k < Places(e, 10) /\ Places(e, 10) - k <= set.digits
        /\ (k > 0 => Places(e, 10) - k = set.digits) /\ x + Places(e, 10) - 1 < set.emin
    BY <1>4, <1>5
  <2> HIDE DEF k
  <2> QED BY <1>4, <2>1, TinyRight
<1>9. decFinalize(w, set) = decSetSubnormal(w, set)
  <2> DEFINE len == n - k
             y == x + k
             st == Told(k, rest)
  <2>1. y + len - 1 < set.emin
    <3> HIDE DEF n, k, p
    <3> QED BY <1>1, <1>2, <1>4, <1>7
  <2>2. len \in Nat /\ y \in Int /\ r \in Nat
    <3>1. r \in Nat
      <4> HIDE DEF rest, k
      <4> QED BY <1>5 DEF Tells
    <3> HIDE DEF n, k
    <3> QED BY <1>2, <1>4, <3>1
  <2> HIDE DEF len, y, st, q, n
  <2>3. decFinalize(Work(Fin(neg, len, q, y), r, st), set)
          = IF y + len - 1 < set.emin THEN decSetSubnormal(Work(Fin(neg, len, q, y), r, st), set)
            ELSE WithinRange(decApplyRound(Work(Fin(neg, len, q, y), r, st), set), set)
    BY <2>2, FinalizeIs
  <2> HIDE DEF w
  <2>4. w = Work(Fin(neg, len, q, y), r, st)
    BY <1>5 DEF len, y, st
  <2> QED BY <2>1, <2>3, <2>4
<1>10. m = (IF t - x > k THEN t - x ELSE k) /\ x + m = t /\ m # 0
  <2>1. m # 0
    <3>1. e % 1 = 0
      OBVIOUS
    <3> QED BY <3>1, TenZero
  <2> HIDE DEF t, n
  <2>2. m = t - x
    BY DEF t
  <2> HIDE DEF k, p
  <2> QED BY <1>1, <1>2, <1>4, <1>7, <2>1, <2>2 DEF k
<1>11. LET out == decSetSubnormal(w, set)
           mm == IF t - x > k THEN t - x ELSE k
           s == Rounded(set.round, neg, e, mm)
       IN  /\ out.n = Ref!Finite(neg, s, x + mm)
           /\ out.status = Told(mm, e % TenTo[mm]) \cup {"Subnormal"}
                             \cup When(e % TenTo[mm] # 0, {"Underflow"})
                             \cup When(s = 0, {"Clamped"})
  <2> HIDE DEF w
  <2> QED BY <1>5, <1>8 DEF TinyAs, t, n, q, rest
<1>12. /\ decSetSubnormal(w, set).n = Ref!Finite(neg, sum, t)
       /\ decSetSubnormal(w, set).status = Told(m, e % TenTo[m]) \cup {"Subnormal"}
                             \cup When(e % TenTo[m] # 0, {"Underflow"})
                             \cup When(sum = 0, {"Clamped"})
  <2> HIDE DEF w, t, k
  <2> QED BY <1>10, <1>11
<1>13. Told(m, e % TenTo[m]) = Inexactness /\ When(e % TenTo[m] # 0, {"Underflow"}) = {"Underflow"}
  BY <1>10 DEF Told, When, Inexactness
<1> HIDE DEF w, sum, ref, t
<1>14. ref.n = Ref!Finite(neg, sum, t)
       /\ ref.status = Inexactness \cup {"Subnormal"} \cup {"Underflow"} \cup When(sum = 0, {"Clamped"})
  BY <1>6, <1>9, <1>12, <1>13 DEF Gives
<1> QED BY <1>14 DEF ref, sum, t

\* Where a number below the normal range is rounded.
LEMMA SubnormalWithin ==
  ASSUME NEW set, Settled(set), NEW neg, NEW len \in Nat, NEW q \in Nat \ {0},
         NEW y \in Int, NEW r, NEW st, y < Etiny(set)
  PROVE  LET w == Work(Fin(neg, len, q, y), r, st)
             sub == Work(Fin(neg, len, q, y), r, st \cup {"Subnormal"})
             length == len - (Etiny(set) - y)
         IN  \E workset :
               /\ workset.round = set.round /\ workset.emax = set.emax
               /\ Etiny(workset) = (set.emin - len) + 1
               /\ decSetSubnormal(w, set) =
                    AtEtiny(decApplyRound(decSetCoeff(sub, length, q, len), workset), Etiny(set))
<1> DEFINE n == Fin(neg, len, q, y)
           w == Work(n, r, st)
           sub == Work(n, r, st \cup {"Subnormal"})
           adjust == Etiny(set) - y
           length == len - adjust
           workset == [set EXCEPT !.digits = length, !.emin = @ - adjust]
<1>1. w.n = n /\ w.residue = r /\ w.status = st /\ n.exp = y /\ n.coef = q /\ n.digits = len
  BY WorkFields, FinFields
<1> HIDE DEF n
<1>2. Flagged(w, {"Subnormal"}) = sub
  BY <1>1 DEF Flagged
<1> HIDE DEF w, sub
<1>3. ~ISZERO(w.n) /\ set.extended
  BY <1>1 DEF ISZERO, Settled
<1>4. ~(adjust <= 0) /\ adjust \in Int
  <2>1. Etiny(set) \in Int
    BY RangeIs
  <2> QED BY <2>1
<1>5. decSetSubnormal(w, set) =
        AtEtiny(decApplyRound(decSetCoeff(sub, length, q, len), workset), Etiny(set))
  BY <1>1, <1>2, <1>3, <1>4 DEF decSetSubnormal
<1>6. workset.round = set.round /\ workset.emax = set.emax
  OBVIOUS
<1>7. Etiny(workset) = (set.emin - len) + 1
  <2>1. {"digits", "emin"} \subseteq DOMAIN set /\ set.emin \in Int
    BY DEF Settled
  <2>2. workset.digits = length /\ workset.emin = set.emin - adjust
    BY <2>1
  <2> HIDE DEF adjust, workset
  <2>3. Etiny(workset) = (set.emin - adjust) - (length - 1)
    BY <2>2 DEF Etiny
  <2> HIDE DEF length
  <2>4. length = len - adjust
    BY DEF length
  <2> QED BY <1>4, <2>1, <2>3, <2>4
<1> HIDE DEF workset
<1> QED BY <1>5, <1>6, <1>7 DEF w, sub, n

\* A little below a multiple of u.
LEMMA LessDiv ==
  ASSUME NEW q \in Nat \ {0}, NEW u \in Nat \ {0}, NEW a \in 1 .. u - 1
  PROVE  LET e == q * u - a
         IN  /\ e \in Nat \ {0} /\ e = (q - 1) * u + (u - a)
             /\ e \div u = q - 1 /\ e % u = u - a
<1> DEFINE s == q - 1
           e == q * u - a
           su == s * u
<1>1. s \in Nat /\ q = s + 1
  OBVIOUS
<1>2. (s + 1) * u = s * u + u /\ s * u \in Nat
  <2> HIDE DEF s
  <2> QED BY <1>1
<1>3. e = (su + u) - a
  <2> HIDE DEF s
  <2> QED BY <1>1, <1>2
<1>4. e = su + (u - a) /\ e \in Nat \ {0}
  <2> HIDE DEF e, su
  <2>1. su \in Nat
    BY <1>2 DEF su
  <2> QED BY <1>3, <2>1
<1>5. (s * u + (u - a)) \div u = s /\ (s * u + (u - a)) % u = u - a
  <2> DEFINE r == u - a
  <2>1. r \in 0 .. u - 1 /\ s \in Int
    BY <1>1
  <2> HIDE DEF r, s
  <2> QED BY <2>1, DivUnique DEF r
<1> HIDE DEF e
<1> QED BY <1>4, <1>5 DEF e

\* What is left of a number that borrows when digits of it are dropped.
BorrowLeft(q, d, p, e, u) ==
  LET r == IF d > p THEN 1 ELSE DropResidue(q, d, -1)
      c == IF p - d <= 0 THEN 0 ELSE q \div TenTo[d]
  IN  \/ Tells(r, e % u, u) /\ e \div u = c /\ e % u # 0
      \/ /\ r = -1 /\ p - d >= 1 /\ c >= 1 /\ e \div u = c - 1
         /\ 2 * (e % u) > u /\ e % u # 0

LEMMA BorrowDropped ==
  ASSUME NEW p \in Nat \ {0}, NEW q \in Nat \ {0}, q < TenTo[p], NEW m \in Nat, NEW d \in Nat \ {0},
         NEW a \in Nat \ {0}, 100 * a <= TenTo[m]
  PROVE  LET e == q * TenTo[m] - a
         IN  e \in Nat \ {0} /\ BorrowLeft(q, d, p, e, TenTo[m + d])
<1> DEFINE v == TenTo[m]
           t == TenTo[d]
           u == TenTo[m + d]
           e == q * v - a
           r == IF d > p THEN 1 ELSE DropResidue(q, d, -1)
           c == IF p - d <= 0 THEN 0 ELSE q \div t
           rest == q % t
<1>1. v \in Nat \ {0} /\ t \in Nat \ {0} /\ u = t * v /\ u \in Nat \ {0}
  <2>1. TenTo[m + d] = TenTo[m] * TenTo[d] /\ TenTo[m] \in Nat \ {0} /\ TenTo[d] \in Nat \ {0}
    BY TenSum, Ten
  <2>2. m + d \in Nat
    OBVIOUS
  <2>3. TenTo[m + d] \in Nat \ {0}
    <3> DEFINE i == m + d
    <3> HIDE DEF i
    <3> QED BY <2>2, Ten DEF i
  <2>4. v * t = t * v
    <3>1. v \in Nat /\ t \in Nat
      BY <2>1
    <3> HIDE DEF v, t
    <3> QED BY <3>1
  <2> QED BY <2>1, <2>3, <2>4
<1>2. 100 * a <= v /\ a \in 1 .. v - 1
  <2> HIDE DEF v
  <2>1. 100 * a <= v
    BY DEF v
  <2> QED BY <1>1, <2>1
<1>3. e \in Nat \ {0}
  <2> HIDE DEF v
  <2> QED BY <1>1, <1>2, LessDiv
<1>4. CASE d > p
  <2>1. r = 1 /\ c = 0
    BY <1>4
  <2>2. 10 * TenTo[p] <= t /\ TenTo[p] \in Nat
    BY <1>4, TenGap, Ten
  <2> DEFINE g == TenTo[p]
             gv == g * v
             qv == q * v
  <2>3. qv \in Nat /\ gv \in Nat /\ qv <= gv /\ 10 * gv <= u
    <3>1. q <= g /\ g \in Nat
      BY <2>2
    <3>2. 10 * g <= t
      BY <2>2
    <3> HIDE DEF g, v, t, u
    <3>3. q * v <= g * v /\ q * v \in Nat /\ g * v \in Nat
      BY <1>1, <3>1
    <3>4. (10 * g) * v <= t * v /\ (10 * g) * v = 10 * (g * v)
      BY <1>1, <3>1, <3>2
    <3> QED BY <1>1, <3>3, <3>4
  <2>4. e < u /\ 2 * e < u
    <3> HIDE DEF qv, gv, v, u
    <3>1. e = qv - a
      BY DEF qv
    <3> HIDE DEF e
    <3> QED BY <1>1, <1>3, <2>3, <3>1
  <2>5. e \div u = 0 /\ e % u = e
    <3> HIDE DEF e, u
    <3> QED BY <1>1, <1>3, <2>4
  <2> HIDE DEF e, u, r, c
  <2>6. Tells(r, e % u, u)
    BY <1>1, <1>3, <2>1, <2>4, <2>5 DEF Tells
  <2>7. BorrowLeft(q, d, p, e, u)
    BY <1>3, <2>1, <2>5, <2>6 DEF BorrowLeft, r, c
  <2> QED BY <1>3, <2>7 DEF e, u
<1>5. CASE d <= p
  <2> DEFINE s == q \div t
             b == DropResidue(q, d, -1)
  <2>1. q = s * t + rest /\ s \in Nat /\ rest \in Nat /\ rest < t
    <3> HIDE DEF t
    <3> QED BY <1>1, NatDivMod
  <2>2. /\ rest = 0 => b = -1
        /\ rest # 0 => b \in Nat \ {0} /\ b # 5 /\ (b > 5 <=> 2 * rest > t)
    BY ResidueBelow
  <2>3. r = b
    BY <1>5
  <2>4. d = p => s = 0
    <3>1. ASSUME d = p PROVE s = 0
      <4>1. q < t
        BY <3>1
      <4> HIDE DEF t
      <4> QED BY <1>1, <4>1
    <3> QED BY <3>1
  <2>5. c = s
    <3>1. CASE d = p
      <4>1. p - d <= 0
        BY <3>1
      <4> QED BY <2>4, <3>1, <4>1
    <3>2. CASE d # p
      <4>1. ~(p - d <= 0)
        BY <1>5, <3>2
      <4> QED BY <4>1
    <3> QED BY <3>1, <3>2
  <2>6. CASE rest # 0
    <3> DEFINE w == rest * v - a
    <3>1. rest \in 1 .. t - 1
      <4> HIDE DEF rest, t
      <4> QED BY <1>1, <2>1, <2>6
    <3>2. e \div u = s /\ e % u = w
      <4> HIDE DEF rest, t, v, s
      <4>1. /\ ((s * t + rest) * v - a) \div (t * v) = s
            /\ ((s * t + rest) * v - a) % (t * v) = rest * v - a
        BY <1>1, <1>2, <2>1, <3>1, TakenDiv
      <4>2. e = (s * t + rest) * v - a
        BY <2>1
      <4> HIDE DEF e, u
      <4> QED BY <1>1, <4>1, <4>2
    <3>3. w \in Nat \ {0} /\ Tells(b, w, u)
      <4>1. \E i \in Nat : t = 2 * i
        <5>1. TenTo[d] = 10 * TenTo[d - 1] /\ TenTo[d - 1] \in Nat
          <6>1. d - 1 \in Nat
            OBVIOUS
          <6> QED BY <6>1, TenBefore, Ten
        <5>2. t = 2 * (5 * TenTo[d - 1]) /\ 5 * TenTo[d - 1] \in Nat
          BY <5>1
        <5> QED BY <5>2
      <4>2. PICK i \in Nat : t = 2 * i
        BY <4>1
      <4>3. b \in Nat \ {0} /\ b # 5 /\ (b > 5 <=> 2 * rest > t)
        BY <2>2, <2>6
      <4> HIDE DEF b, rest, t, v, u
      <4>4. rest * v - a \in Nat \ {0} /\ Tells(b, rest * v - a, t * v)
        <5>1. t \in Nat \ {0} /\ v \in Nat \ {0}
          BY <1>1
        <5>2. b \in Nat \ {0} /\ b # 5
          BY <4>3
        <5>3. b > 5 <=> 2 * rest > t
          BY <4>3
        <5> QED BY <1>2, <3>1, <4>2, <5>1, <5>2, <5>3, RestLess
      <4> QED BY <1>1, <4>4
    <3> HIDE DEF e, u, r, c, s, b, w
    <3>4. Tells(r, e % u, u) /\ e \div u = c /\ e % u # 0
      BY <2>3, <2>5, <3>2, <3>3
    <3>5. BorrowLeft(q, d, p, e, u)
      BY <3>4 DEF BorrowLeft, r, c
    <3> QED BY <1>3, <3>5 DEF e, u
  <2>7. CASE rest = 0
    <3>1. r = -1
      BY <2>2, <2>3, <2>7
    <3>2. s \in Nat \ {0} /\ q = s * t
      <4> HIDE DEF s, rest, t
      <4>1. s * t \in Nat /\ 0 * t = 0
        BY <1>1, <2>1
      <4>2. q = s * t
        BY <2>1, <2>7, <4>1
      <4> QED BY <2>1, <4>1, <4>2
    <3>3. p - d >= 1
      <4>1. d # p
        <5> HIDE DEF s
        <5> QED BY <2>4, <3>2
      <4> QED BY <1>5, <4>1
    <3>4. e = s * u - a
      <4> HIDE DEF s, t, v, u
      <4>1. (s * t) * v = s * (t * v)
        BY <1>1, <3>2
      <4> QED BY <1>1, <3>2, <4>1
    <3>5. a \in 1 .. u - 1 /\ 2 * (u - a) > u /\ u - a # 0
      <4>1. v <= u
        <5> HIDE DEF t, v, u
        <5>1. \E i \in Nat : t = 1 + i
          <6>1. t - 1 \in Nat /\ t = 1 + (t - 1)
            BY <1>1
          <6> QED BY <6>1
        <5>2. PICK i \in Nat : t = 1 + i
          BY <5>1
        <5>3. (1 + i) * v = v + i * v /\ i * v \in Nat
          BY <1>1
        <5> QED BY <1>1, <5>2, <5>3
      <4> HIDE DEF v, u
      <4> QED BY <1>1, <1>2, <4>1
    <3>6. e \div u = s - 1 /\ e % u = u - a
      <4> HIDE DEF s, u
      <4>1. (s * u - a) \div u = s - 1 /\ (s * u - a) % u = u - a
        <5>1. s \in Nat \ {0}
          BY <3>2
        <5>2. u \in Nat \ {0}
          BY <1>1
        <5>3. a \in 1 .. u - 1
          BY <3>5
        <5> QED BY <5>1, <5>2, <5>3, LessDiv
      <4> HIDE DEF e
      <4> QED BY <3>4, <4>1
    <3>7. c >= 1 /\ e \div u = c - 1 /\ 2 * (e % u) > u /\ e % u # 0
      <4> HIDE DEF c, s, e, u
      <4> QED BY <2>5, <3>2, <3>5, <3>6
    <3> HIDE DEF e, u, r, c
    <3>8. BorrowLeft(q, d, p, e, u)
      BY <3>1, <3>3, <3>7 DEF BorrowLeft, r, c
    <3> QED BY <1>3, <3>8 DEF e, u
  <2> QED BY <2>6, <2>7
<1> QED BY <1>4, <1>5

\* 99.. of k digits.
LEMMA NinesLength ==
  ASSUME NEW k \in Nat \ {0}
  PROVE  TenTo[k] - 1 \in Nat \ {0} /\ Places(TenTo[k] - 1, 10) = k
<1> DEFINE c == TenTo[k] - 1
<1>1. TenTo[k] = 10 * TenTo[k - 1] /\ TenTo[k - 1] \in Nat \ {0} /\ TenTo[k] \in Nat
  <2>1. k - 1 \in Nat /\ k \in Nat
    OBVIOUS
  <2> QED BY <2>1, TenBefore, Ten
<1>2. c \in Nat /\ c # 0 /\ c < TenTo[k] /\ c >= TenTo[k - 1]
  BY <1>1
<1> HIDE DEF c
<1> QED BY <1>2, LengthIs DEF c

\* A number at Etiny that needs no shift.
LEMMA EtinyLeaves ==
  ASSUME NEW neg, NEW dg, NEW cf, cf = 0 => dg = 1, NEW t \in Int, NEW r, NEW st, "Inexact" \in st
  PROVE  LET out == AtEtiny(Work(Fin(neg, dg, cf, t), r, st), t)
         IN  /\ out.n = Fin(neg, dg, cf, t)
             /\ out.status = (st \cup {"Underflow"}) \cup When(cf = 0, {"Clamped"})
<1> DEFINE n == Fin(neg, dg, cf, t)
           w == Work(n, r, st)
<1>1. w.n = n /\ w.residue = r /\ w.status = st /\ n.exp = t
  BY WorkFields, FinFields
<1>2. ISZERO(n) <=> cf = 0
  <2>1. n.kind = "fin" /\ n.coef = cf /\ n.digits = dg
    BY FinFields
  <2> HIDE DEF n
  <2> QED BY <2>1 DEF ISZERO, IsSpecial
<1> HIDE DEF n
<1> HIDE DEF w
<1>3. ShiftBack(w.n, t) = n
  <2>1. ~(t > t)
    OBVIOUS
  <2> QED BY <1>1, <2>1 DEF ShiftBack
<1>4. Underflowed(w) = Work(n, r, st \cup {"Underflow"})
  BY <1>1 DEF Underflowed, Flagged, When
<1>5. Holding(Underflowed(w), n) = Work(n, r, st \cup {"Underflow"})
  <2> DEFINE uw == Work(n, r, st \cup {"Underflow"})
  <2>1. uw.residue = r /\ uw.status = st \cup {"Underflow"}
    BY WorkFields
  <2> HIDE DEF uw
  <2> QED BY <1>4, <2>1 DEF Holding, uw
<1>6. AtEtiny(w, t) = Flagged(Work(n, r, st \cup {"Underflow"}), When(ISZERO(n), {"Clamped"}))
  BY <1>3, <1>5 DEF AtEtiny
<1>7. When(ISZERO(n), {"Clamped"}) = When(cf = 0, {"Clamped"})
  BY <1>2 DEF When
<1>8. AtEtiny(w, t) = Work(n, r, (st \cup {"Underflow"}) \cup When(cf = 0, {"Clamped"}))
  <2> DEFINE f == When(cf = 0, {"Clamped"})
             su == st \cup {"Underflow"}
  <2> HIDE DEF f, su
  <2>1. Flagged(Work(n, r, su), f) = Work(n, r, su \cup f)
    <3> DEFINE v == Work(n, r, su)
    <3>1. v.n = n /\ v.residue = r /\ v.status = su
      BY WorkFields
    <3> HIDE DEF v
    <3> QED BY <3>1 DEF Flagged, v
  <2> QED BY <1>6, <1>7, <2>1 DEF f, su
<1> QED BY <1>8, WorkFields DEF w, n

\* Digits dropped from a number that borrows.
BorrowCuts(p, q, y, d, z, length, r, c, len) ==
  /\ p \in Nat /\ q \in Nat \ {0} /\ y \in Int /\ d \in Nat \ {0}
  /\ z \in Int /\ y + d = z /\ length \in Int /\ length + d = p
  /\ d > p => r = 1
  /\ ~(d > p) => r = DropResidue(q, d, -1)
  /\ length <= 0 => c = 0 /\ len = 1
  /\ ~(length <= 0) => c = q \div TenTo[d] /\ len = length

LEMMA BorrowCut ==
  ASSUME NEW neg, NEW p, NEW q, NEW y, NEW d, NEW z, NEW r, NEW length, NEW c, NEW len,
         BorrowCuts(p, q, y, d, z, length, r, c, len), NEW st, Inexactness \subseteq st
  PROVE  decSetCoeff(Work(Fin(neg, p, q, y), -1, st), length, q, p) = Work(Fin(neg, len, c, z), r, st)
<1> DEFINE res == -1
<1>0. /\ p \in Nat /\ q \in Nat \ {0} /\ y \in Int /\ d \in Nat \ {0}
      /\ z \in Int /\ y + d = z /\ length \in Int /\ length + d = p
      /\ d > p => r = 1
      /\ ~(d > p) => r = DropResidue(q, d, -1)
      /\ length <= 0 => c = 0 /\ len = 1
      /\ ~(length <= 0) => c = q \div TenTo[d] /\ len = length
  BY DEF BorrowCuts
<1>1. p - length = d /\ ~(p - length <= 0) /\ length \in Int
  BY <1>0
<1>2. decSetCoeff(Work(Fin(neg, p, q, y), res, st), length, q, p) = LeftOver(neg, y, res, st, length, q, p)
  <2>1. ~(p - length <= 0)
    BY <1>1
  <2> HIDE DEF res
  <2> QED BY <1>1, <2>1, Cut
<1>3. LeftOver(neg, y, res, st, length, q, p) = Inexactly(Work(Fin(neg, len, c, z), r, st \cup {"Rounded"}))
  <2> DEFINE old == IF res > 1 THEN 1 ELSE res
             rr == IF d > p THEN IF old <= 0 /\ q # 0 THEN 1 ELSE old ELSE DropResidue(q, d, old)
  <2>1. old = -1
    OBVIOUS
  <2>2. rr = r
    <3>1. old <= 0 /\ q # 0
      BY <1>0, <2>1
    <3> HIDE DEF old
    <3> QED BY <1>0, <2>1, <3>1
  <2>4. (IF length <= 0 THEN 1 ELSE length) = len /\ (IF length <= 0 THEN 0 ELSE q \div TenTo[d]) = c
    <3> DEFINE f == q \div TenTo[d]
    <3>1. ~(length <= 0) => c = f
      BY <1>0
    <3> HIDE DEF f
    <3> QED BY <1>0, <3>1
  <2>3. LeftOver(neg, y, res, st, length, q, p)
          = Inexactly(Work(Fin(neg, IF length <= 0 THEN 1 ELSE length,
                               IF length <= 0 THEN 0 ELSE q \div TenTo[d], z), rr, st \cup {"Rounded"}))
    <3> HIDE DEF res
    <3> QED BY <1>0, <1>1 DEF LeftOver, old, rr
  <2> HIDE DEF rr, res
  <2> QED BY <2>2, <2>3, <2>4
<1>4. st \cup {"Rounded"} = st
  BY DEF Inexactness
<1>5. Inexactly(Work(Fin(neg, len, c, z), r, st)) = Work(Fin(neg, len, c, z), r, st)
  <2> DEFINE n == Fin(neg, len, c, z)
             w == Work(n, r, st)
  <2>1. w.n = n /\ w.residue = r /\ w.status = st
    BY WorkFields
  <2>2. st \cup When(r # 0, {"Inexact", "Rounded"}) = st
    BY DEF When, Inexactness
  <2> HIDE DEF n
  <2> HIDE DEF w
  <2>3. Inexactly(w) = Work(n, r, st)
    BY <2>1, <2>2 DEF Inexactly, Flagged
  <2> QED BY <2>3 DEF w, n
<1>6. decSetCoeff(Work(Fin(neg, p, q, y), res, st), length, q, p) = Work(Fin(neg, len, c, z), r, st)
  <2> HIDE DEF res
  <2> QED BY <1>2, <1>3, <1>4, <1>5
<1> QED BY <1>6 DEF res

\* The rounding at Etiny, of a number that borrows.
LEMMA BorrowRounded ==
  ASSUME NEW mode \in Roundings, NEW neg \in BOOLEAN, NEW t \in Int,
         NEW ws, ws.round = mode, Etiny(ws) = t,
         NEW len \in Nat \ {0}, NEW c \in Nat \ {0}, Places(c, 10) = len,
         NEW unit \in Nat \ {0}, NEW rem \in Nat, 2 * rem > unit,
         NEW st, st = Inexactness \cup {"Subnormal"}
  PROVE  LET sum == (c - 1) + Up(mode, neg, c - 1, rem, unit)
             out == AtEtiny(decApplyRound(Work(Fin(neg, len, c, t), -1, st), ws), t)
         IN  /\ out.n = Ref!Finite(neg, sum, t)
             /\ out.status = (st \cup {"Underflow"}) \cup When(sum = 0, {"Clamped"})
<1> DEFINE n == Fin(neg, len, c, t)
           w == Work(n, -1, st)
           s == c - 1
           up == Up(mode, neg, s, rem, unit)
           sum == s + up
           b == bump(n, mode, -1)
           out == AtEtiny(decApplyRound(w, ws), t)
<1>1. s \in Nat /\ c = s + 1 /\ (c % 5 = 1 <=> s % 5 = 0)
  <2>1. s \in Nat /\ c = s + 1
    OBVIOUS
  <2> HIDE DEF s
  <2> QED BY <2>1
<1>2. b \in {0, -1} /\ (b = 0 <=> up = 1) /\ (b = -1 <=> up = 0)
  <2>1. n.coef = c /\ n.neg = neg
    BY FinFields
  <2> HIDE DEF n, s
  <2>2. b \in {0, -1}
    BY <1>1, <2>1, BumpDown
  <2>3. b = 0 <=> up = 1
    BY <1>1, <2>1, BumpDown
  <2>4. b = -1 <=> up = 0
    BY <1>1, <2>1, BumpDown
  <2> QED BY <2>2, <2>3, <2>4
<1>3. "Inexact" \in st
  BY DEF Inexactness
<1>4. /\ b = 0 => decApplyRound(w, ws) = w
      /\ b = -1 /\ c = TenTo[len - 1] => decApplyRound(w, ws) = BumpHundreds(w, ws)
      /\ b = -1 /\ c # TenTo[len - 1] => decApplyRound(w, ws) = Work(Fin(neg, len, c - 1, t), -1, st)
  <2>1. b = bump(Fin(neg, len, c, t), ws.round, -1) /\ b \in {0, -1}
    BY <1>2
  <2> HIDE DEF b
  <2> QED BY <2>1, AppliedBelow
<1>5. c < TenTo[len] /\ c >= TenTo[len - 1] /\ TenTo[len - 1] \in Nat \ {0}
  <2>1. len - 1 \in Nat
    OBVIOUS
  <2> QED BY <2>1, Lengths, Ten
<1>6. CASE b = 0
  <2>1. up = 1 /\ sum = c
    <3>1. up = 1
      BY <1>2, <1>6
    <3> HIDE DEF up, s
    <3> QED BY <1>1, <3>1
  <2>2. c = 0 => len = 1
    OBVIOUS
  <2>3. LET o == AtEtiny(Work(Fin(neg, len, c, t), -1, st), t)
        IN  o.n = Fin(neg, len, c, t) /\ o.status = (st \cup {"Underflow"}) \cup When(c = 0, {"Clamped"})
    <3> DEFINE r == -1
    <3> HIDE DEF r
    <3>1. LET o == AtEtiny(Work(Fin(neg, len, c, t), r, st), t)
          IN  o.n = Fin(neg, len, c, t) /\ o.status = (st \cup {"Underflow"}) \cup When(c = 0, {"Clamped"})
      BY <1>3, <2>2, EtinyLeaves
    <3> QED BY <3>1 DEF r
  <2>4. Ref!Finite(neg, c, t) = Fin(neg, len, c, t)
    BY FinIs
  <2>5. out = AtEtiny(Work(Fin(neg, len, c, t), -1, st), t)
    <3> HIDE DEF b
    <3> QED BY <1>4, <1>6
  <2> HIDE DEF sum, out
  <2>6. out.n = Ref!Finite(neg, sum, t) /\ out.status = (st \cup {"Underflow"}) \cup When(sum = 0, {"Clamped"})
    BY <2>1, <2>3, <2>4, <2>5
  <2> QED BY <2>6 DEF out, sum
<1>7. CASE b = -1 /\ c # TenTo[len - 1]
  <2>1. up = 0 /\ sum = s
    <3>1. up = 0
      BY <1>2, <1>7
    <3> HIDE DEF up, s
    <3> QED BY <1>1, <3>1
  <2>2. s # 0 /\ Places(s, 10) = len
    <3>1. s < TenTo[len] /\ s >= TenTo[len - 1] /\ s \in Nat /\ s # 0
      <4> HIDE DEF b, s
      <4>1. TenTo[len] \in Nat
        BY Ten
      <4> QED BY <1>1, <1>5, <1>7, <4>1
    <3> HIDE DEF s
    <3> QED BY <3>1, LengthIs
  <2>3. LET o == AtEtiny(Work(Fin(neg, len, s, t), -1, st), t)
        IN  o.n = Fin(neg, len, s, t) /\ o.status = (st \cup {"Underflow"}) \cup When(s = 0, {"Clamped"})
    <3> DEFINE r == -1
               ln == len
               su == st
    <3>1. (s = 0 => ln = 1) /\ "Inexact" \in su
      BY <1>3, <2>2
    <3> HIDE DEF r, s, ln, su
    <3>2. LET o == AtEtiny(Work(Fin(neg, ln, s, t), r, su), t)
          IN  o.n = Fin(neg, ln, s, t) /\ o.status = (su \cup {"Underflow"}) \cup When(s = 0, {"Clamped"})
      BY <3>1, EtinyLeaves
    <3> QED BY <3>2 DEF r, ln, su
  <2>4. Ref!Finite(neg, s, t) = Fin(neg, len, s, t)
    <3> HIDE DEF s
    <3> QED BY <2>2, FinIs
  <2>5. decApplyRound(w, ws) = Work(Fin(neg, len, s, t), -1, st)
    BY <1>4, <1>7
  <2>6. out = AtEtiny(Work(Fin(neg, len, s, t), -1, st), t)
    <3> HIDE DEF w, s
    <3> QED BY <2>5
  <2> HIDE DEF sum, out, s
  <2>7. out.n = Ref!Finite(neg, sum, t) /\ out.status = (st \cup {"Underflow"}) \cup When(sum = 0, {"Clamped"})
    BY <2>1, <2>3, <2>4, <2>6
  <2> QED BY <2>7 DEF out, sum, s
<1>8. CASE b = -1 /\ c = TenTo[len - 1]
  <2> DEFINE dg == IF len = 1 THEN 1 ELSE len - 1
             v == TenTo[len - 1] - 1
  <2>1. up = 0 /\ sum = s /\ v = s
    <3>1. up = 0
      BY <1>2, <1>8
    <3>2. v = s
      BY <1>8
    <3> HIDE DEF up, s, v
    <3> QED BY <1>1, <3>1, <3>2
  <2>2. Places(s, 10) = dg /\ (s = 0 => dg = 1)
    <3>1. CASE len = 1
      <4>1. v = 0
        BY <3>1, TenZero
      <4> HIDE DEF v, s
      <4> QED BY <2>1, <3>1, <4>1, PlacesZero
    <3>2. CASE len # 1
      <4>1. len - 1 \in Nat \ {0}
        BY <3>2
      <4> DEFINE k == len - 1
      <4>2. k \in Nat \ {0}
        BY <4>1
      <4> HIDE DEF k
      <4>3. TenTo[k] - 1 \in Nat \ {0} /\ Places(TenTo[k] - 1, 10) = k
        BY <4>2, NinesLength
      <4>4. v # 0 /\ Places(v, 10) = dg
        BY <3>2, <4>3 DEF k
      <4> HIDE DEF v, s
      <4> QED BY <2>1, <4>4
    <3> QED BY <3>1, <3>2
  <2>3. decApplyRound(w, ws) = Work(Fin(neg, dg, s, t), -1, st \cup BelowNmin)
    <3>1. BumpHundreds(Work(Fin(neg, len, c, t), -1, st), ws) = Work(Fin(neg, dg, v, t), -1, st \cup BelowNmin)
      <4> DEFINE ln == len
                 y == t
                 cc == c
                 su == st
      <4>1. /\ ln \in Int /\ y \in Int /\ y = Etiny(ws)
            /\ v + 1 = TenTo[ln - 1] /\ v \in Int /\ (ln = 1 => dg = 1) /\ (ln # 1 => dg = ln - 1)
        BY <1>5
      <4> HIDE DEF ln, y, cc, su, v, dg
      <4>2. BumpHundreds(Work(Fin(neg, ln, cc, y), -1, su), ws)
              = Work(Fin(neg, dg, v, y), -1, su \cup BelowNmin)
        BY <4>1, NinesBelowIs
      <4> QED BY <4>2 DEF ln, y, cc, su
    <3>2. v = s
      BY <2>1
    <3>3. decApplyRound(w, ws) = BumpHundreds(w, ws)
      BY <1>4, <1>8
    <3> HIDE DEF v, s, dg
    <3> QED BY <3>1, <3>2, <3>3
  <2>4. (st \cup BelowNmin) \cup {"Underflow"} = st \cup {"Underflow"} /\ "Inexact" \in st \cup BelowNmin
    BY DEF BelowNmin, Inexactness
  <2>5. LET o == AtEtiny(Work(Fin(neg, dg, s, t), -1, st \cup BelowNmin), t)
        IN  o.n = Fin(neg, dg, s, t)
            /\ o.status = ((st \cup BelowNmin) \cup {"Underflow"}) \cup When(s = 0, {"Clamped"})
    <3> DEFINE r == -1
               su == st \cup BelowNmin
    <3>1. "Inexact" \in su
      BY <2>4
    <3> HIDE DEF r, s, su, dg
    <3>2. LET o == AtEtiny(Work(Fin(neg, dg, s, t), r, su), t)
          IN  o.n = Fin(neg, dg, s, t) /\ o.status = (su \cup {"Underflow"}) \cup When(s = 0, {"Clamped"})
      BY <3>1, <2>2, EtinyLeaves
    <3> QED BY <3>2 DEF r, su
  <2>6. Ref!Finite(neg, s, t) = Fin(neg, dg, s, t)
    <3> HIDE DEF s, dg
    <3> QED BY <2>2, FinIs
  <2>7. out = AtEtiny(Work(Fin(neg, dg, s, t), -1, st \cup BelowNmin), t)
    <3> HIDE DEF w, s, dg
    <3> QED BY <2>3
  <2> HIDE DEF sum, out, s, dg, v
  <2>8. out.n = Ref!Finite(neg, sum, t) /\ out.status = (st \cup {"Underflow"}) \cup When(sum = 0, {"Clamped"})
    BY <2>1, <2>4, <2>5, <2>6, <2>7
  <2> QED BY <2>8 DEF out, sum, s
<1> QED BY <1>2, <1>6, <1>7, <1>8

\* Below the normal range.
LEMMA BorrowTiny ==
  ASSUME NEW set, Settled(set), NEW neg \in BOOLEAN, NEW a \in Nat \ {0}, NEW x \in Int,
         NEW m \in Nat, NEW q \in Nat, q >= TenTo[set.digits - 1], q < TenTo[set.digits],
         100 * a <= TenTo[m], x + m < Etiny(set)
  PROVE  Gives(decFinalize(Work(Fin(neg, set.digits, q, x + m), -1, Inexactness), set),
               Ref!RoundTo(neg, q * TenTo[m] - a, x, set))
<1> DEFINE p == set.digits
           t == Etiny(set)
           y == x + m
           d == t - y
           n == Fin(neg, p, q, y)
           w == Work(n, -1, Inexactness)
           st == Inexactness \cup {"Subnormal"}
           e == q * TenTo[m] - a
           unit == TenTo[m + d]
           c == IF p - d <= 0 THEN 0 ELSE q \div TenTo[d]
           r == IF d > p THEN 1 ELSE DropResidue(q, d, -1)
           len == IF p - d <= 0 THEN 1 ELSE p - d
           sum == Rounded(set.round, neg, e, m + d)
           left == Work(Fin(neg, len, c, t), r, st)
           out == decFinalize(w, set)
<1>1. /\ p \in Nat /\ p \in Nat \ {0} /\ set.round \in Roundings /\ set.emin \in Int
      /\ t \in Int /\ t = (set.emin - p) + 1
  BY RangeIs DEF Settled
<1>2. y \in Int /\ d \in Nat \ {0} /\ y + d = t /\ m + d = t - x /\ m + d \in Nat
  <2>1. y < t
    OBVIOUS
  <2> HIDE DEF t
  <2> QED BY <1>1, <2>1
<1>3. q \in Nat \ {0} /\ Places(q, 10) = p
  <2> DEFINE k == p
  <2>1. k \in Nat \ {0} /\ k - 1 \in Nat /\ q >= TenTo[k - 1] /\ q < TenTo[k]
    BY <1>1
  <2> HIDE DEF k
  <2>2. TenTo[k - 1] \in Nat \ {0}
    BY <2>1, Ten
  <2>3. q # 0
    BY <2>1, <2>2
  <2>4. Places(q, 10) = k
    BY <2>1, LengthIs
  <2> QED BY <2>3, <2>4 DEF k
<1>4. e \in Nat \ {0} /\ BorrowLeft(q, d, p, e, unit)
  <2> HIDE DEF d, p
  <2>1. q < TenTo[p]
    BY DEF p
  <2> QED BY <1>1, <1>2, <1>3, <2>1, BorrowDropped
<1>5. x + Places(e, 10) - 1 < set.emin
  <2> DEFINE l == Places(e, 10)
  <2>1. l \in Nat \ {0}
    <3> HIDE DEF e
    <3> QED BY <1>4, Lengths
  <2>2. l <= p + m
    <3> DEFINE g == TenTo[p]
               v == TenTo[m]
    <3>1. TenTo[p + m] = g * v /\ g \in Nat /\ v \in Nat \ {0} /\ p + m \in Nat \ {0}
      <4> DEFINE k == p
      <4>1. k \in Nat /\ k + m \in Nat \ {0}
        BY <1>1
      <4> HIDE DEF k
      <4>2. TenTo[k + m] = TenTo[k] * TenTo[m] /\ TenTo[k] \in Nat /\ TenTo[m] \in Nat \ {0}
        BY <4>1, TenSum, Ten
      <4> QED BY <4>1, <4>2 DEF k
    <3>2. q <= g
      BY <1>3, <3>1
    <3> HIDE DEF g, v
    <3>3. q * v <= g * v /\ q * v \in Nat /\ g * v \in Nat
      BY <1>3, <3>1, <3>2
    <3>4. e < g * v
      <4> DEFINE qv == q * v
                 gv == g * v
      <4>1. e = qv - a
        BY DEF v
      <4> HIDE DEF qv, gv, e
      <4> QED BY <3>3, <4>1 DEF qv, gv
    <3> HIDE DEF e, p
    <3> QED BY <1>4, <3>1, <3>4, FitsIn
  <2> HIDE DEF l, t, p
  <2>3. x + l - 1 = (x + l) - 1 /\ (x + l) - 1 < set.emin
    BY <1>1, <1>2, <2>1, <2>2
  <2> QED BY <2>3 DEF l
<1>6. e % unit # 0
  <2> HIDE DEF e, unit, d, p
  <2> QED BY <1>4 DEF BorrowLeft
<1>7. LET ref == Ref!RoundTo(neg, e, x, set)
      IN  /\ ref.n = Ref!Finite(neg, sum, t)
          /\ ref.status = (st \cup {"Underflow"}) \cup When(sum = 0, {"Clamped"})
  <2> DEFINE i == m + d
  <2>1. i \in Nat /\ i = Etiny(set) - x /\ e % TenTo[i] # 0 /\ x + Places(e, 10) - 1 < set.emin
    BY <1>2, <1>5, <1>6
  <2> HIDE DEF i, e
  <2>2. LET sm == Rounded(set.round, neg, e, i)
            ref == Ref!RoundTo(neg, e, x, set)
        IN  /\ ref.n = Ref!Finite(neg, sm, Etiny(set))
            /\ ref.status = (Inexactness \cup {"Subnormal"}) \cup {"Underflow"} \cup When(sm = 0, {"Clamped"})
    BY <1>4, <2>1, TinyGives
  <2> QED BY <2>2 DEF i
<1>8. out = decSetSubnormal(w, set)
  <2>1. w.n = n /\ w.residue = -1 /\ n.digits = p /\ n.exp = y /\ n.coef = q
    BY FinFields, WorkFields
  <2> HIDE DEF n, y
  <2> HIDE DEF w
  <2>2. y < (set.emin - p) + 1 /\ set.emin - p + 1 = (set.emin - p) + 1
    <3> HIDE DEF t, p
    <3> QED BY <1>1, <1>2
  <2> HIDE DEF p
  <2> QED BY <2>1, <2>2 DEF decFinalize, InRange
<1>9. PICK ws : /\ ws.round = set.round /\ ws.emax = set.emax
                /\ Etiny(ws) = (set.emin - p) + 1
                /\ decSetSubnormal(w, set) =
                     AtEtiny(decApplyRound(decSetCoeff(Work(n, -1, st), p - d, q, p), ws), t)
  <2> DEFINE res == -1
             ss == Inexactness
             k == p
             z == y
             qq == q
  <2>1. k \in Nat /\ z < Etiny(set) /\ z \in Int /\ qq \in Nat \ {0}
    BY <1>1, <1>2, <1>3
  <2> HIDE DEF res, ss, k, z, qq
  <2>2. LET ww == Work(Fin(neg, k, qq, z), res, ss)
            sub == Work(Fin(neg, k, qq, z), res, ss \cup {"Subnormal"})
            length == k - (Etiny(set) - z)
        IN  \E workset :
               /\ workset.round = set.round /\ workset.emax = set.emax
               /\ Etiny(workset) = (set.emin - k) + 1
               /\ decSetSubnormal(ww, set) =
                    AtEtiny(decApplyRound(decSetCoeff(sub, length, qq, k), workset), Etiny(set))
    BY <2>1, SubnormalWithin
  <2> QED BY <2>2 DEF res, ss, k, z, qq
<1>10. decSetCoeff(Work(n, -1, st), p - d, q, p) = left
  <2> DEFINE k == p
             j == d
             z == y
             qq == q
             u == t
             ll == p - d
  <2>1. k \in Nat /\ j \in Nat \ {0} /\ z \in Int /\ qq \in Nat \ {0} /\ u \in Int /\ z + j = u
        /\ ll \in Int /\ ll + j = k
    BY <1>1, <1>2, <1>3
  <2>2. BorrowCuts(k, qq, z, j, u, ll, r, c, len)
    <3> DEFINE f == DropResidue(q, d, -1)
               g == q \div TenTo[d]
    <3>1. /\ d > p => r = 1
          /\ ~(d > p) => r = f
          /\ p - d <= 0 => c = 0 /\ len = 1
          /\ ~(p - d <= 0) => c = g /\ len = p - d
      <4> HIDE DEF f, g, p, d
      <4> QED BY DEF f, g
    <3> HIDE DEF r, c, len, p, d
    <3> QED BY <2>1, <3>1 DEF BorrowCuts
  <2>3. Inexactness \subseteq st
    OBVIOUS
  <2> HIDE DEF k, j, z, qq, u, ll, r, c, len, st
  <2>4. decSetCoeff(Work(Fin(neg, k, qq, z), -1, st), ll, qq, k) = Work(Fin(neg, len, c, u), r, st)
    BY <2>2, <2>3, BorrowCut
  <2> QED BY <2>4 DEF k, j, z, qq, u, ll
<1>11. out = AtEtiny(decApplyRound(left, ws), t)
  <2> HIDE DEF out, left, w, n, d, st, p, t
  <2> QED BY <1>8, <1>9, <1>10
<1>12. unit \in Nat \ {0} /\ e \div unit \in Nat /\ e % unit \in Nat
  <2> DEFINE i == m + d
  <2>1. i \in Nat
    BY <1>2
  <2> HIDE DEF i
  <2>2. TenTo[i] \in Nat \ {0}
    BY <2>1, Ten
  <2>3. unit \in Nat \ {0}
    BY <2>2 DEF i
  <2> HIDE DEF unit, e
  <2>4. e \in Nat
    BY <1>4
  <2> QED BY <2>3, <2>4, NatDivMod
<1>13. len \in Nat \ {0} /\ c \in Nat /\ c < TenTo[len]
       /\ ((c >= TenTo[len - 1] /\ len < p) \/ (c = 0 /\ len = 1))
       /\ (c # 0 => Places(c, 10) = len)
  <2>1. CASE p - d <= 0
    <3>1. len = 1 /\ c = 0
      BY <2>1
    <3>2. TenTo[1] = 10 * TenTo[0] /\ TenTo[0] = 1
      <4> DEFINE z == 0
      <4>1. z \in Nat /\ z + 1 = 1
        OBVIOUS
      <4> HIDE DEF z
      <4>2. TenTo[z + 1] = 10 * TenTo[z]
        BY <4>1, TenNext
      <4> QED BY <4>1, <4>2, TenZero DEF z
    <3> HIDE DEF len, c
    <3> QED BY <3>1, <3>2
  <2>2. CASE ~(p - d <= 0)
    <3>1. len = p - d /\ c = q \div TenTo[d]
      BY <2>2
    <3>2. d \in Nat /\ d < p /\ len \in Nat \ {0} /\ len < p
      <4> HIDE DEF d, p, len
      <4> QED BY <1>1, <1>2, <2>2, <3>1
    <3>3. c \in Nat \ {0} /\ Places(c, 10) = len
      <4> HIDE DEF d
      <4>1. d < Places(q, 10)
        BY <1>3, <3>2
      <4>2. q \div TenTo[d] \in Nat \ {0} /\ Places(q \div TenTo[d], 10) = Places(q, 10) - d
        BY <1>3, <3>2, <4>1, CutLength
      <4> HIDE DEF c, len, p
      <4> QED BY <1>3, <3>1, <4>2
    <3> HIDE DEF c, len, p, d
    <3> QED BY <3>2, <3>3, Lengths
  <2> QED BY <2>1, <2>2
<1>14. /\ out.n = Ref!Finite(neg, sum, t)
       /\ out.status = (st \cup {"Underflow"}) \cup When(sum = 0, {"Clamped"})
  <2>1. \/ Tells(r, e % unit, unit) /\ e \div unit = c /\ e % unit # 0
        \/ /\ r = -1 /\ p - d >= 1 /\ c >= 1 /\ e \div unit = c - 1
           /\ 2 * (e % unit) > unit /\ e % unit # 0
    <3> HIDE DEF e, unit
    <3> QED BY <1>4 DEF BorrowLeft
  <2> DEFINE rem == e % unit
  <2>2. sum = (e \div unit) + Up(set.round, neg, e \div unit, rem, unit)
    BY DEF Rounded
  <2>3. CASE Tells(r, e % unit, unit) /\ e \div unit = c /\ e % unit # 0
    <3>1. LET sm == c + Up(set.round, neg, c, rem, unit)
              ww == Work(Fin(neg, len, c, Etiny(set)), r, st)
              o == AtEtiny(decApplyRound(ww, ws), Etiny(set))
          IN  /\ o.n = Ref!Finite(neg, sm, Etiny(set))
              /\ o.status = st \cup When("Inexact" \in st, {"Underflow"}) \cup When(sm = 0, {"Clamped"})
      <4> DEFINE ll == len
                 cc == c
                 uu == unit
                 mm == rem
                 rr == r
                 ss == st
      <4>1. /\ ll \in Nat \ {0} /\ cc \in Nat /\ cc < TenTo[ll]
            /\ (cc >= TenTo[ll - 1] /\ ll < set.digits) \/ (cc = 0 /\ ll = 1)
            /\ uu \in Nat \ {0} /\ mm \in Nat /\ Tells(rr, mm, uu)
            /\ ws.round = set.round /\ ws.emax = set.emax
        BY <1>9, <1>12, <1>13, <2>3
      <4> HIDE DEF ll, cc, uu, mm, rr, ss
      <4>2. LET sm == cc + Up(set.round, neg, cc, mm, uu)
                ww == Work(Fin(neg, ll, cc, Etiny(set)), rr, ss)
                o == AtEtiny(decApplyRound(ww, ws), Etiny(set))
            IN  /\ o.n = Ref!Finite(neg, sm, Etiny(set))
                /\ o.status = ss \cup When("Inexact" \in ss, {"Underflow"}) \cup When(sm = 0, {"Clamped"})
        BY <4>1, AtEtinyRight
      <4> QED BY <4>2 DEF ll, cc, uu, mm, rr, ss
    <3>2. When("Inexact" \in st, {"Underflow"}) = {"Underflow"}
      BY DEF When, Inexactness
    <3>3. e \div unit = c
      BY <2>3
    <3> HIDE DEF out, rem, e, unit, c, r, len, st, p
    <3>4. c + Up(set.round, neg, c, rem, unit) = sum
      <4> HIDE DEF sum
      <4> QED BY <2>2, <3>3
    <3> HIDE DEF sum
    <3> QED BY <1>11, <3>1, <3>2, <3>4 DEF left, t
  <2>4. CASE /\ r = -1 /\ p - d >= 1 /\ c >= 1 /\ e \div unit = c - 1
             /\ 2 * (e % unit) > unit /\ e % unit # 0
    <3>1. LET sm == (c - 1) + Up(set.round, neg, c - 1, rem, unit)
              o == AtEtiny(decApplyRound(Work(Fin(neg, len, c, t), -1, st), ws), t)
          IN  /\ o.n = Ref!Finite(neg, sm, t)
              /\ o.status = (st \cup {"Underflow"}) \cup When(sm = 0, {"Clamped"})
      <4> DEFINE ll == len
                 cc == c
                 uu == unit
                 mm == rem
                 ss == st
                 tt == t
                 mode == set.round
      <4>1. mm \in Nat /\ uu \in Nat \ {0} /\ 2 * mm > uu
        <5>1. rem \in Nat /\ unit \in Nat \ {0}
          BY <1>12
        <5> QED BY <2>4, <5>1
      <4>2. cc \in Nat \ {0}
        <5>1. c # 0 /\ c \in Nat
          <6> HIDE DEF c
          <6> QED BY <1>13, <2>4
        <5> QED BY <5>1
      <4>3. ll \in Nat \ {0} /\ Places(cc, 10) = ll
        BY <1>13, <4>2
      <4>4. tt \in Int /\ ws.round = mode /\ Etiny(ws) = tt /\ mode \in Roundings
        BY <1>1, <1>9
      <4>5. ss = Inexactness \cup {"Subnormal"}
        OBVIOUS
      <4> HIDE DEF ll, cc, uu, mm, ss, tt, mode
      <4>6. LET sm == (cc - 1) + Up(mode, neg, cc - 1, mm, uu)
                o == AtEtiny(decApplyRound(Work(Fin(neg, ll, cc, tt), -1, ss), ws), tt)
            IN  /\ o.n = Ref!Finite(neg, sm, tt)
                /\ o.status = (ss \cup {"Underflow"}) \cup When(sm = 0, {"Clamped"})
        BY <4>1, <4>2, <4>3, <4>4, <4>5, BorrowRounded
      <4> QED BY <4>6 DEF ll, cc, uu, mm, ss, tt, mode
    <3>2. e \div unit = c - 1 /\ r = -1
      BY <2>4
    <3> HIDE DEF out, rem, e, unit, c, r, len, st, p, t
    <3>3. (c - 1) + Up(set.round, neg, c - 1, rem, unit) = sum
      <4> HIDE DEF sum
      <4> QED BY <2>2, <3>2
    <3>4. left = Work(Fin(neg, len, c, t), -1, st)
      BY <3>2
    <3> HIDE DEF sum, left
    <3> QED BY <1>11, <3>1, <3>3, <3>4
  <2> QED BY <2>1, <2>3, <2>4
<1> HIDE DEF out, e, sum, st, t
<1>15. Gives(out, Ref!RoundTo(neg, e, x, set))
  BY <1>7, <1>14 DEF Gives
<1> QED BY <1>15 DEF out, w, n, y, e, p

\* The number before, and a rest of more than a half.
LEMMA NextCut ==
  ASSUME NEW neg \in BOOLEAN, NEW p \in Nat \ {0}, NEW s \in Nat \ {0}, Places(s, 10) = p,
         NEW k \in Nat \ {0}, NEW a \in Nat \ {0}, 2 * a < TenTo[k], NEW x \in Int,
         NEW e, e = (s + 1) * TenTo[k] - a
  PROVE  /\ e \in Nat \ {0} /\ Places(e, 10) = p + k
         /\ IsCut(Work(Fin(neg, p, s, x + k), 7, Inexactness), neg, e, x, p)
<1> DEFINE v == TenTo[k]
           q == s + 1
           n == Places(e, 10)
           i == IF n > p THEN n - p ELSE 0
<1>1. v \in Nat \ {0} /\ a \in 1 .. v - 1 /\ 2 * a < v
  <2>1. v \in Nat \ {0}
    BY Ten
  <2>2. 2 * a < v
    OBVIOUS
  <2> HIDE DEF v
  <2> QED BY <2>1, <2>2
<1>2. e \in Nat \ {0} /\ e = s * v + (v - a) /\ e \div v = s /\ e % v = v - a
  <2>1. q \in Nat \ {0} /\ q - 1 = s
    OBVIOUS
  <2> HIDE DEF q, v
  <2>2. /\ q * v - a \in Nat \ {0} /\ q * v - a = (q - 1) * v + (v - a)
        /\ (q * v - a) \div v = q - 1 /\ (q * v - a) % v = v - a
    BY <1>1, <2>1, LessDiv
  <2>3. e = q * v - a
    BY DEF q, v
  <2> QED BY <2>1, <2>2, <2>3
<1>3. n = p + k /\ p + k \in Nat \ {0}
  <2>1. TenTo[p + k] = TenTo[p] * v /\ TenTo[(p - 1) + k] = TenTo[p - 1] * v
        /\ TenTo[p] \in Nat /\ TenTo[p - 1] \in Nat
    <3>1. p - 1 \in Nat /\ p \in Nat /\ k \in Nat
      OBVIOUS
    <3> QED BY <3>1, TenSum, Ten
  <2> DEFINE c == TenTo[p]
             d == TenTo[p - 1]
  <2>2. s + 1 <= c /\ d <= s /\ c \in Nat /\ d \in Nat
    <3>1. s < TenTo[p] /\ s >= TenTo[p - 1]
      BY Lengths
    <3> QED BY <2>1, <3>1
  <2> HIDE DEF v, c, d
  <2>3. (s + 1) * v <= c * v /\ d * v <= s * v /\ (s + 1) * v = s * v + v
    BY <1>1, <2>2
  <2>4. s * v \in Nat /\ c * v \in Nat /\ d * v \in Nat
    BY <1>1, <2>2
  <2> DEFINE sv == s * v
             cv == c * v
             dv == d * v
  <2>5. sv + v <= cv /\ dv <= sv /\ sv \in Nat /\ cv \in Nat /\ dv \in Nat
    <3> DEFINE h == (s + 1) * v
    <3> HIDE DEF sv, cv, dv, h
    <3>1. h <= cv /\ dv <= sv /\ h = sv + v
      BY <2>3 DEF sv, cv, dv, h
    <3>2. sv \in Nat /\ cv \in Nat /\ dv \in Nat
      BY <2>4 DEF sv, cv, dv
    <3> QED BY <1>1, <3>1, <3>2
  <2>6. e = sv + (v - a)
    BY <1>2
  <2> HIDE DEF sv, cv, dv
  <2>7. e < cv /\ e >= dv
    BY <1>1, <2>5, <2>6
  <2>8. (p + k) - 1 = (p - 1) + k /\ p + k \in Nat \ {0}
    OBVIOUS
  <2>9. e < TenTo[p + k] /\ e >= TenTo[(p + k) - 1]
    BY <2>1, <2>7, <2>8 DEF cv, dv, c, d
  <2> QED BY <1>2, <2>8, <2>9, LengthIs
<1>4. i = k /\ n - i = p
  <2> HIDE DEF n
  <2> QED BY <1>3
<1>5. v - a \in Nat \ {0} /\ 2 * (v - a) > v
  <2> HIDE DEF v
  <2> QED BY <1>1
<1>6. Tells(7, e % v, v)
  <2> HIDE DEF v
  <2> QED BY <1>2, <1>5 DEF Tells
<1>7. Told(k, e % v) = Inexactness
  <2>1. e % v # 0
    BY <1>2, <1>5
  <2> HIDE DEF v
  <2> QED BY <2>1 DEF Told, When, Inexactness
<1> HIDE DEF n, i
<1>8. Tells(7, e % TenTo[i], TenTo[i])
      /\ Work(Fin(neg, p, s, x + k), 7, Inexactness)
           = Work(Fin(neg, n - i, e \div TenTo[i], x + i), 7, Told(i, e % TenTo[i]))
  BY <1>2, <1>4, <1>6, <1>7
<1>9. IsCut(Work(Fin(neg, p, s, x + k), 7, Inexactness), neg, e, x, p)
  BY <1>8 DEF IsCut, n, i
<1> QED BY <1>2, <1>3, <1>9 DEF n

\* A number of the precision at the lowest exponent.
LEMMA LowestIs ==
  ASSUME NEW set, Settled(set), NEW neg, NEW len \in Nat, NEW q \in Nat \ {0}, NEW r, NEW st, "Inexact" \in st
  PROVE  LET out == decSetSubnormal(Work(Fin(neg, len, q, Etiny(set)), r, st), set)
         IN  /\ out.n = Fin(neg, len, q, Etiny(set))
             /\ out.status = (st \cup {"Subnormal"}) \cup {"Underflow"}
<1> DEFINE t == Etiny(set)
           n == Fin(neg, len, q, t)
           w == Work(n, r, st)
           sub == Work(n, r, st \cup {"Subnormal"})
<1>1. t \in Int /\ set.extended
  BY RangeIs DEF Settled
<1>2. w.n = n /\ w.residue = r /\ w.status = st /\ n.exp = t /\ n.coef = q
      /\ sub.n = n /\ sub.residue = r /\ sub.status = st \cup {"Subnormal"}
  BY FinFields, WorkFields
<1> HIDE DEF n
<1>3. Flagged(w, {"Subnormal"}) = sub
  <2> HIDE DEF w
  <2> QED BY <1>2 DEF Flagged
<1> HIDE DEF w, sub
<1>4. ~ISZERO(w.n)
  BY <1>2 DEF ISZERO
<1>5. t - w.n.exp <= 0
  <2> HIDE DEF t
  <2> QED BY <1>1, <1>2
<1>6. decSetSubnormal(w, set) = Underflowed(sub)
  BY <1>1, <1>3, <1>4, <1>5 DEF decSetSubnormal
<1>7. Underflowed(sub) = Work(n, r, (st \cup {"Subnormal"}) \cup {"Underflow"})
  BY <1>2 DEF Underflowed, Flagged, When
<1> QED BY <1>6, <1>7, WorkFields DEF w, n, t

\* A little below the smallest normal number.
LEMMA BorrowNmin ==
  ASSUME NEW set, Settled(set), set.digits > 1, NEW neg \in BOOLEAN, NEW a \in Nat \ {0}, NEW x \in Int,
         NEW m \in Nat, NEW q, q = TenTo[set.digits - 1],
         100 * a <= TenTo[m], x + m = Etiny(set)
  PROVE  Gives(decFinalize(Work(Fin(neg, set.digits, q, Etiny(set)), -1, Inexactness), set),
               Ref!RoundTo(neg, q * TenTo[m] - a, x, set))
<1> DEFINE p == set.digits
           t == Etiny(set)
           mode == set.round
           n == Fin(neg, p, q, t)
           w == Work(n, -1, Inexactness)
           st == Inexactness \cup {"Subnormal"}
           v == TenTo[m]
           e == q * v - a
           s == q - 1
           up == Up(mode, neg, s, v - a, v)
           sum == s + up
           b == bump(n, mode, -1)
           out == decFinalize(w, set)
<1>1. /\ p \in Nat /\ p > 1 /\ mode \in Roundings /\ set.emin \in Int
      /\ t \in Int /\ t = (set.emin - p) + 1
  BY RangeIs DEF Settled
<1>2. v \in Nat \ {0} /\ a \in 1 .. v - 1 /\ 2 * (v - a) > v /\ v - a \in Nat \ {0}
  <2>1. v \in Nat \ {0}
    BY Ten
  <2>2. 100 * a <= v
    OBVIOUS
  <2> HIDE DEF v
  <2> QED BY <2>1, <2>2
<1>3. /\ q \in Nat \ {0} /\ s \in Nat \ {0} /\ Places(q, 10) = p /\ Places(s, 10) = p - 1
  <2> DEFINE k == p - 1
  <2>1. k \in Nat \ {0} /\ p = k + 1 /\ p - 1 = k
    BY <1>1
  <2> HIDE DEF k, p
  <2>2. TenTo[k] \in Nat \ {0} /\ TenTo[k + 1] = 10 * TenTo[k]
    BY <2>1, Ten, TenNext
  <2>3. q = TenTo[k]
    BY <2>1 DEF p
  <2>4. q < TenTo[p] /\ q >= TenTo[p - 1] /\ p \in Nat \ {0} /\ q \in Nat \ {0}
    <3> DEFINE f == TenTo[k]
    <3>1. f \in Nat \ {0} /\ TenTo[p] = 10 * f /\ TenTo[p - 1] = f /\ q = f
      BY <2>1, <2>2, <2>3
    <3> HIDE DEF f
    <3> QED BY <2>1, <3>1
  <2>5. Places(q, 10) = p
    BY <2>4, LengthIs
  <2>6. s \in Nat \ {0} /\ Places(s, 10) = k
    BY <2>1, <2>3, NinesLength
  <2> QED BY <2>1, <2>4, <2>5, <2>6
<1>4. q % 5 = 1 <=> s % 5 = 0
  <2>1. q = s + 1
    BY <1>3
  <2>2. (s + 1) % 5 = 1 <=> s % 5 = 0
    <3> HIDE DEF s
    <3> QED BY <1>3
  <2> HIDE DEF s
  <2> QED BY <2>1, <2>2
<1>5. /\ b \in {0, -1} /\ up \in {0, 1}
      /\ b = 0 <=> up = 1
      /\ b = -1 <=> up = 0
  <2> DEFINE rem == v - a
             md == mode
             ss == s
             vv == v
             qq == q
  <2>1. /\ n.coef = qq /\ n.neg = neg /\ qq \in Nat /\ ss \in Nat /\ md \in Roundings
        /\ (qq % 5 = 1 <=> ss % 5 = 0) /\ vv \in Nat \ {0} /\ rem \in Nat /\ 2 * rem > vv
    BY <1>1, <1>2, <1>3, <1>4, FinFields
  <2> HIDE DEF n, md, rem, ss, vv, qq
  <2>2. /\ bump(n, md, -1) \in {0, -1}
        /\ bump(n, md, -1) = 0 <=> Up(md, neg, ss, rem, vv) = 1
        /\ bump(n, md, -1) = -1 <=> Up(md, neg, ss, rem, vv) = 0
    BY <2>1, BumpDown
  <2> DEFINE bb == bump(n, md, -1)
             uu == Up(md, neg, ss, rem, vv)
  <2> HIDE DEF bb, uu
  <2>3. bb \in {0, -1} /\ (bb = 0 <=> uu = 1) /\ (bb = -1 <=> uu = 0)
    BY <2>2 DEF bb, uu
  <2>4. uu \in {0, 1}
    BY <2>3
  <2> QED BY <2>3, <2>4 DEF bb, uu, rem, md, ss, vv
<1>6. out = decSetSubnormal(decApplyRound(w, set), set)
  <2>1. w.n = n /\ w.residue = -1 /\ n.digits = p /\ n.exp = t /\ n.coef = q
    BY FinFields, WorkFields
  <2> HIDE DEF n
  <2> HIDE DEF w
  <2>2. ~(t < (set.emin - p) + 1) /\ t = (set.emin - p) + 1 /\ set.emin - p + 1 = (set.emin - p) + 1
    <3> HIDE DEF t, p
    <3> QED BY <1>1
  <2>3. q = TenTo[p - 1]
    OBVIOUS
  <2> HIDE DEF p, t
  <2> QED BY <2>1, <2>2, <2>3 DEF decFinalize, InRange
<1>7. /\ b = 0 => decApplyRound(w, set) = w
      /\ b = -1 => decApplyRound(w, set) = BumpHundreds(w, set)
  <2> DEFINE bb == b
             ss == Inexactness
             len == p
             qq == q
             tt == t
  <2>1. bb \in {0, -1} /\ bb = bump(Fin(neg, len, qq, tt), set.round, -1) /\ qq \in Nat /\ qq = TenTo[len - 1]
    BY <1>3, <1>5
  <2> HIDE DEF bb, ss, len, qq, tt
  <2>2. LET ww == Work(Fin(neg, len, qq, tt), -1, ss)
        IN  /\ bb = 0 => decApplyRound(ww, set) = ww
            /\ bb = -1 /\ qq = TenTo[len - 1] => decApplyRound(ww, set) = BumpHundreds(ww, set)
            /\ bb = -1 /\ qq # TenTo[len - 1] =>
                 decApplyRound(ww, set) = Work(Fin(neg, len, qq - 1, tt), -1, ss)
    BY <2>1, AppliedBelow
  <2> QED BY <2>1, <2>2 DEF bb, ss, len, qq, tt
<1>8. LET ref == Ref!RoundTo(neg, e, x, set)
      IN  ref.n = Ref!Finite(neg, sum, t) /\ ref.status = st \cup {"Underflow"}
  <2>1. e \in Nat \ {0} /\ e \div v = s /\ e % v = v - a
    <3> HIDE DEF v
    <3> QED BY <1>2, <1>3, LessDiv
  <2>2. x + Places(e, 10) - 1 < set.emin
    <3> DEFINE l == Places(e, 10)
               k == p - 1
    <3>1. k \in Nat /\ k + m \in Nat \ {0} /\ k = p - 1
      BY <1>1
    <3>2. TenTo[k + m] = q * v
      <4>1. q = TenTo[k]
        OBVIOUS
      <4> HIDE DEF k
      <4>2. TenTo[k + m] = TenTo[k] * TenTo[m]
        BY <3>1, TenSum
      <4> QED BY <4>1, <4>2
    <3>3. e < TenTo[k + m]
      <4> DEFINE qv == q * v
      <4>1. e = qv - a
        OBVIOUS
      <4> HIDE DEF qv, e
      <4>2. qv \in Nat
        <5> HIDE DEF v
        <5> QED BY <1>2, <1>3 DEF qv
      <4>3. e < qv
        BY <4>1, <4>2
      <4> QED BY <3>2, <4>3 DEF qv
    <3> HIDE DEF e, k, p, t
    <3>4. l <= k + m /\ l \in Nat \ {0}
      BY <2>1, <3>1, <3>3, FitsIn, Lengths
    <3> HIDE DEF l
    <3>5. x + m = t
      BY DEF t
    <3>6. x + l - 1 = (x + l) - 1 /\ (x + l) - 1 < set.emin
      BY <1>1, <3>1, <3>4, <3>5
    <3> QED BY <3>6 DEF l
  <2>3. e % TenTo[m] # 0 /\ m = Etiny(set) - x
    <3>1. e % TenTo[m] # 0
      BY <1>2, <2>1
    <3>2. m = Etiny(set) - x
      BY <1>1
    <3> QED BY <3>1, <3>2
  <2>4. Rounded(set.round, neg, e, m) = sum
    <3> HIDE DEF e
    <3> QED BY <2>1 DEF Rounded
  <2> HIDE DEF e
  <2>5. LET sm == Rounded(set.round, neg, e, m)
            ref == Ref!RoundTo(neg, e, x, set)
        IN  /\ ref.n = Ref!Finite(neg, sm, Etiny(set))
            /\ ref.status = (Inexactness \cup {"Subnormal"}) \cup {"Underflow"} \cup When(sm = 0, {"Clamped"})
    BY <2>1, <2>2, <2>3, TinyGives
  <2>6. sum # 0
    <3> HIDE DEF s, up
    <3> QED BY <1>3, <1>5
  <2>7. When(sum = 0, {"Clamped"}) = {}
    BY <2>6 DEF When
  <2> HIDE DEF sum
  <2> QED BY <2>4, <2>5, <2>7
<1>9. out.n = Ref!Finite(neg, sum, t) /\ out.status = st \cup {"Underflow"}
  <2>1. CASE b = 0
    <3>1. sum = q
      <4>1. up = 1
        BY <1>5, <2>1
      <4> HIDE DEF up
      <4> QED BY <1>3, <4>1
    <3>2. out = decSetSubnormal(w, set)
      <4> HIDE DEF b, w, out
      <4> QED BY <1>6, <1>7, <2>1
    <3>3. LET o == decSetSubnormal(w, set)
          IN  o.n = Fin(neg, p, q, t) /\ o.status = st \cup {"Underflow"}
      <4> DEFINE len == p
                 ss == Inexactness
                 qq == q
                 r == -1
      <4>1. len \in Nat /\ "Inexact" \in ss /\ qq \in Nat \ {0}
        BY <1>1, <1>3 DEF Inexactness
      <4> HIDE DEF len, ss, qq, r
      <4>2. LET o == decSetSubnormal(Work(Fin(neg, len, qq, Etiny(set)), r, ss), set)
            IN  /\ o.n = Fin(neg, len, qq, Etiny(set))
                /\ o.status = (ss \cup {"Subnormal"}) \cup {"Underflow"}
        BY <4>1, LowestIs
      <4> QED BY <4>2 DEF len, ss, qq, r
    <3>4. Ref!Finite(neg, q, t) = Fin(neg, p, q, t)
      <4> HIDE DEF p, t
      <4> QED BY <1>3, FinIs
    <3> HIDE DEF sum, out, p, t, st
    <3> QED BY <3>1, <3>2, <3>3, <3>4
  <2>2. CASE b = -1
    <3> DEFINE k == p - 1
    <3>1. sum = s
      <4>1. up = 0
        BY <1>5, <2>2
      <4> HIDE DEF up, s
      <4> QED BY <1>3, <4>1
    <3>2. BumpHundreds(w, set) = Work(Fin(neg, k, s, t), -1, Inexactness \cup BelowNmin)
      <4> DEFINE len == p
                 ss == Inexactness
                 qq == q
                 tt == t
                 kk == k
                 vv == s
      <4>1. /\ len \in Int /\ tt \in Int /\ tt = Etiny(set) /\ vv + 1 = TenTo[len - 1] /\ vv \in Int
            /\ (len = 1 => kk = 1) /\ (len # 1 => kk = len - 1)
        BY <1>1, <1>3
      <4> HIDE DEF len, ss, qq, tt, kk, vv
      <4>2. BumpHundreds(Work(Fin(neg, len, qq, tt), -1, ss), set)
              = Work(Fin(neg, kk, vv, tt), -1, ss \cup BelowNmin)
        BY <4>1, NinesBelowIs
      <4> QED BY <4>2 DEF len, ss, qq, tt, kk, vv
    <3>3. out = decSetSubnormal(Work(Fin(neg, k, s, t), -1, Inexactness \cup BelowNmin), set)
      <4> HIDE DEF b, w, out, k, s, t
      <4> QED BY <1>6, <1>7, <2>2, <3>2
    <3>4. LET o == decSetSubnormal(Work(Fin(neg, k, s, t), -1, Inexactness \cup BelowNmin), set)
          IN  /\ o.n = Fin(neg, k, s, t)
              /\ o.status = ((Inexactness \cup BelowNmin) \cup {"Subnormal"}) \cup {"Underflow"}
      <4> DEFINE len == k
                 ss == Inexactness \cup BelowNmin
                 qq == s
                 r == -1
      <4>1. len \in Nat /\ "Inexact" \in ss /\ qq \in Nat \ {0}
        BY <1>1, <1>3 DEF Inexactness
      <4> HIDE DEF len, ss, qq, r
      <4>2. LET o == decSetSubnormal(Work(Fin(neg, len, qq, Etiny(set)), r, ss), set)
            IN  /\ o.n = Fin(neg, len, qq, Etiny(set))
                /\ o.status = (ss \cup {"Subnormal"}) \cup {"Underflow"}
        BY <4>1, LowestIs
      <4> QED BY <4>2 DEF len, ss, qq, r
    <3>5. ((Inexactness \cup BelowNmin) \cup {"Subnormal"}) \cup {"Underflow"} = st \cup {"Underflow"}
      BY DEF Inexactness, BelowNmin
    <3>6. Ref!Finite(neg, s, t) = Fin(neg, k, s, t)
      <4> HIDE DEF t, s
      <4> QED BY <1>3, FinIs
    <3> HIDE DEF sum, out, k, t, st, s
    <3> QED BY <3>1, <3>3, <3>4, <3>5, <3>6
  <2> QED BY <1>5, <2>1, <2>2
<1> HIDE DEF out, e, sum, st, t
<1>10. Gives(out, Ref!RoundTo(neg, e, x, set))
  BY <1>8, <1>9 DEF Gives
<1> QED BY <1>10 DEF out, w, n, e, p, v, t

\* A number that borrows is rounded right.
LEMMA BorrowGives ==
  ASSUME NEW set, Settled(set), set.digits > 1, NEW neg \in BOOLEAN, NEW a \in Nat \ {0},
         NEW x \in Int, NEW e, NEW w, Borrows(w, neg, a, e, x, set.digits)
  PROVE  Gives(decFinalize(w, set), Ref!RoundTo(neg, e, x, set))
<1> DEFINE p == set.digits
           t == Etiny(set)
<1>1. p \in Nat /\ p > 1 /\ t \in Int
  BY RangeIs DEF Settled
<1>2. PICK m \in Nat, q \in Nat :
        /\ m >= 3 /\ 100 * a <= TenTo[m]
        /\ q >= TenTo[p - 1] /\ q < TenTo[p]
        /\ e = q * TenTo[m] - a
        /\ w = Work(Fin(neg, p, q, x + m), -1, Inexactness)
  BY DEF Borrows
<1> DEFINE y == x + m
<1>3. y \in Int
  OBVIOUS
<1>4. CASE y < t
  <2>1. Gives(decFinalize(Work(Fin(neg, set.digits, q, x + m), -1, Inexactness), set),
              Ref!RoundTo(neg, q * TenTo[m] - a, x, set))
    BY <1>2, <1>4, BorrowTiny
  <2> QED BY <1>2, <2>1
<1>5. CASE y >= t /\ q # TenTo[p - 1]
  <2> DEFINE s == q - 1
             len == p
             k == m
             qq == q
             ee == e
  <2>1. s \in Nat \ {0} /\ Places(s, 10) = p /\ q = s + 1 /\ q # TenTo[p]
    <3> DEFINE c == TenTo[p - 1]
               d == TenTo[p]
    <3>1. p \in Nat \ {0} /\ p - 1 \in Nat
      BY <1>1
    <3>2. c \in Nat \ {0} /\ d \in Nat \ {0}
      BY <1>1, Ten
    <3>3. q >= c /\ q # c /\ q < d
      BY <1>2, <1>5
    <3> HIDE DEF c, d
    <3>4. s \in Nat \ {0} /\ s < d /\ s >= c /\ q = s + 1 /\ q # d
      BY <3>2, <3>3
    <3> HIDE DEF s, p
    <3>5. Places(s, 10) = p
      BY <3>1, <3>4, LengthIs DEF c, d
    <3> QED BY <3>4, <3>5 DEF c, d
  <2>2. /\ len \in Nat \ {0} /\ Places(s, 10) = len /\ k \in Nat \ {0}
        /\ 2 * a < TenTo[k] /\ ee = (s + 1) * TenTo[k] - a
    <3>1. 2 * a < TenTo[m]
      <4> DEFINE v == TenTo[m]
      <4>1. 100 * a <= v /\ v \in Nat
        BY <1>2, Ten
      <4> HIDE DEF v
      <4>2. 2 * a < v
        BY <4>1
      <4> QED BY <4>2 DEF v
    <3>2. m \in Nat \ {0}
      BY <1>2
    <3>3. e = (s + 1) * TenTo[m] - a
      BY <1>2, <2>1
    <3> HIDE DEF s, p
    <3> QED BY <1>1, <2>1, <3>1, <3>2, <3>3
  <2> HIDE DEF s, len, k, ee
  <2>3. /\ ee \in Nat \ {0}
        /\ IsCut(Work(Fin(neg, len, s, x + k), 7, Inexactness), neg, ee, x, len)
    BY <2>1, <2>2, NextCut
  <2> DEFINE u == x + k
  <2>4. u = y /\ u \in Int /\ u >= t
    BY <1>1, <1>3, <1>5 DEF k
  <2>5. /\ u >= Etiny(set) /\ Places(s, 10) = set.digits /\ set.digits = len
        /\ qq = s + 1 /\ qq # TenTo[set.digits] /\ qq \in Nat
    BY <2>1, <2>2, <2>4 DEF len
  <2> HIDE DEF u, qq
  <2>6. IsCut(Work(Fin(neg, set.digits, s, u), 7, Inexactness), neg, ee, x, set.digits)
    BY <2>3, <2>5 DEF u
  <2>7. Gives(decFinalize(Work(Fin(neg, set.digits, qq, u), -1, Inexactness), set),
              Ref!RoundTo(neg, ee, x, set))
    BY <2>1, <2>3, <2>4, <2>5, <2>6, BorrowNormal
  <2> QED BY <1>2, <2>4, <2>7 DEF qq, ee
<1>6. CASE y > t /\ q = TenTo[p - 1]
  <2> DEFINE s == TenTo[p] - 1
             len == p
             k == m - 1
             qq == q
             yy == y
             u == x + k
             ee == e
  <2>1. s \in Nat \ {0} /\ Places(s, 10) = p /\ s + 1 = TenTo[p]
    <3> HIDE DEF p
    <3>1. TenTo[p] \in Nat \ {0} /\ p \in Nat \ {0}
      BY <1>1, Ten
    <3> QED BY <3>1, NinesLength
  <2>2. /\ k \in Nat \ {0} /\ 2 * a < TenTo[k] /\ e = (s + 1) * TenTo[k] - a
    <3> DEFINE v == TenTo[k]
               j == p - 1
               f == TenTo[j]
    <3>1. k \in Nat \ {0} /\ m = k + 1 /\ j \in Nat /\ p = j + 1
      BY <1>1, <1>2
    <3>2. v \in Nat \ {0} /\ TenTo[k + 1] = 10 * TenTo[k] /\ f \in Nat \ {0} /\ TenTo[j + 1] = 10 * TenTo[j]
      <4> HIDE DEF k, j
      <4> QED BY <3>1, Ten, TenNext
    <3>3. TenTo[m] = 10 * v /\ q = f /\ s + 1 = 10 * f
      <4> HIDE DEF k, j, s
      <4> QED BY <1>6, <2>1, <3>1, <3>2 DEF j
    <3>4. e = f * (10 * v) - a /\ 100 * a <= 10 * v
      BY <1>2, <3>3
    <3> HIDE DEF v, f, s
    <3>5. f * (10 * v) = (10 * f) * v
      BY <3>2
    <3>6. 2 * a < v
      BY <3>2, <3>4
    <3>7. e = (s + 1) * v - a
      BY <3>3, <3>4, <3>5
    <3> QED BY <3>1, <3>6, <3>7 DEF v
  <2>3. len \in Nat \ {0} /\ Places(s, 10) = len /\ ee = (s + 1) * TenTo[k] - a
    <3> HIDE DEF s
    <3> QED BY <1>1, <2>1, <2>2
  <2>4. u \in Int /\ yy = u + 1 /\ u >= t /\ yy \in Int
    <3> HIDE DEF t
    <3> QED BY <1>1, <1>2, <1>6
  <2> HIDE DEF len, k, ee
  <2>5. s \in Nat \ {0}
    BY <2>1
  <2>6. s = TenTo[set.digits] - 1
    OBVIOUS
  <2> HIDE DEF s
  <2>7. /\ ee \in Nat \ {0}
        /\ IsCut(Work(Fin(neg, len, s, x + k), 7, Inexactness), neg, ee, x, len)
    BY <2>2, <2>3, <2>5, NextCut
  <2>8. /\ u >= Etiny(set) /\ Places(s, 10) = set.digits /\ set.digits = len
        /\ qq = TenTo[set.digits - 1] /\ qq \in Nat
    BY <1>6, <2>3, <2>4 DEF len
  <2>9. IsCut(Work(Fin(neg, set.digits, s, u), 7, Inexactness), neg, ee, x, set.digits)
    BY <2>7, <2>8
  <2> HIDE DEF u, qq, yy
  <2>10. Gives(decFinalize(Work(Fin(neg, set.digits, qq, yy), -1, Inexactness), set),
               Ref!RoundTo(neg, ee, x, set))
    BY <2>4, <2>5, <2>6, <2>7, <2>8, <2>9, BorrowNormal
  <2> QED BY <1>2, <2>10 DEF qq, ee, yy
<1>7. CASE y = t /\ q = TenTo[p - 1]
  <2>1. Gives(decFinalize(Work(Fin(neg, set.digits, q, Etiny(set)), -1, Inexactness), set),
              Ref!RoundTo(neg, q * TenTo[m] - a, x, set))
    BY <1>2, <1>7, BorrowNmin
  <2> QED BY <1>2, <1>7, <2>1
<1> HIDE DEF t, y
<1> QED BY <1>1, <1>3, <1>4, <1>5, <1>6, <1>7

\* A sum of two numbers of which the lower one only leaves a residue.
LEMMA FarRight ==
  ASSUME NEW set, Settled(set), set.digits > 1, NEW ln \in BOOLEAN, NEW hn \in BOOLEAN,
         NEW a \in Nat \ {0}, NEW b \in Nat \ {0}, NEW x \in Int, NEW z \in Int, x < z,
         Apart(a, b, z - x, set.digits),
         NEW low, low = Fin(ln, Places(a, 10), a, x), NEW high, high = Fin(hn, Places(b, 10), b, z),
         NEW diffsign, diffsign = (ln # hn)
  PROVE  Gives(decFinish(AddResidue(high, diffsign, set, {}), set), SumOf(low, high, set))
<1> DEFINE p == set.digits
           f == TenTo[z - x]
           c == b * f
           w == AddResidue(high, diffsign, set, {})
           plus == AddResidue(Fin(hn, Places(b, 10), b, z), FALSE, set, {})
           minus == AddResidue(Fin(hn, Places(b, 10), b, z), TRUE, set, {})
<1>1. p \in Nat \ {0} /\ set.digits = p
  BY DEF Settled
<1>2. c \in Nat /\ a < c
  <2>1. f \in Nat \ {0} /\ a < f
    <3>1. z - x \in Nat
      OBVIOUS
    <3> QED BY <3>1, Ten DEF Apart
  <2> HIDE DEF f
  <2>2. b * f >= f /\ b * f \in Nat
    BY <2>1
  <2> HIDE DEF c
  <2>3. c >= f /\ c \in Nat
    BY <2>2 DEF c
  <2> QED BY <2>1, <2>3
<1>3. decFinish(w, set) = decFinalize(w, set)
  BY FinishIs
<1>4. SumOf(low, high, set) = IF ln = hn THEN Ref!RoundTo(ln, a + c, x, set)
                              ELSE IF a = c THEN Ref!RoundTo(set.round = "FLOOR", 0, x, set)
                              ELSE IF c < a THEN Ref!RoundTo(ln, a - c, x, set)
                              ELSE Ref!RoundTo(hn, c - a, x, set)
  <2>1. low.coef = a /\ low.exp = x /\ low.neg = ln /\ high.coef = b /\ high.exp = z /\ high.neg = hn
    BY FinFields
  <2> QED BY <2>1 DEF SumOf
<1>5. CASE ln = hn
  <2>1. w = plus
    <3>1. diffsign = FALSE
      BY <1>5
    <3> QED BY <3>1
  <2> DEFINE e == c + a
             len == p
  <2>2. len \in Nat \ {0} /\ set.digits = len
    BY <1>1
  <2> HIDE DEF len
  <2> DEFINE aa == a
             bb == b
             xx == x
             zz == z
             s == hn
  <2>3. /\ aa \in Nat \ {0} /\ bb \in Nat \ {0} /\ xx \in Int /\ zz \in Int /\ xx < zz /\ s \in BOOLEAN
        /\ Apart(aa, bb, zz - xx, len)
    BY <2>2
  <2> HIDE DEF aa, bb, xx, zz, s
  <2>4. PlusLeaves(set, s, aa, bb, xx, zz, len)
    BY <2>2, <2>3, PlusCut
  <2>5. e \in Nat \ {0} /\ IsCut(plus, hn, e, x, set.digits)
    BY <2>2, <2>4 DEF PlusLeaves, aa, bb, xx, zz, s
  <2> HIDE DEF plus
  <2>6. SumOf(low, high, set) = Ref!RoundTo(hn, e, x, set)
    <3>1. a + c = c + a
      <4> HIDE DEF c
      <4> QED BY <1>2
    <3> QED BY <1>4, <1>5, <3>1
  <2> HIDE DEF e, w
  <2>7. Gives(decFinalize(plus, set), Ref!RoundTo(hn, e, x, set))
    BY <2>5, CutGives
  <2> QED BY <1>3, <2>1, <2>6, <2>7 DEF w
<1>6. CASE ln # hn
  <2>1. w = minus
    <3>1. diffsign = TRUE
      BY <1>6
    <3> QED BY <3>1
  <2> DEFINE e == c - a
             len == p
  <2>2. len \in Nat \ {0} /\ set.digits = len
    BY <1>1
  <2> HIDE DEF len
  <2> DEFINE aa == a
             bb == b
             xx == x
             zz == z
             s == hn
  <2>3. /\ aa \in Nat \ {0} /\ bb \in Nat \ {0} /\ xx \in Int /\ zz \in Int /\ xx < zz /\ s \in BOOLEAN
        /\ Apart(aa, bb, zz - xx, len)
    BY <2>2
  <2> HIDE DEF aa, bb, xx, zz, s
  <2>4. MinusLeaves(set, s, aa, bb, xx, zz, len)
    BY <2>2, <2>3, MinusCut
  <2>5. e \in Nat \ {0} /\ (IsCut(minus, hn, e, x, set.digits) \/ Borrows(minus, hn, a, e, x, set.digits))
    BY <2>2, <2>4 DEF MinusLeaves, aa, bb, xx, zz, s
  <2> HIDE DEF minus
  <2>6. SumOf(low, high, set) = Ref!RoundTo(hn, e, x, set)
    <3>1. a # c /\ ~(c < a)
      <4> HIDE DEF c
      <4> QED BY <1>2
    <3> HIDE DEF c
    <3> QED BY <1>4, <1>6, <3>1
  <2> HIDE DEF e, w
  <2>7. Gives(decFinalize(minus, set), Ref!RoundTo(hn, e, x, set))
    BY <2>5, CutGives, BorrowGives
  <2> QED BY <1>3, <2>1, <2>6, <2>7 DEF w
<1> QED BY <1>5, <1>6

\* A sum with a zero.
LEMMA ZeroSum ==
  ASSUME NEW set, Settled(set), NEW l, Sound(l), NEW r, Sound(r), l.kind = "fin", r.kind = "fin",
         l.coef = 0 \/ r.coef = 0, NEW rn \in BOOLEAN, NEW right, right = Fin(rn, r.digits, r.coef, r.exp)
  PROVE  LET other == IF ISZERO(l) THEN right ELSE l
             w == decCopyFit(other, set.digits, 0, {})
         IN  Gives(decFinish(AddWithZero(l, r, w, set), set), Ref!RefAdd(l, right, set))
<1> DEFINE a == l.coef
           b == r.coef
           x == l.exp
           y == r.exp
           ln == l.neg
           e == IF y < x THEN y ELSE x
           ca == a * TenTo[x - e]
           cb == b * TenTo[y - e]
           ref == Ref!RefAdd(l, right, set)
<1>1. /\ l = Fin(ln, Places(a, 10), a, x) /\ r = Fin(r.neg, Places(b, 10), b, y)
      /\ a \in Nat /\ b \in Nat /\ x \in Int /\ y \in Int /\ ln \in BOOLEAN /\ r.digits = Places(b, 10)
      /\ right = Fin(rn, Places(b, 10), b, y)
      /\ (ISZERO(l) <=> a = 0) /\ (ISZERO(r) <=> b = 0)
  BY SoundFinite, FieldTypes DEF ISZERO, Sound
<1>2. ref = IF ln = rn THEN Ref!RoundTo(ln, ca + cb, e, set)
            ELSE IF ca = cb THEN Ref!RoundTo(set.round = "FLOOR", 0, e, set)
            ELSE IF cb < ca THEN Ref!RoundTo(ln, ca - cb, e, set)
            ELSE Ref!RoundTo(rn, cb - ca, e, set)
  <2>1. right.kind = "fin" /\ right.coef = b /\ right.exp = y /\ right.neg = rn
    <3> HIDE DEF b, y
    <3> QED BY <1>1, FinFields
  <2>2. right.coef \in Nat /\ right.exp \in Int /\ right.neg \in BOOLEAN /\ l.neg \in BOOLEAN
        /\ l.coef \in Nat /\ l.exp \in Int
    BY <1>1, <2>1
  <2>3. SumAs(l, right, set)
    BY <2>1, <2>2, RefSum
  <2> QED BY <2>1, <2>3 DEF SumAs
<1>3. TenTo[x - e] \in Nat \ {0} /\ TenTo[y - e] \in Nat \ {0} /\ e \in Int
  <2> HIDE DEF x, y
  <2>1. x - e \in Nat /\ y - e \in Nat /\ e \in Int
    BY <1>1
  <2> HIDE DEF e
  <2> QED BY <2>1, Ten
<1>4. CASE a = 0
  <2>1. ca = 0
    <3> DEFINE f == TenTo[x - e]
    <3> HIDE DEF f, a
    <3>1. a * f = 0
      BY <1>3, <1>4 DEF f
    <3> QED BY <3>1 DEF f
  <2>2. cb \in Nat /\ (cb = 0 <=> b = 0)
    <3> DEFINE f == TenTo[y - e]
    <3> HIDE DEF f, b
    <3>1. b * f \in Nat /\ (b * f = 0 <=> b = 0)
      BY <1>1, <1>3 DEF f
    <3> QED BY <3>1 DEF f
  <2> DEFINE bb == b
             yy == y
             xx == x
             w == decCopyFit(right, set.digits, 0, {})
             low == IF xx < yy THEN xx ELSE yy
             sgn == IF bb = 0 /\ ln # rn THEN set.round = "FLOOR" ELSE rn
  <2>3. low = e
    <3> HIDE DEF x, y
    <3> QED BY <1>1
  <2>4. l = Fin(ln, 1, 0, xx)
    <3>1. Places(a, 10) = 1
      BY <1>4, PlacesZero
    <3> QED BY <1>1, <1>4, <3>1
  <2>5. bb \in Nat /\ xx \in Int /\ yy \in Int /\ ln \in BOOLEAN /\ right = Fin(rn, Places(bb, 10), bb, yy)
    BY <1>1
  <2> HIDE DEF bb, yy, xx, ln
  <2>6. LET v == decCopyFit(Fin(rn, Places(bb, 10), bb, yy), set.digits, 0, {})
            zero == Fin(ln, 1, 0, xx)
            lw == IF xx < yy THEN xx ELSE yy
            sg == IF bb = 0 /\ ln # rn THEN set.round = "FLOOR" ELSE rn
        IN  Gives(decFinish(AddToZero(zero, v, set), set), Ref!RoundTo(sg, bb * TenTo[yy - lw], lw, set))
    BY <2>5, ZeroAddend
  <2>7. Gives(decFinish(AddToZero(l, w, set), set), Ref!RoundTo(sgn, cb, e, set))
    BY <2>3, <2>4, <2>5, <2>6 DEF bb, yy
  <2>8. ref = Ref!RoundTo(sgn, cb, e, set)
    <3> HIDE DEF ca, cb, e, ref, b, a
    <3>1. ca + cb = cb /\ cb - ca = cb /\ ~(cb < ca) /\ (ca = cb <=> b = 0)
      BY <2>1, <2>2
    <3>2. ref = IF ln = rn THEN Ref!RoundTo(ln, cb, e, set)
                ELSE IF b = 0 THEN Ref!RoundTo(set.round = "FLOOR", 0, e, set)
                ELSE Ref!RoundTo(rn, cb, e, set)
      BY <1>2, <3>1 DEF ln
    <3> QED BY <2>2, <3>2 DEF bb
  <2> HIDE DEF ref, sgn, cb, e, a, w
  <2>9. ISZERO(l)
    BY <1>1, <1>4
  <2>10. Gives(decFinish(AddWithZero(l, r, w, set), set), ref)
    BY <2>7, <2>8, <2>9 DEF AddWithZero
  <2> QED BY <2>9, <2>10 DEF w, ref
<1>5. CASE a # 0
  <2>1. b = 0 /\ ~ISZERO(l)
    BY <1>1, <1>5
  <2>2. cb = 0
    <3> DEFINE f == TenTo[y - e]
    <3> HIDE DEF f, b
    <3>1. b * f = 0
      BY <1>3, <2>1 DEF f
    <3> QED BY <3>1 DEF f
  <2>3. ca \in Nat \ {0}
    <3> DEFINE f == TenTo[x - e]
    <3> HIDE DEF f, a
    <3>1. a * f \in Nat /\ a * f # 0
      BY <1>1, <1>3, <1>5 DEF f
    <3> QED BY <3>1 DEF f
  <2> DEFINE aa == a
             yy == y
             xx == x
             w == decCopyFit(l, set.digits, 0, {})
             low == IF yy < xx THEN yy ELSE xx
             rs == r.neg
  <2>4. low = e
    OBVIOUS
  <2>5. rs \in BOOLEAN /\ r = Fin(rs, 1, 0, yy)
    <3>1. Places(b, 10) = 1
      BY <2>1, PlacesZero
    <3>2. r.neg \in BOOLEAN
      BY FieldTypes DEF Sound
    <3> QED BY <1>1, <2>1, <3>1, <3>2
  <2>6. aa \in Nat /\ aa # 0 /\ xx \in Int /\ yy \in Int /\ ln \in BOOLEAN /\ l = Fin(ln, Places(aa, 10), aa, xx)
    BY <1>1, <1>5
  <2> HIDE DEF aa, yy, xx, ln, rs
  <2>7. LET v == decCopyFit(Fin(ln, Places(aa, 10), aa, xx), set.digits, 0, {})
            zero == Fin(rs, 1, 0, yy)
            lw == IF yy < xx THEN yy ELSE xx
            sg == IF aa = 0 /\ rs # ln THEN set.round = "FLOOR" ELSE ln
        IN  aa # 0 => Gives(decFinish(AddZero(v, zero, set), set),
                            Ref!RoundTo(sg, aa * TenTo[xx - lw], lw, set))
    BY <2>5, <2>6, ZeroAddend
  <2>8. Gives(decFinish(AddZero(w, r, set), set), Ref!RoundTo(ln, aa * TenTo[xx - low], low, set))
    <3>1. (IF aa = 0 /\ rs # ln THEN set.round = "FLOOR" ELSE ln) = ln
      BY <2>6
    <3> QED BY <2>5, <2>6, <2>7, <3>1
  <2>9. Ref!RoundTo(ln, aa * TenTo[xx - low], low, set) = Ref!RoundTo(ln, ca, e, set)
    BY <2>4 DEF aa, xx
  <2>10. ref = Ref!RoundTo(ln, ca, e, set)
    <3> HIDE DEF ca, cb, e, ref, low
    <3>1. ca + cb = ca /\ ca - cb = ca /\ cb < ca /\ ca # cb
      BY <2>2, <2>3
    <3> QED BY <1>2, <3>1 DEF ln
  <2> HIDE DEF ref, ca, e, a, w, low
  <2>11. Gives(decFinish(AddWithZero(l, r, w, set), set), ref)
    BY <2>1, <2>8, <2>9, <2>10 DEF AddWithZero
  <2> QED BY <2>1, <2>11 DEF w, ref
<1> QED BY <1>4, <1>5

\* The lower addend overlaps the higher one, and yet lies beyond the rounding
\* digit.
SwallowedAt(a, b, p) ==
  LET low == IF a.exp > b.exp THEN b ELSE a
      high == IF a.exp > b.exp THEN a ELSE b
  IN  /\ a.kind = "fin" /\ b.kind = "fin" /\ ~ISZERO(a) /\ ~ISZERO(b)
      /\ high.exp - low.exp \in 1 .. low.digits - 1
      /\ high.digits + high.exp > low.digits + low.exp + p + 1

\* Both ways to add two numbers that are not zero.
SumsRight(low, high, diffsign, set) ==
  LET pad == high.exp - low.exp
  IN  Gives(IF pad # 0 /\ high.digits + pad > low.digits + set.digits + 1
            THEN decFinish(AddResidue(high, diffsign, set, {}), set)
            ELSE AddAligned(low, high, diffsign, set, {}), SumOf(low, high, set))

LEMMA LongSum ==
  ASSUME NEW set, Settled(set), set.digits > 1, NEW ln \in BOOLEAN, NEW hn \in BOOLEAN,
         NEW a \in Nat \ {0}, NEW b \in Nat \ {0}, NEW x \in Int, NEW z \in Int, x <= z,
         NEW low, low = Fin(ln, Places(a, 10), a, x), NEW high, high = Fin(hn, Places(b, 10), b, z),
         NEW diffsign, diffsign = (ln # hn),
         ~(/\ z - x \in 1 .. Places(a, 10) - 1
           /\ Places(b, 10) + z > Places(a, 10) + x + set.digits + 1)
  PROVE  SumsRight(low, high, diffsign, set)
<1> DEFINE pad == high.exp - low.exp
           da == Places(a, 10)
           db == Places(b, 10)
           p == set.digits
<1>1. low.exp = x /\ high.exp = z /\ low.digits = da /\ high.digits = db
  BY FinFields
<1>2. p \in Nat \ {0} /\ da \in Nat \ {0} /\ db \in Nat \ {0} /\ a < TenTo[da]
  BY Lengths DEF Settled
<1>3. pad = z - x
  BY <1>1
<1>4. CASE pad # 0 /\ high.digits + pad > low.digits + set.digits + 1
  <2> DEFINE k == z - x
  <2>1. x < z /\ k \in Nat \ {0}
    BY <1>3, <1>4
  <2>2. ~(k \in 1 .. da - 1) /\ db + k > da + p + 1
    <3>1. ~(/\ k \in 1 .. da - 1
            /\ db + z > da + x + p + 1)
      OBVIOUS
    <3>2. db + k > da + p + 1
      BY <1>1, <1>3, <1>4
    <3>3. db + z > da + x + p + 1
      <4> HIDE DEF db, da, p
      <4> QED BY <1>2, <3>2
    <3> HIDE DEF db, da, p, k
    <3> QED BY <3>1, <3>2, <3>3
  <2>3. Apart(a, b, z - x, set.digits)
    <3>1. da <= k
      <4> HIDE DEF da, k
      <4> QED BY <1>2, <2>1, <2>2
    <3>2. TenTo[da] <= TenTo[k] /\ TenTo[da] \in Nat /\ TenTo[k] \in Nat
      <4> HIDE DEF da, k
      <4> QED BY <1>2, <2>1, <3>1, TenMono, Ten
    <3>3. a < TenTo[k]
      <4> DEFINE f == TenTo[k]
                 g == TenTo[da]
      <4>1. g <= f /\ g \in Nat /\ f \in Nat /\ a < g
        BY <1>2, <3>2
      <4> HIDE DEF f, g
      <4>2. a < f
        BY <4>1
      <4> QED BY <4>2 DEF f
    <3> QED BY <2>2, <3>3 DEF Apart
  <2>4. Gives(decFinish(AddResidue(high, diffsign, set, {}), set), SumOf(low, high, set))
    BY <2>1, <2>3, FarRight, Zenon
  <2> QED BY <1>4, <2>4 DEF SumsRight
<1>5. CASE ~(pad # 0 /\ high.digits + pad > low.digits + set.digits + 1)
  <2>1. Gives(AddAligned(low, high, diffsign, set, {}), SumOf(low, high, set))
    BY AlignedRight, Zenon
  <2> QED BY <1>5, <2>1 DEF SumsRight
<1> QED BY <1>4, <1>5

\* The sum of finite numbers, or their difference.
LEMMA SumRight ==
  ASSUME NEW set, Settled(set), set.digits > 1, NEW l, Sound(l), NEW r, Sound(r),
         l.kind = "fin", r.kind = "fin", NEW negate \in BOOLEAN,
         ~SwallowedAt(l, r, set.digits), NEW right, right = IF negate THEN Negate(r) ELSE r
  PROVE  Gives(AddFinite(l, r, negate, set, {}), Ref!RefAdd(l, right, set))
<1> DEFINE rn == IF negate THEN ~r.neg ELSE r.neg
           ln == l.neg
           a == l.coef
           b == r.coef
           x == l.exp
           y == r.exp
           diffsign == (l.neg # r.neg) # negate
           out == AddFinite(l, r, negate, set, {})
           ref == Ref!RefAdd(l, right, set)
<1>1. /\ l = Fin(ln, Places(a, 10), a, x) /\ r = Fin(r.neg, Places(b, 10), b, y)
      /\ a \in Nat /\ b \in Nat /\ x \in Int /\ y \in Int /\ ln \in BOOLEAN /\ r.neg \in BOOLEAN
      /\ r.digits = Places(b, 10) /\ l.digits = Places(a, 10)
      /\ (ISZERO(l) <=> a = 0) /\ (ISZERO(r) <=> b = 0)
  BY SoundFinite, FieldTypes DEF ISZERO, Sound
<1>2. right = Fin(rn, Places(b, 10), b, y) /\ rn \in BOOLEAN
  <2>1. CASE negate
    <3> DEFINE s == r.neg
               dg == Places(b, 10)
               bb == b
               yy == y
    <3>1. r = Fin(s, dg, bb, yy) /\ s \in BOOLEAN
      BY <1>1
    <3> HIDE DEF s, dg, bb, yy
    <3>2. Negate(r) = Fin(~s, dg, bb, yy)
      BY <3>1, NegateIs
    <3> QED BY <1>1, <2>1, <3>2 DEF s, dg, bb, yy
  <2>2. CASE ~negate
    BY <1>1, <2>2
  <2> QED BY <2>1, <2>2
<1>3. diffsign = (ln # rn)
  BY <1>1
<1>4. right.kind = "fin" /\ right.coef = b /\ right.exp = y /\ right.neg = rn /\ right.digits = r.digits
  <2> HIDE DEF rn, b, y
  <2> QED BY <1>1, <1>2, FinFields
<1>5. /\ x <= y => ref = SumOf(l, right, set)
      /\ y < x => ref = SumOf(right, l, set)
  <2>1. /\ right.coef \in Nat /\ right.exp \in Int /\ right.neg \in BOOLEAN
        /\ l.coef \in Nat /\ l.exp \in Int /\ l.neg \in BOOLEAN
    BY <1>1, <1>2, <1>4
  <2>2. /\ l.exp <= right.exp => Ref!RefAdd(l, right, set) = SumOf(l, right, set)
        /\ right.exp < l.exp => Ref!RefAdd(l, right, set) = SumOf(right, l, set)
    BY <1>4, <2>1, SumEitherWay
  <2> QED BY <1>4, <2>2
<1> DEFINE low == IF l.exp > r.exp THEN right ELSE l
           high == IF l.exp > r.exp THEN l ELSE right
           pad == high.exp - low.exp
           other == IF ISZERO(l) THEN right ELSE l
           tail == IF pad # 0 /\ high.digits + pad > low.digits + set.digits + 1
                   THEN decFinish(AddResidue(high, diffsign, set, {}), set)
                   ELSE AddAligned(low, high, diffsign, set, {})
<1>6. CASE a = 0 \/ b = 0
  <2> DEFINE w == decCopyFit(other, set.digits, 0, {})
  <2>1. out = decFinish(AddWithZero(l, r, w, set), set)
    BY <1>1, <1>6 DEF AddFinite
  <2>2. right = Fin(rn, r.digits, r.coef, r.exp)
    BY <1>1, <1>2
  <2>3. l.coef = 0 \/ r.coef = 0
    BY <1>6
  <2> HIDE DEF rn, out, ref
  <2>4. LET o == IF ISZERO(l) THEN right ELSE l
            v == decCopyFit(o, set.digits, 0, {})
        IN  Gives(decFinish(AddWithZero(l, r, v, set), set), Ref!RefAdd(l, right, set))
    BY <1>2, <2>2, <2>3, ZeroSum
  <2> QED BY <2>1, <2>4 DEF out, ref
<1>7. CASE a # 0 /\ b # 0 /\ InOneUnit(l, r, diffsign, set)
  <2>1. out = AddFast(l, r, diffsign, {})
    BY <1>1, <1>7 DEF AddFinite
  <2>2. x = y
    BY <1>7 DEF InOneUnit
  <2>3. ref = SumOf(l, right, set)
    <3> HIDE DEF x, y, ref
    <3> QED BY <1>1, <1>5, <2>2
  <2> DEFINE d == diffsign
  <2>4. d = (l.neg # right.neg) /\ right.neg \in BOOLEAN /\ right.coef = r.coef /\ right.exp = r.exp
        /\ l.coef # 0 /\ InOneUnit(l, r, d, set)
    BY <1>2, <1>3, <1>4, <1>7
  <2> HIDE DEF d, out, ref
  <2>5. Gives(AddFast(l, r, d, {}), SumOf(l, right, set))
    BY <2>4, FastRight
  <2> QED BY <2>1, <2>3, <2>5 DEF d, out, ref
<1>8. CASE a # 0 /\ b # 0 /\ ~InOneUnit(l, r, diffsign, set)
  <2>1. out = tail
    BY <1>1, <1>8 DEF AddFinite
  <2> DEFINE sn == IF x > y THEN rn ELSE ln
             hn == IF x > y THEN ln ELSE rn
             c == IF x > y THEN b ELSE a
             d == IF x > y THEN a ELSE b
             u == IF x > y THEN y ELSE x
             v == IF x > y THEN x ELSE y
             df == diffsign
  <2>2. /\ sn \in BOOLEAN /\ hn \in BOOLEAN /\ c \in Nat \ {0} /\ d \in Nat \ {0}
        /\ u \in Int /\ v \in Int /\ u <= v
    <3> HIDE DEF a, b, x, y, rn, ln
    <3> QED BY <1>1, <1>2, <1>8
  <2>3. low = Fin(sn, Places(c, 10), c, u) /\ high = Fin(hn, Places(d, 10), d, v)
    BY <1>1, <1>2
  <2>4. df = (sn # hn)
    <3> HIDE DEF rn, ln
    <3> QED BY <1>1, <1>2, <1>3
  <2>5. ref = SumOf(low, high, set)
    <3>1. CASE x > y
      <4>1. y < x /\ low = right /\ high = l
        BY <1>1, <3>1
      <4> HIDE DEF ref, low, high, x, y
      <4> QED BY <1>5, <4>1
    <3>2. CASE ~(x > y)
      <4>1. x <= y /\ low = l /\ high = right
        BY <1>1, <3>2
      <4> HIDE DEF ref, low, high, x, y
      <4> QED BY <1>5, <4>1
    <3> QED BY <3>1, <3>2
  <2>6. ~(/\ v - u \in 1 .. Places(c, 10) - 1
          /\ Places(d, 10) + v > Places(c, 10) + u + set.digits + 1)
    <3> DEFINE lo == IF l.exp > r.exp THEN r ELSE l
               hi == IF l.exp > r.exp THEN l ELSE r
    <3>1. ~(/\ hi.exp - lo.exp \in 1 .. lo.digits - 1
            /\ hi.digits + hi.exp > lo.digits + lo.exp + set.digits + 1)
      <4>1. ~ISZERO(l) /\ ~ISZERO(r)
        BY <1>1, <1>8
      <4> QED BY <4>1 DEF SwallowedAt
    <3>2. hi.exp = v /\ lo.exp = u /\ lo.digits = Places(c, 10) /\ hi.digits = Places(d, 10)
      BY <1>1
    <3> HIDE DEF hi, lo, c, d, u, v
    <3> QED BY <3>1, <3>2
  <2> HIDE DEF out, ref, low, high, sn, hn, c, d, u, v, df
  <2>7. SumsRight(low, high, df, set)
    BY <2>2, <2>3, <2>4, <2>6, LongSum
  <2> QED BY <2>1, <2>5, <2>7 DEF SumsRight, df, out, ref
<1> HIDE DEF diffsign, out, ref, a, b
<1> QED BY <1>6, <1>7, <1>8 DEF out, ref

\* Sums and differences keep their promise.
LEMMA SumKept ==
  ASSUME NEW set, Settled(set), set.digits > 1, NEW l, Sound(l), NEW r, Sound(r),
         ~SwallowedAt(l, r, set.digits), NEW negate \in BOOLEAN,
         NEW op, op = IF negate THEN "Subtract" ELSE "Add"
  PROVE  Keeps(op, l, r, set, Done(decAddOp(l, r, set, negate, {})))
<1> DEFINE w == decAddOp(l, r, set, negate, {})
           right == IF negate THEN Negate(r) ELSE r
           rn == IF negate THEN ~r.neg ELSE r.neg
           diffsign == (l.neg # r.neg) # negate
           ref == Ref!RefAdd(l, right, set)
           o == [lhs |-> l, rhs |-> r, status |-> {}]
<1>1. op \in Plain /\ op # "CompareSignal"
  BY DEF Plain
<1>2. w = AddOperands(o, set, negate)
  BY WholeOperands DEF decAddOp
<1>3. /\ l.neg \in BOOLEAN /\ l.kind \in {"fin", "inf", "nan", "snan"}
      /\ r.neg \in BOOLEAN /\ r.kind \in {"fin", "inf", "nan", "snan"}
      /\ r = [neg |-> r.neg, kind |-> r.kind, digits |-> r.digits, coef |-> r.coef, exp |-> r.exp]
  BY FieldTypes DEF Sound, Number
<1>4. right.kind = r.kind /\ right.neg = rn /\ rn \in BOOLEAN /\ diffsign = (l.neg # rn)
  <2>1. CASE negate
    <3>1. right = [r EXCEPT !.neg = ~@]
      BY <2>1 DEF Negate
    <3> DEFINE k == r.kind
               s == r.neg
               dg == r.digits
               cf == r.coef
               ex == r.exp
    <3>2. r = [neg |-> s, kind |-> k, digits |-> dg, coef |-> cf, exp |-> ex] /\ s \in BOOLEAN
      BY <1>3
    <3> HIDE DEF k, s, dg, cf, ex, right
    <3>3. right.kind = k /\ right.neg = ~s
      BY <3>1, <3>2
    <3>4. right.kind = r.kind /\ right.neg = ~r.neg
      BY <3>3 DEF k, s
    <3> QED BY <1>3, <2>1, <3>4
  <2>2. CASE ~negate
    BY <1>3, <2>2
  <2> QED BY <2>1, <2>2
<1>5. Ref!Reference(op, l, r, set) = ref
  BY DEF Ref!Reference, Ref!Logicals, Ref!Opposite, Negate
<1>6. o.lhs = l /\ o.rhs = r /\ o.status = {}
  OBVIOUS
<1> HIDE DEF o, w, ref, right, rn
<1>7. ASSUME IsNaN(l) \/ IsNaN(r) PROVE Keeps(op, l, r, set, Done(w))
  <2> DEFINE st == {}
  <2>1. w = decNaNs(l, r, set, st)
    BY <1>2, <1>6, <1>7 DEF AddOperands
  <2>2. st = IF op = "CompareSignal" THEN {"Invalid_operation", "sNaN"} ELSE {}
    BY <1>1
  <2> HIDE DEF st
  <2>3. Keeps(op, l, r, set, Done(decNaNs(l, r, set, st)))
    BY <1>1, <1>7, <2>2, PlainNaN
  <2> QED BY <2>1, <2>3
<1>8. ASSUME ~IsNaN(l), ~IsNaN(r), IsSpecial(l) \/ IsSpecial(r) PROVE Done(w) = ref
  <2>1. w = AddInfinite(l, r, negate, {})
    BY <1>2, <1>6, <1>8 DEF AddOperands
  <2>2. l.kind = "inf" \/ r.kind = "inf"
    BY <1>3, <1>8 DEF IsSpecial, IsNaN
  <2>3. l.kind \in {"fin", "inf"} /\ r.kind \in {"fin", "inf"}
    BY <1>3, <1>8 DEF IsNaN
  <2>4. ref = IF l.kind = r.kind /\ l.neg # rn THEN Ref!InvalidOperation
              ELSE Ref!Exactly(Ref!Infinite(IF l.kind = "inf" THEN l.neg ELSE rn))
    BY <1>4, <2>2 DEF Ref!RefAdd, ref
  <2>5. w = IF l.kind = r.kind /\ l.neg # rn THEN Invalid({})
            ELSE Work(Infinity(IF l.kind = "inf" THEN l.neg ELSE rn), 0, {})
    <3>1. (r.neg # negate) = rn
      BY <1>3 DEF rn
    <3>2. CASE l.kind = "inf" /\ r.kind = "inf"
      BY <1>4, <2>1, <3>2 DEF AddInfinite
    <3>3. CASE l.kind = "inf" /\ r.kind # "inf"
      BY <2>1, <3>3 DEF AddInfinite
    <3>4. CASE l.kind # "inf" /\ r.kind = "inf"
      BY <2>1, <3>1, <3>4 DEF AddInfinite
    <3> QED BY <2>2, <3>2, <3>3, <3>4
  <2> QED BY <2>4, <2>5, DoneInvalid, DoneExact, InfiniteIs
<1>9. ASSUME ~IsNaN(l), ~IsNaN(r), ~IsSpecial(l), ~IsSpecial(r) PROVE Done(w) = ref
  <2>1. w = AddFinite(l, r, negate, set, {})
    BY <1>2, <1>6, <1>9 DEF AddOperands
  <2>2. l.kind = "fin" /\ r.kind = "fin"
    BY <1>9 DEF IsSpecial
  <2>3. Gives(w, ref)
    BY <2>1, <2>2, SumRight DEF ref, right
  <2>4. \E neg, e, x : ref = Ref!RoundTo(neg, e, x, set)
    <3>1. ref = Ref!RoundTo(IF Ref!AtExponent(l, Ref!Least({l.exp, right.exp})) + Ref!AtExponent(right, Ref!Least({l.exp, right.exp})) = 0
                            THEN IF l.neg = right.neg THEN l.neg ELSE set.round = "FLOOR"
                            ELSE Ref!AtExponent(l, Ref!Least({l.exp, right.exp})) + Ref!AtExponent(right, Ref!Least({l.exp, right.exp})) < 0,
                            Ref!Abs(Ref!AtExponent(l, Ref!Least({l.exp, right.exp})) + Ref!AtExponent(right, Ref!Least({l.exp, right.exp}))),
                            Ref!Least({l.exp, right.exp}), set)
      BY <1>4, <2>2 DEF Ref!RefAdd, ref
    <3> QED BY <3>1, Zenon
  <2> QED BY <2>3, <2>4, DoneRounded
<1>10. ASSUME ~IsNaN(l), ~IsNaN(r) PROVE Keeps(op, l, r, set, Done(w))
  <2> DEFINE out == Done(w)
  <2>1. out = Ref!Reference(op, l, r, set)
    BY <1>5, <1>8, <1>9, <1>10
  <2>2. out = [n |-> out.n, status |-> out.status]
    BY DoneFields
  <2> HIDE DEF out
  <2>3. Keeps(op, l, r, set, out)
    BY <1>1, <1>10, <2>1, <2>2, PlainKept
  <2> QED BY <2>3 DEF out
<1> QED BY <1>7, <1>10 DEF w

LEMMA AddSubtractRight ==
  ASSUME NEW set, Settled(set), set.digits > 1, NEW l, Sound(l), NEW r, Sound(r),
         ~SwallowedAt(l, r, set.digits)
  PROVE  /\ Keeps("Add", l, r, set, decNumberAdd(l, r, set))
         /\ Keeps("Subtract", l, r, set, decNumberSubtract(l, r, set))
<1>1. decNumberAdd(l, r, set) = Done(decAddOp(l, r, set, FALSE, {}))
      /\ decNumberSubtract(l, r, set) = Done(decAddOp(l, r, set, TRUE, {}))
  BY DEF decNumberAdd, decNumberSubtract
<1> DEFINE no == FALSE
           yes == TRUE
           add == "Add"
           subtract == "Subtract"
<1>2. /\ no \in BOOLEAN /\ add = IF no THEN "Subtract" ELSE "Add"
      /\ yes \in BOOLEAN /\ subtract = IF yes THEN "Subtract" ELSE "Add"
  OBVIOUS
<1> HIDE DEF no, yes, add, subtract
<1>3. /\ Keeps(add, l, r, set, Done(decAddOp(l, r, set, no, {})))
      /\ Keeps(subtract, l, r, set, Done(decAddOp(l, r, set, yes, {})))
  BY <1>2, SumKept
<1> QED BY <1>1, <1>3 DEF no, yes, add, subtract

(***************************************************************************)
(* Comparisons.  Two numbers compare as two integers do, their coefficients*)
(* aligned at the place of the smaller exponent, whatever the distance: the*)
(* shift by Units and digits of decUnitCompare, the short cuts where the   *)
(* number of digits settles it, the signs and the special values.          *)
(***************************************************************************)
\* Units hold at least their digits, and not a whole Unit more.
LEMMA UnitsHold ==
  ASSUME NEW d \in Nat
  PROVE  D2U(d) \in Nat /\ d <= D2U(d) * DECDPUN /\ D2U(d) * DECDPUN < d + DECDPUN
<1> DEFINE u == DECDPUN
           x == d + u - 1
           k == D2U(d)
           r == x % u
<1>1. u \in Nat \ {0}
  BY UnitAssumption
<1>2. x \in Nat
  <2> HIDE DEF u
  <2> QED BY <1>1
<1>3. k = x \div u
  BY DEF D2U
<1> HIDE DEF u, x, k
<1>4. x = (x \div u) * u + (x % u) /\ x \div u \in Nat /\ x % u \in Nat /\ x % u < u
  BY <1>1, <1>2, NatDivMod
<1>5. x = k * u + r /\ k \in Nat /\ r \in Nat /\ r < u
  BY <1>3, <1>4
<1> HIDE DEF r
<1>6. k * u \in Nat
  BY <1>1, <1>5
<1> DEFINE ku == k * u
<1> HIDE DEF ku
<1>7. ku \in Nat /\ x = ku + r /\ x = (d + u) - 1
  <2>1. x = (d + u) - 1
    BY <1>1 DEF x
  <2> QED BY <1>5, <1>6, <2>1 DEF ku
<1>8. d <= ku /\ ku < d + u
  BY <1>1, <1>5, <1>7
<1> QED BY <1>5, <1>8 DEF k, u, ku

LEMMA NoUnits == D2U(0) = 0
<1> DEFINE u == DECDPUN
           k == D2U(0)
<1>1. u \in Nat \ {0} /\ k \in Nat /\ k * u < 0 + u
  BY UnitsHold, UnitAssumption
<1> HIDE DEF u, k
<1>2. ASSUME k >= 1 PROVE FALSE
  <2>1. k * u >= 1 * u
    BY <1>1, <1>2
  <2> QED BY <1>1, <2>1
<1>3. k = 0
  BY <1>1, <1>2
<1> QED BY <1>3 DEF k

\* More Units, more digits.
LEMMA MoreUnits ==
  ASSUME NEW c \in Nat, NEW d \in Nat, D2U(c) < D2U(d)
  PROVE  c < d
<1> DEFINE u == DECDPUN
           i == D2U(c)
           j == D2U(d)
<1>1. /\ u \in Nat \ {0} /\ i \in Nat /\ j \in Nat /\ i < j
      /\ c <= i * u /\ j * u < d + u
  BY UnitsHold, UnitAssumption
<1> HIDE DEF u, i, j
<1>2. i + 1 <= j /\ (i + 1) * u = i * u + u /\ (i + 1) * u <= j * u /\ i * u \in Nat /\ j * u \in Nat
  BY <1>1
<1> DEFINE iu == i * u
           ju == j * u
<1> HIDE DEF iu, ju
<1>3. iu \in Nat /\ ju \in Nat /\ iu + u <= ju /\ c <= iu /\ ju < d + u
  <2> DEFINE h == (i + 1) * u
  <2> HIDE DEF h
  <2>1. h = iu + u /\ h <= ju
    BY <1>2 DEF h, iu, ju
  <2> QED BY <1>1, <1>2, <2>1 DEF iu, ju
<1> QED BY <1>1, <1>3

\* Units of digits that are put together.
LEMMA UnitsTogether ==
  ASSUME NEW c \in Nat, NEW d \in Nat
  PROVE  D2U(c + d) <= D2U(c) + D2U(d) /\ D2U(c) + D2U(d) <= D2U(c + d) + 1
<1> DEFINE u == DECDPUN
           e == c + d
           i == D2U(c)
           j == D2U(d)
           k == D2U(e)
           s == i + j
<1>1. e \in Nat
  OBVIOUS
<1>2. /\ u \in Nat \ {0} /\ i \in Nat /\ j \in Nat /\ k \in Nat
      /\ c <= i * u /\ i * u < c + u /\ d <= j * u /\ j * u < d + u /\ e <= k * u /\ k * u < e + u
  BY <1>1, UnitsHold, UnitAssumption
<1>3. e = c + d
  OBVIOUS
<1> HIDE DEF u, i, j, k, e
<1>4. s \in Nat /\ s * u = i * u + j * u /\ i * u \in Nat /\ j * u \in Nat /\ k * u \in Nat
  BY <1>2
<1> HIDE DEF s
<1> DEFINE iu == i * u
           ju == j * u
           ku == k * u
           su == s * u
<1>5. /\ su = iu + ju /\ iu \in Nat /\ ju \in Nat /\ ku \in Nat
      /\ c <= iu /\ iu < c + u /\ d <= ju /\ ju < d + u /\ e <= ku /\ ku < e + u
  BY <1>2, <1>4
<1>6. (s + 1) * u = su + u /\ (s + 2) * u = su + 2 * u /\ (k + 1) * u = ku + u /\ (k + 2) * u = ku + 2 * u
  BY <1>2, <1>4
<1>7. k <= s
  <2> SUFFICES ASSUME ~(k <= s) PROVE FALSE
    OBVIOUS
  <2>1. s + 1 <= k
    BY <1>2, <1>4
  <2>2. (s + 1) * u <= k * u
    BY <1>2, <1>4, <2>1
  <2> DEFINE h == (s + 1) * u
  <2> HIDE DEF h
  <2>3. h <= ku /\ h = su + u
    BY <1>6, <2>2 DEF h
  <2> HIDE DEF iu, ju, ku, su
  <2> QED BY <1>2, <1>3, <1>5, <2>3
<1>8. s <= k + 1
  <2> SUFFICES ASSUME ~(s <= k + 1) PROVE FALSE
    OBVIOUS
  <2>1. k + 2 <= s
    BY <1>2, <1>4
  <2>2. (k + 2) * u <= s * u
    BY <1>2, <1>4, <2>1
  <2> DEFINE h == (k + 2) * u
  <2> HIDE DEF h
  <2>3. h <= su /\ h = ku + 2 * u
    BY <1>6, <2>2 DEF h
  <2> HIDE DEF iu, ju, ku, su
  <2> QED BY <1>2, <1>3, <1>5, <2>3
<1> QED BY <1>7, <1>8 DEF s, k, i, j, e

\* More digits, a greater number.
LEMMA MoreDigits ==
  ASSUME NEW a \in Nat, NEW b \in Nat, Places(a, 10) < Places(b, 10)
  PROVE  a < b
<1> DEFINE m == Places(a, 10)
           n == Places(b, 10)
<1>1. m \in Nat \ {0} /\ n \in Nat \ {0} /\ a < TenTo[m] /\ m <= n - 1 /\ n - 1 \in Nat /\ m \in Nat /\ m < n
  BY Lengths
<1>2. b # 0
  BY <1>1, PlacesZero
<1>3. b >= TenTo[n - 1]
  BY <1>2, Lengths
<1> HIDE DEF m, n
<1>4. TenTo[m] <= TenTo[n - 1] /\ TenTo[m] \in Nat /\ TenTo[n - 1] \in Nat
  BY <1>1, TenMono, Ten
<1> DEFINE f == TenTo[m]
           g == TenTo[n - 1]
<1>5. f <= g /\ f \in Nat /\ g \in Nat /\ a < f /\ b >= g
  BY <1>1, <1>3, <1>4
<1> HIDE DEF f, g
<1> QED BY <1>5

\* decUnitCompare compares.
LEMMA UnitCompareIs ==
  ASSUME NEW a \in Nat, NEW b \in Nat, NEW e \in Nat, b # 0 \/ e = 0
  PROVE  decUnitCompare(a, b, e) = Sign(a - b * TenTo[e])
<1> DEFINE m == Places(a, 10)
           n == Places(b, 10)
           c == b * TenTo[e]
           k == Places(c, 10)
           far == ByLength(D2U(m), D2U(n), e)
<1>1. m \in Nat \ {0} /\ n \in Nat \ {0} /\ TenTo[e] \in Nat \ {0}
  BY Lengths, Ten
<1>2. c \in Nat
  <2> DEFINE f == TenTo[e]
  <2> HIDE DEF f
  <2>1. b * f \in Nat
    BY <1>1 DEF f
  <2> QED BY <2>1 DEF f
<1>3. k = n + e
  <2>1. CASE e = 0
    <3>1. TenTo[e] = 1
      BY <2>1, TenZero
    <3>2. c = b
      BY <3>1
    <3> HIDE DEF c
    <3> QED BY <1>1, <2>1, <3>2
  <2>2. CASE e # 0
    <3>1. b # 0
      BY <2>2
    <3>2. Places(b * TenTo[e], 10) = Places(b, 10) + e
      BY <3>1, PadLength
    <3> QED BY <3>2
  <2> QED BY <2>1, <2>2
<1>4. D2U(m) \in Nat /\ D2U(n) \in Nat /\ D2U(e) \in Nat /\ D2U(n + e) \in Nat
  <2>1. n + e \in Nat /\ m \in Nat /\ n \in Nat
    <3> HIDE DEF m, n
    <3> QED BY <1>1
  <2> HIDE DEF m, n
  <2> QED BY <2>1, UnitsHold
<1>5. far \in {-1, 0, 1} /\ (far = 1 => m > n + e) /\ (far = -1 => m < n + e)
  <2> DEFINE i == D2U(m)
             j == D2U(n)
             h == D2U(e)
             s == D2U(n + e)
  <2>1. m \in Nat /\ n \in Nat /\ n + e \in Nat
    <3> HIDE DEF m, n
    <3> QED BY <1>1
  <2>2. (i < s => m < n + e) /\ (s < i => n + e < m) /\ s <= j + h /\ j + h <= s + 1
    <3> HIDE DEF m, n
    <3> QED BY <2>1, MoreUnits, UnitsTogether
  <2>3. i \in Nat /\ j \in Nat /\ h \in Nat /\ s \in Nat
    BY <1>4
  <2>4. e = 0 => s = j
    <3> HIDE DEF n
    <3>1. e = 0 => n + e = n
      BY <2>1
    <3> QED BY <3>1
  <2>5. far = IF e = 0 THEN Sign(i - j) ELSE IF i > j + h THEN 1 ELSE IF i + 1 < j + h THEN -1 ELSE 0
    <3> HIDE DEF m, n
    <3>2. i \in Nat /\ j \in Nat /\ h \in Nat
      BY <2>3
    <3>3. CASE e = 0
      <4>1. h = 0
        BY <3>3, NoUnits
      <4>2. far = CASE e = 0 -> Sign(i - j) [] i > j + h -> 1
                    [] OTHER -> IF i + 1 < j + h THEN -1 ELSE 0
        BY DEF ByLength
      <4>3. i > j + h => Sign(i - j) = 1
        <5> HIDE DEF i, j, h
        <5> QED BY <3>2, <4>1 DEF Sign
      <4> HIDE DEF i, j, h, far
      <4> QED BY <3>2, <3>3, <4>1, <4>2, <4>3
    <3>4. CASE e # 0
      BY <3>4 DEF ByLength
    <3> QED BY <3>3, <3>4
  <2> HIDE DEF i, j, h, s, m, n, far
  <2>6. CASE e = 0
    BY <2>1, <2>2, <2>3, <2>4, <2>5, <2>6 DEF Sign
  <2>7. CASE e # 0
    <3>1. i > j + h => s < i
      BY <2>2, <2>3
    <3>2. i + 1 < j + h => i < s
      BY <2>2, <2>3
    <3> QED BY <2>1, <2>2, <2>5, <2>7, <3>1, <3>2
  <2> QED BY <2>6, <2>7
<1>6. (far = 1 => c < a) /\ (far = -1 => a < c)
  <2>1. (k < m => c < a) /\ (m < k => a < c)
    <3> HIDE DEF c
    <3> QED BY <1>2, MoreDigits
  <2> HIDE DEF far, c, k, m, n
  <2> QED BY <1>1, <1>3, <1>5, <2>1
<1>7. decUnitCompare(a, b, e) = IF far # 0 THEN far ELSE Sign(a - c)
  BY DEF decUnitCompare
<1> HIDE DEF far, c
<1>8. (far = 1 => Sign(a - c) = 1) /\ (far = -1 => Sign(a - c) = -1)
  BY <1>2, <1>6 DEF Sign
<1>9. decUnitCompare(a, b, e) = Sign(a - c)
  BY <1>5, <1>7, <1>8
<1> QED BY <1>9 DEF c

\* What the reference compares by: rank, then the place of the first digit,
\* then value.
NumberRank(n) == CASE n.kind = "inf" -> IF n.neg THEN -2 ELSE 2
                   [] n.kind # "inf" /\ n.coef = 0 -> 0
                   [] OTHER -> IF n.neg THEN -1 ELSE 1

FirstPlace(n) == n.exp + Ref!Digits(n.coef)

Distance(l, r) ==
  LET e == Ref!Least({l.exp, r.exp})
  IN  CASE NumberRank(l) # NumberRank(r) \/ NumberRank(l) \in {-2, 0, 2} ->
             NumberRank(l) - NumberRank(r)
        [] NumberRank(l) = NumberRank(r) /\ NumberRank(l) \in {-1, 1} /\ FirstPlace(l) # FirstPlace(r) ->
             NumberRank(l) * (FirstPlace(l) - FirstPlace(r))
        [] OTHER -> Ref!AtExponent(l, e) - Ref!AtExponent(r, e)

LEMMA CompareByDistance ==
  ASSUME NEW l, NEW r
  PROVE  Ref!RefCompare(l, r) = Sign(Distance(l, r))
BY DEF Ref!RefCompare, Sign, Distance, NumberRank, FirstPlace

LEMMA RankIs ==
  ASSUME NEW n, n.neg \in BOOLEAN
  PROVE  NumberRank(n) = IF n.kind = "inf" THEN IF n.neg THEN -2 ELSE 2
                         ELSE IF n.coef = 0 THEN 0
                         ELSE IF n.neg THEN -1 ELSE 1
BY DEF NumberRank

\* How the code compares two numbers of one sign, neither zero nor infinite.
CompareCoefs(l, r, s) ==
  IF l.exp > r.exp THEN -s * decUnitCompare(r.coef, l.coef, l.exp - r.exp)
                   ELSE s * decUnitCompare(l.coef, r.coef, r.exp - l.exp)

LEMMA SameSignCompare ==
  ASSUME NEW l, NEW r, l.kind = "fin", r.kind = "fin", l.neg \in BOOLEAN, r.neg = l.neg,
         l.coef \in Nat \ {0}, r.coef \in Nat \ {0}, l.exp \in Int, r.exp \in Int
  PROVE  CompareCoefs(l, r, IF l.neg THEN -1 ELSE 1) = Ref!RefCompare(l, r)
<1> DEFINE e == IF l.exp <= r.exp THEN l.exp ELSE r.exp
           i == l.exp - e
           j == r.exp - e
           a == l.coef * TenTo[i]
           b == r.coef * TenTo[j]
           tl == FirstPlace(l)
           tr == FirstPlace(r)
           s == IF l.neg THEN -1 ELSE 1
           code == CompareCoefs(l, r, s)
           d == Distance(l, r)
<1>1. e \in Int /\ i \in Nat /\ j \in Nat /\ e <= l.exp /\ e <= r.exp
  OBVIOUS
<1>2. Ref!Least({l.exp, r.exp}) = e
  BY RefLeast
<1>3. /\ a \in Nat /\ b \in Nat
      /\ Ref!AtExponent(l, e) = IF l.neg THEN -a ELSE a
      /\ Ref!AtExponent(r, e) = IF l.neg THEN -b ELSE b
  <2> HIDE DEF e
  <2> QED BY <1>1, SignedAt
<1>4. code = s * Sign(a - b)
  <2>1. CASE l.exp > r.exp
    <3>1. e = r.exp /\ i = l.exp - r.exp /\ i \in Nat /\ j = 0
      BY <2>1
    <3>2. b = r.coef
      <4> HIDE DEF j
      <4> QED BY <3>1, TenZero
    <3>3. decUnitCompare(r.coef, l.coef, i) = Sign(r.coef - l.coef * TenTo[i])
      <4> HIDE DEF i
      <4> QED BY <3>1, UnitCompareIs
    <3>4. code = -s * Sign(b - a)
      <4>1. code = -s * decUnitCompare(r.coef, l.coef, i)
        <5> HIDE DEF i, s
        <5> QED BY <2>1, <3>1 DEF CompareCoefs
      <4> HIDE DEF i, s, b, code
      <4> QED BY <3>2, <3>3, <4>1
    <3> HIDE DEF a, b, code
    <3> QED BY <1>3, <3>4 DEF Sign
  <2>2. CASE ~(l.exp > r.exp)
    <3>1. e = l.exp /\ j = r.exp - l.exp /\ j \in Nat /\ i = 0
      BY <2>2
    <3>2. a = l.coef
      <4> HIDE DEF i
      <4> QED BY <3>1, TenZero
    <3>3. decUnitCompare(l.coef, r.coef, j) = Sign(l.coef - r.coef * TenTo[j])
      <4> HIDE DEF j
      <4> QED BY <3>1, UnitCompareIs
    <3>4. code = s * Sign(a - b)
      <4>1. code = s * decUnitCompare(l.coef, r.coef, j)
        <5> HIDE DEF j, s
        <5> QED BY <2>2, <3>1 DEF CompareCoefs
      <4> HIDE DEF j, s, a, code
      <4> QED BY <3>2, <3>3, <4>1
    <3> QED BY <3>4
  <2> QED BY <2>1, <2>2
<1>5. tl \in Int /\ tr \in Int /\ (tl > tr => a > b) /\ (tl < tr => a < b)
  <2> DEFINE m == Places(l.coef, 10)
             n == Places(r.coef, 10)
             ma == Places(a, 10)
             nb == Places(b, 10)
  <2>1. m \in Nat /\ n \in Nat
    BY Lengths
  <2>2. tl = l.exp + m /\ tr = r.exp + n
    BY RefDigits DEF FirstPlace
  <2>3. ma = m + i /\ nb = n + j
    <3> HIDE DEF i, j
    <3> QED BY <1>1, PadLength
  <2>4. (ma > nb => a > b) /\ (ma < nb => a < b)
    <3> HIDE DEF a, b
    <3> QED BY <1>3, MoreDigits
  <2>5. i = l.exp - e /\ j = r.exp - e
    OBVIOUS
  <2> HIDE DEF m, n, ma, nb, i, j, e, a, b, tl, tr
  <2> QED BY <1>1, <2>1, <2>2, <2>3, <2>4, <2>5
<1>6. NumberRank(l) = s /\ NumberRank(r) = s /\ s \in {-1, 1}
  BY RankIs
<1>7. d = IF tl # tr THEN s * (tl - tr) ELSE Ref!AtExponent(l, e) - Ref!AtExponent(r, e)
  <2> HIDE DEF s, tl, tr, e
  <2> QED BY <1>2, <1>6 DEF Distance, tl, tr
<1>8. Ref!RefCompare(l, r) = Sign(d)
  BY CompareByDistance
<1>9. Sign(d) = s * Sign(a - b)
  <2> HIDE DEF a, b, tl, tr, d, e
  <2>1. CASE l.neg
    <3>1. s = -1 /\ d = IF tl # tr THEN tr - tl ELSE b - a
      BY <1>3, <1>5, <1>7, <2>1
    <3> HIDE DEF s
    <3> QED BY <1>3, <1>5, <3>1 DEF Sign
  <2>2. CASE ~l.neg
    <3>1. s = 1 /\ d = IF tl # tr THEN tl - tr ELSE a - b
      BY <1>3, <1>5, <1>7, <2>2
    <3> HIDE DEF s
    <3> QED BY <1>3, <1>5, <3>1 DEF Sign
  <2> QED BY <2>1, <2>2
<1> HIDE DEF code, d, a, b
<1> QED BY <1>4, <1>8, <1>9 DEF code

\* The comparison of any two that are not NaNs.
LEMMA CompareRight ==
  ASSUME NEW l, Sound(l), NEW r, Sound(r), ~IsNaN(l), ~IsNaN(r)
  PROVE  /\ decCompare(l, r, FALSE) = Ref!RefCompare(l, r)
         /\ decCompare(l, r, FALSE) \in {-1, 0, 1}
<1> DEFINE x == Signum(l, FALSE)
           y == Signum(r, FALSE)
           i == NumberRank(l)
           j == NumberRank(r)
           li == l.kind = "inf"
           ri == r.kind = "inf"
           code == decCompare(l, r, FALSE)
           ref == Ref!RefCompare(l, r)
           d == Distance(l, r)
<1>1. /\ l.kind \in {"fin", "inf"} /\ r.kind \in {"fin", "inf"} /\ l.neg \in BOOLEAN /\ r.neg \in BOOLEAN
      /\ l.coef \in Nat /\ r.coef \in Nat /\ l.exp \in Int /\ r.exp \in Int
  BY FieldTypes DEF Sound, IsNaN
<1>2. \A n \in {l, r} : n.kind = "fin" => (ISZERO(n) <=> n.coef = 0)
  BY SoundFinite
<1>3. /\ x = (IF l.kind = "fin" /\ l.coef = 0 THEN 0 ELSE IF l.neg THEN -1 ELSE 1)
      /\ y = (IF r.kind = "fin" /\ r.coef = 0 THEN 0 ELSE IF r.neg THEN -1 ELSE 1)
  BY <1>1, <1>2 DEF Signum, ISZERO
<1>4. /\ i = (IF li THEN 2 * x ELSE x) /\ j = (IF ri THEN 2 * y ELSE y)
      /\ x \in {-1, 0, 1} /\ y \in {-1, 0, 1} /\ (li => x # 0) /\ (ri => y # 0)
  <2>1. /\ i = IF l.kind = "inf" THEN IF l.neg THEN -2 ELSE 2
               ELSE IF l.coef = 0 THEN 0
               ELSE IF l.neg THEN -1 ELSE 1
        /\ j = IF r.kind = "inf" THEN IF r.neg THEN -2 ELSE 2
               ELSE IF r.coef = 0 THEN 0
               ELSE IF r.neg THEN -1 ELSE 1
    BY <1>1, RankIs
  <2> HIDE DEF i, j, x, y
  <2> QED BY <1>1, <1>3, <2>1
<1>12. (li <=> l.kind = "inf") /\ (ri <=> r.kind = "inf") /\ li \in BOOLEAN /\ ri \in BOOLEAN
  OBVIOUS
<1>5. ref = Sign(d)
  BY CompareByDistance
<1>6. i # j \/ i \in {-2, 0, 2} => d = i - j
  BY DEF Distance
<1>7. code = CASE x # y -> Sign(x - y)
               [] x = y /\ x = 0 -> 0
               [] x = y /\ x # 0 /\ (li \/ ri) -> CompareInfinite(l, r, x)
               [] OTHER -> CompareCoefs(l, r, x)
  BY DEF decCompare, CompareCoefs
<1> HIDE DEF i, j, x, y, li, ri, d, ref, code
<1> DEFINE right == code = ref /\ code \in {-1, 0, 1}
<1>8. ASSUME x # y PROVE right
  <2>1. code = Sign(x - y)
    BY <1>7, <1>8
  <2>2. i # j /\ d = i - j
    BY <1>4, <1>6, <1>8
  <2>3. (i < j <=> x < y) /\ (i > j <=> x > y)
    <3>1. /\ (x = 1 => i \in {1, 2}) /\ (x = 0 => i = 0) /\ (x = -1 => i \in {-1, -2})
          /\ (y = 1 => j \in {1, 2}) /\ (y = 0 => j = 0) /\ (y = -1 => j \in {-1, -2})
      BY <1>4
    <3>2. x \in {-1, 0, 1} /\ y \in {-1, 0, 1}
      BY <1>4
    <3> QED BY <1>8, <3>1, <3>2
  <2> QED BY <1>4, <1>5, <2>1, <2>2, <2>3 DEF Sign
<1>9. ASSUME x = y, x = 0 PROVE right
  <2>1. code = 0
    BY <1>7, <1>9
  <2>2. d = 0
    BY <1>4, <1>6, <1>9
  <2> QED BY <1>5, <2>1, <2>2 DEF Sign
<1>10. ASSUME x = y, x # 0, li \/ ri PROVE right
  <2>1. code = CompareInfinite(l, r, x)
    BY <1>7, <1>10
  <2>2. CompareInfinite(l, r, x) = IF li /\ ri THEN 0 ELSE IF ri THEN -x ELSE x
    BY <1>10, <1>12 DEF CompareInfinite
  <2>3. d = i - j
    BY <1>4, <1>6, <1>10
  <2> QED BY <1>4, <1>5, <1>10, <2>1, <2>2, <2>3 DEF Sign
<1>11. ASSUME x = y, x # 0, ~li, ~ri PROVE right
  <2>1. l.kind = "fin" /\ r.kind = "fin"
    BY <1>1, <1>11, <1>12
  <2>2. l.coef # 0 /\ r.coef # 0 /\ r.neg = l.neg
    BY <1>1, <1>3, <1>11, <2>1
  <2>3. x = IF l.neg THEN -1 ELSE 1
    BY <1>3, <2>1, <2>2
  <2>4. CompareCoefs(l, r, IF l.neg THEN -1 ELSE 1) = ref
    BY <1>1, <2>1, <2>2, SameSignCompare DEF ref
  <2>5. ref \in {-1, 0, 1}
    BY <1>5 DEF Sign
  <2>6. code = CompareCoefs(l, r, x)
    BY <1>7, <1>11
  <2> QED BY <2>3, <2>4, <2>5, <2>6
<1>13. right
  BY <1>8, <1>9, <1>10, <1>11
<1> QED BY <1>13 DEF code, ref

\* The same comparison with its operands exchanged.
LEMMA CompareFlips ==
  ASSUME NEW l, NEW r, l.neg \in BOOLEAN, r.neg \in BOOLEAN, l.coef \in Nat, r.coef \in Nat,
         l.exp \in Int, r.exp \in Int
  PROVE  Ref!RefCompare(r, l) = -Ref!RefCompare(l, r)
<1> DEFINE i == NumberRank(l)
           j == NumberRank(r)
           m == FirstPlace(l)
           n == FirstPlace(r)
           e == IF l.exp <= r.exp THEN l.exp ELSE r.exp
           a == Ref!AtExponent(l, e)
           b == Ref!AtExponent(r, e)
           d == Distance(l, r)
           f == Distance(r, l)
<1>1. i \in -2 .. 2 /\ j \in -2 .. 2
  BY RankIs
<1>2. m \in Int /\ n \in Int
  <2>1. Places(l.coef, 10) \in Nat /\ Places(r.coef, 10) \in Nat
    BY Lengths
  <2> QED BY <2>1, RefDigits DEF FirstPlace
<1>3. a \in Int /\ b \in Int
  <2>1. e \in Int /\ e <= l.exp /\ e <= r.exp
    OBVIOUS
  <2> HIDE DEF e
  <2>2. l.coef * TenTo[l.exp - e] \in Nat /\ r.coef * TenTo[r.exp - e] \in Nat
    BY <2>1, SignedAt
  <2>3. /\ a = IF l.neg THEN -(l.coef * TenTo[l.exp - e]) ELSE l.coef * TenTo[l.exp - e]
        /\ b = IF r.neg THEN -(r.coef * TenTo[r.exp - e]) ELSE r.coef * TenTo[r.exp - e]
    BY <2>1, SignedAt
  <2> DEFINE u == l.coef * TenTo[l.exp - e]
             v == r.coef * TenTo[r.exp - e]
  <2>4. u \in Nat /\ v \in Nat /\ a = (IF l.neg THEN -u ELSE u) /\ b = (IF r.neg THEN -v ELSE v)
    BY <2>2, <2>3
  <2> HIDE DEF u, v, a, b
  <2> QED BY <2>4
<1>4. Ref!Least({l.exp, r.exp}) = e /\ Ref!Least({r.exp, l.exp}) = e
  <2>1. {r.exp, l.exp} = {l.exp, r.exp}
    OBVIOUS
  <2> QED BY <2>1, RefLeast
<1>5. /\ d = IF i # j \/ i \in {-2, 0, 2} THEN i - j ELSE IF m # n THEN i * (m - n) ELSE a - b
      /\ f = IF j # i \/ j \in {-2, 0, 2} THEN j - i ELSE IF n # m THEN j * (n - m) ELSE b - a
  <2>1. i = j /\ i \notin {-2, 0, 2} => i \in {-1, 1}
    <3> HIDE DEF i, j
    <3> QED BY <1>1
  <2>2. d = CASE i # j \/ i \in {-2, 0, 2} -> i - j
               [] i = j /\ i \in {-1, 1} /\ m # n -> i * (m - n)
               [] OTHER -> a - b
    BY <1>4 DEF Distance
  <2>3. f = CASE j # i \/ j \in {-2, 0, 2} -> j - i
               [] j = i /\ j \in {-1, 1} /\ n # m -> j * (n - m)
               [] OTHER -> b - a
    BY <1>4 DEF Distance
  <2> HIDE DEF i, j, m, n, a, b, d, f
  <2> QED BY <1>1, <2>1, <2>2, <2>3
<1>6. Ref!RefCompare(l, r) = Sign(d) /\ Ref!RefCompare(r, l) = Sign(f)
  BY CompareByDistance
<1> HIDE DEF i, j, m, n, a, b, d, f
<1>7. f = -d /\ d \in Int
  <2>1. CASE i # j \/ i \in {-2, 0, 2}
    BY <1>1, <1>5, <2>1
  <2>2. CASE i = j /\ i \in {-1, 1}
    BY <1>2, <1>3, <1>5, <2>2
  <2> QED BY <1>1, <2>1, <2>2
<1> QED BY <1>6, <1>7 DEF Sign

\* What a comparison returns.
LEMMA UnityIs ==
  ASSUME NEW c \in {-1, 0, 1}
  PROVE  Unity(c) = Ref!RefUnity(c)
<1> DEFINE cf == IF c = 0 THEN 0 ELSE 1
           neg == c < 0
<1>2. Unity(c) = Fin(neg, 1, cf, 0)
  <2> HIDE DEF cf, neg
  <2>1. Unity(c) = [decNumberZero EXCEPT !.coef = cf, !.neg = neg]
    BY DEF Unity, cf, neg
  <2> QED BY <2>1 DEF decNumberZero, Fin
<1>5. Ref!Abs(c) = cf
  BY DEF Ref!Abs
<1>6. Places(cf, 10) = 1
  <2>1. cf \in Nat /\ cf < TenTo[1] /\ TenTo[0] = 1 /\ (cf # 0 => cf >= TenTo[0])
    <3>1. TenTo[1] = 10 * TenTo[0] /\ TenTo[0] = 1
      BY TenZero, TenBefore
    <3> QED BY <3>1
  <2>2. CASE cf = 0
    BY <2>2, PlacesZero
  <2>3. CASE cf # 0
    <3>1. cf \in Nat /\ 1 \in Nat \ {0} /\ cf < TenTo[1] /\ cf >= TenTo[1 - 1]
      BY <2>1, <2>3
    <3> HIDE DEF cf
    <3> QED BY <3>1, LengthIs
  <2> QED BY <2>2, <2>3
<1>7. Ref!RefUnity(c) = Ref!Finite(neg, cf, 0)
  BY <1>5 DEF Ref!RefUnity
<1> HIDE DEF cf, neg
<1>8. Ref!Finite(neg, cf, 0) = Fin(neg, 1, cf, 0)
  BY <1>6, FinIs
<1> QED BY <1>2, <1>7, <1>8

\* What is returned as it is.
LEMMA DoneUnity ==
  ASSUME NEW c \in {-1, 0, 1}
  PROVE  Done(Work(Unity(c), 0, {})) = Ref!Exactly(Ref!RefUnity(c))
BY UnityIs, DoneExact

LEMMA CompareKept ==
  ASSUME NEW set, Settled(set), NEW op \in {"Compare", "CompareSignal"}, NEW l, Sound(l), NEW r, Sound(r)
  PROVE  Keeps(op, l, r, set, Done(decCompareOp(l, r, op, set)))
<1> DEFINE st == IF op = "CompareSignal" THEN {"Invalid_operation", "sNaN"} ELSE {}
           c == decCompare(l, r, FALSE)
           w == decCompareOp(l, r, op, set)
<1>1. w = CompareOperands([lhs |-> l, rhs |-> r, status |-> {}], op, set)
  BY WholeOperands DEF decCompareOp
<1>2. {} \cup When(op = "CompareSignal", {"Invalid_operation", "sNaN"}) = st
  BY DEF When
<1>3. w = IF IsNaN(l) \/ IsNaN(r) THEN decNaNs(l, r, set, st) ELSE Work(Unity(c), 0, {})
  <2> HIDE DEF st, c, w
  <2> QED BY <1>1, <1>2 DEF CompareOperands, c
<1>4. op \in Plain
  BY DEF Plain
<1>5. CASE IsNaN(l) \/ IsNaN(r)
  <2>1. Keeps(op, l, r, set, Done(decNaNs(l, r, set, st)))
    <3>1. st = IF op = "CompareSignal" THEN {"Invalid_operation", "sNaN"} ELSE {}
      OBVIOUS
    <3> HIDE DEF st
    <3> QED BY <1>4, <1>5, <3>1, PlainNaN
  <2>2. w = decNaNs(l, r, set, st)
    <3> HIDE DEF w, st, c
    <3> QED BY <1>3, <1>5
  <2> HIDE DEF w, st
  <2> QED BY <2>1, <2>2 DEF w
<1>6. CASE ~IsNaN(l) /\ ~IsNaN(r)
  <2>1. w = Work(Unity(c), 0, {})
    <3> HIDE DEF w, st, c
    <3> QED BY <1>3, <1>6
  <2>2. c = Ref!RefCompare(l, r) /\ c \in {-1, 0, 1}
    BY <1>6, CompareRight
  <2>3. Ref!Reference(op, l, r, set) = Ref!Exactly(Ref!RefUnity(Ref!RefCompare(l, r)))
    BY DEF Ref!Reference, Ref!Logicals
  <2> DEFINE out == Done(w)
  <2>4. out = Ref!Reference(op, l, r, set)
    <3> HIDE DEF c, w
    <3> QED BY <2>1, <2>2, <2>3, DoneUnity
  <2>5. out = [n |-> out.n, status |-> out.status]
    BY DoneFields
  <2> HIDE DEF out
  <2>6. Keeps(op, l, r, set, out)
    BY <1>4, <1>6, <2>4, <2>5, PlainKept
  <2> QED BY <2>6 DEF out
<1> QED BY <1>5, <1>6

\* The total order, of numbers whose NaNs have no exponent.
LEMMA TotalRight ==
  ASSUME NEW l, Sound(l), NEW r, Sound(r), IsNaN(l) => l.exp = 0, IsNaN(r) => r.exp = 0
  PROVE  TotalOrder(l, r) = Ref!RefTotal(l, r) /\ TotalOrder(l, r) \in {-1, 0, 1}
<1> DEFINE code == TotalOrder(l, r)
           ref == Ref!RefTotal(l, r)
           flip == IF l.neg THEN -1 ELSE 1
           k == IF l.kind = "snan" THEN 1 ELSE IF l.kind = "nan" THEN 2 ELSE 0
           m == IF r.kind = "snan" THEN 1 ELSE IF r.kind = "nan" THEN 2 ELSE 0
           c == decCompare(l, r, FALSE)
           u == decUnitCompare(l.coef, r.coef, 0)
           right == code = ref /\ code \in {-1, 0, 1}
           ex == Sign(l.exp - r.exp)
<1>1. /\ l.kind \in {"fin", "inf", "nan", "snan"} /\ r.kind \in {"fin", "inf", "nan", "snan"}
      /\ l.neg \in BOOLEAN /\ r.neg \in BOOLEAN
      /\ l.coef \in Nat /\ r.coef \in Nat /\ l.exp \in Int /\ r.exp \in Int
  BY FieldTypes DEF Sound
<1>2. u = Sign(l.coef - r.coef)
  <2>1. u = Sign(l.coef - r.coef * TenTo[0])
    <3>1. 0 \in Nat
      OBVIOUS
    <3> QED BY <1>1, <3>1, UnitCompareIs
  <2>2. r.coef * TenTo[0] = r.coef
    BY <1>1, TenZero
  <2> HIDE DEF u
  <2> QED BY <2>1, <2>2
<1>3. (IsNaN(l) <=> k > 0) /\ (IsNaN(r) <=> m > 0) /\ k \in {0, 1, 2} /\ m \in {0, 1, 2}
  BY <1>1 DEF IsNaN
<1> DEFINE beyond == k < m \/ (k = m /\ k > 0 /\ l.coef < r.coef)
           lb == Ref!RefBelow(l, r)
           rb == Ref!RefBelow(r, l)
           same == /\ l.neg = r.neg /\ k = m
                   /\ IF k > 0 THEN l.coef = r.coef ELSE ~lb /\ ~rb
           below == CASE l.neg # r.neg -> l.neg
                      [] l.neg = r.neg /\ (k > 0 \/ m > 0) -> beyond # l.neg
                      [] OTHER -> lb
           kinds == IF k = 0 THEN -1 ELSE IF m = 0 THEN 1 ELSE IF k = m THEN u
                    ELSE IF k = 1 THEN -1 ELSE 1
           value == IF k > 0 \/ m > 0 THEN flip * kinds ELSE c
<1>4. ref = IF same THEN 0 ELSE IF below THEN -1 ELSE 1
  <2>1. /\ k = CASE l.kind = "snan" -> 1 [] l.kind = "nan" -> 2 [] OTHER -> 0
        /\ m = CASE r.kind = "snan" -> 1 [] r.kind = "nan" -> 2 [] OTHER -> 0
    OBVIOUS
  <2> HIDE DEF k, m, lb, rb, ref
  <2> QED BY <2>1 DEF Ref!RefTotal, ref, lb, rb
<1>5. code = CASE l.neg /\ ~r.neg -> -1
               [] ~l.neg /\ r.neg -> 1
               [] OTHER -> IF value # 0 THEN value ELSE flip * ex
  <2>1. kinds = CASE ~IsNaN(l) -> -1
                  [] IsNaN(l) /\ ~IsNaN(r) -> 1
                  [] OTHER -> IF l.kind = r.kind THEN u ELSE IF l.kind = "snan" THEN -1 ELSE 1
    <3>1. IsNaN(l) /\ IsNaN(r) => (l.kind = r.kind <=> k = m) /\ (l.kind = "snan" <=> k = 1)
      BY <1>1 DEF IsNaN
    <3> HIDE DEF k, m, u
    <3> QED BY <1>3, <3>1
  <2>2. value = IF IsNaN(l) \/ IsNaN(r) THEN flip * kinds ELSE c
    <3> HIDE DEF k, m, kinds, flip, c
    <3> QED BY <1>3
  <2> HIDE DEF kinds, value
  <2> QED BY <2>1, <2>2 DEF TotalOrder
<1>6. k = 0 /\ m = 0 => /\ c = Ref!RefCompare(l, r) /\ c \in {-1, 0, 1}
                        /\ Ref!RefCompare(r, l) = -Ref!RefCompare(l, r)
  <2>1. k = 0 /\ m = 0 => ~IsNaN(l) /\ ~IsNaN(r)
    <3> HIDE DEF k, m
    <3> QED BY <1>3
  <2>2. ~IsNaN(l) /\ ~IsNaN(r) => c = Ref!RefCompare(l, r) /\ c \in {-1, 0, 1}
    BY CompareRight
  <2>3. Ref!RefCompare(r, l) = -Ref!RefCompare(l, r)
    BY <1>1, CompareFlips
  <2> HIDE DEF k, m, c
  <2> QED BY <2>1, <2>2, <2>3
<1>7. k > 0 /\ m > 0 => ex = 0
  <2>1. k > 0 /\ m > 0 => l.exp = 0 /\ r.exp = 0
    <3> HIDE DEF k, m
    <3> QED BY <1>3
  <2> HIDE DEF k, m
  <2> QED BY <2>1 DEF Sign
<1>8. /\ k = 0 /\ m = 0 /\ l.neg = r.neg =>
           /\ lb <=> (c < 0 \/ (c = 0 /\ IF l.neg THEN l.exp > r.exp ELSE l.exp < r.exp))
           /\ rb <=> (-c < 0 \/ (-c = 0 /\ IF l.neg THEN r.exp > l.exp ELSE r.exp < l.exp))
  <2> DEFINE a == Ref!RefCompare(l, r)
             b == Ref!RefCompare(r, l)
  <2>1. /\ lb <=> (\/ a < 0
                   \/ a = 0 /\ l.neg /\ ~r.neg
                   \/ a = 0 /\ l.neg = r.neg /\ (IF l.neg THEN l.exp > r.exp ELSE l.exp < r.exp))
        /\ rb <=> (\/ b < 0
                   \/ b = 0 /\ r.neg /\ ~l.neg
                   \/ b = 0 /\ r.neg = l.neg /\ (IF r.neg THEN r.exp > l.exp ELSE r.exp < l.exp))
    BY DEF Ref!RefBelow
  <2>2. k = 0 /\ m = 0 => c = a /\ b = -a
    <3> HIDE DEF k, m, c
    <3> QED BY <1>6
  <2> HIDE DEF k, m, c, a, b, lb, rb
  <2> QED BY <1>1, <2>1, <2>2
<1>9. ex \in {-1, 0, 1} /\ (ex < 0 <=> l.exp < r.exp) /\ (ex > 0 <=> l.exp > r.exp)
  BY <1>1 DEF Sign
<1>10. u \in {-1, 0, 1} /\ (u < 0 <=> l.coef < r.coef) /\ (u = 0 <=> l.coef = r.coef)
  <2> HIDE DEF u
  <2> QED BY <1>1, <1>2 DEF Sign
<1>11. flip = (IF l.neg THEN -1 ELSE 1) /\ lb \in BOOLEAN /\ rb \in BOOLEAN
  BY DEF Ref!RefBelow
<1> HIDE DEF code, ref, flip, k, m, c, u, ex, lb, rb
<1>12. ASSUME l.neg # r.neg PROVE right
  <2>1. code = IF l.neg THEN -1 ELSE 1
    <3> HIDE DEF value
    <3> QED BY <1>1, <1>5, <1>12
  <2>2. ~same /\ (below <=> l.neg)
    <3> HIDE DEF beyond
    <3> QED BY <1>12
  <2> HIDE DEF same, below
  <2> QED BY <1>4, <2>1, <2>2
<1>13. ASSUME l.neg = r.neg, k > 0 \/ m > 0 PROVE right
  <2>1. code = IF flip * kinds # 0 THEN flip * kinds ELSE flip * ex
    <3> HIDE DEF kinds
    <3> QED BY <1>1, <1>5, <1>13
  <2>2. ref = IF k = m /\ l.coef = r.coef THEN 0 ELSE IF beyond # l.neg THEN -1 ELSE 1
    <3>1. same <=> k = m /\ l.coef = r.coef
      BY <1>3, <1>13
    <3>2. below <=> (beyond # l.neg)
      <4> HIDE DEF beyond
      <4> QED BY <1>13
    <3> HIDE DEF same, below, beyond
    <3> QED BY <1>4, <3>1, <3>2
  <2>3. kinds \in {-1, 0, 1} /\ (kinds = 0 <=> k = m /\ l.coef = r.coef) /\ (kinds < 0 <=> beyond) /\ beyond \in BOOLEAN
    BY <1>1, <1>3, <1>10, <1>13
  <2>4. kinds = 0 => ex = 0
    <3> HIDE DEF kinds, beyond
    <3> QED BY <1>3, <1>7, <1>13, <2>3
  <2> HIDE DEF kinds, beyond
  <2>5. CASE l.neg
    <3>1. flip = -1
      BY <1>11, <2>5
    <3>2. (beyond # l.neg) <=> ~beyond
      BY <1>1, <2>3, <2>5
    <3> QED BY <2>1, <2>2, <2>3, <2>4, <3>1, <3>2
  <2>6. CASE ~l.neg
    <3>1. flip = 1
      BY <1>11, <2>6
    <3> QED BY <1>1, <2>1, <2>2, <2>3, <2>4, <2>6, <3>1
  <2> QED BY <2>5, <2>6
<1>14. ASSUME l.neg = r.neg, k = 0, m = 0 PROVE right
  <2>1. code = IF c # 0 THEN c ELSE flip * ex
    <3> HIDE DEF kinds
    <3> QED BY <1>1, <1>5, <1>14
  <2>2. ref = IF ~lb /\ ~rb THEN 0 ELSE IF lb THEN -1 ELSE 1
    <3>1. same <=> ~lb /\ ~rb
      BY <1>14
    <3>2. below <=> lb
      <4> HIDE DEF beyond
      <4> QED BY <1>11, <1>14
    <3> HIDE DEF same, below, beyond
    <3> QED BY <1>4, <3>1, <3>2
  <2>3. c \in {-1, 0, 1}
    BY <1>6, <1>14
  <2>4. /\ lb <=> (c < 0 \/ (c = 0 /\ IF l.neg THEN ex > 0 ELSE ex < 0))
        /\ rb <=> (c > 0 \/ (c = 0 /\ IF l.neg THEN ex < 0 ELSE ex > 0))
    BY <1>1, <1>8, <1>9, <1>14, <2>3
  <2>5. CASE l.neg
    <3>1. flip = -1
      BY <1>11, <2>5
    <3> QED BY <1>9, <2>1, <2>2, <2>3, <2>4, <2>5, <3>1
  <2>6. CASE ~l.neg
    <3>1. flip = 1
      BY <1>11, <2>6
    <3> QED BY <1>9, <2>1, <2>2, <2>3, <2>4, <2>6, <3>1
  <2> QED BY <2>5, <2>6
<1>15. right
  <2>1. (k > 0 \/ m > 0) \/ (k = 0 /\ m = 0)
    BY <1>3
  <2> HIDE DEF right
  <2> QED BY <1>12, <1>13, <1>14, <2>1
<1> QED BY <1>15 DEF code, ref

\* Another sign.
LEMMA InfinityWith ==
  ASSUME NEW a, NEW v, NEW n, n = Infinity(a)
  PROVE  [n EXCEPT !.neg = v] = Infinity(v)
BY DEF Infinity, decNumberZero

\* Number without its sign.
LEMMA MagnitudeIs ==
  ASSUME NEW n, Sound(n)
  PROVE  LET m == Ref!Magnitude(n)
         IN  /\ m = [n EXCEPT !.neg = FALSE] /\ Sound(m)
             /\ m.neg = FALSE /\ m.kind = n.kind /\ m.coef = n.coef /\ m.exp = n.exp /\ m.digits = n.digits
             /\ IsNaN(m) <=> IsNaN(n)
<1> DEFINE m == Ref!Magnitude(n)
<1>1. m = [n EXCEPT !.neg = FALSE] /\ n \in Number
  BY DEF Ref!Magnitude, Sound
<1>2. m \in Number /\ m.neg = FALSE /\ m.kind = n.kind /\ m.coef = n.coef /\ m.exp = n.exp /\ m.digits = n.digits
  <2> HIDE DEF m
  <2> QED BY <1>1 DEF Number
<1>3. n.kind = "inf" => m = Infinity(m.neg)
  <2> HIDE DEF m
  <2> SUFFICES ASSUME n.kind = "inf" PROVE m = Infinity(m.neg)
    OBVIOUS
  <2> DEFINE v == FALSE
             a == n.neg
  <2>1. n = Infinity(a)
    BY DEF Sound
  <2>2. m = [n EXCEPT !.neg = v] /\ m.neg = v
    BY <1>1, <1>2
  <2> HIDE DEF v, a
  <2>3. [n EXCEPT !.neg = v] = Infinity(v)
    BY <2>1, InfinityWith
  <2> QED BY <2>2, <2>3
<1>4. IsNaN(m) <=> IsNaN(n)
  <2> HIDE DEF m
  <2> QED BY <1>2 DEF IsNaN
<1>5. Sound(m)
  <2> HIDE DEF m
  <2>1. /\ n.kind = "fin" => n.digits = Places(n.coef, 10)
        /\ IsNaN(n) => n.coef < TenTo[n.digits]
    BY DEF Sound
  <2>2. /\ m.kind = "fin" => m.digits = Places(m.coef, 10)
        /\ IsNaN(m) => m.coef < TenTo[m.digits]
    BY <1>2, <1>4, <2>1
  <2>3. m.kind = "inf" => m = Infinity(m.neg)
    BY <1>2, <1>3
  <2> QED BY <1>2, <2>2, <2>3 DEF Sound
<1> HIDE DEF m
<1> QED BY <1>1, <1>2, <1>4, <1>5 DEF m

\* The order of all data is kept.
TotalKept ==
  \A set, l, r : /\ Settled(set) /\ Sound(l) /\ Sound(r)
                 /\ IsNaN(l) => l.exp = 0
                 /\ IsNaN(r) => r.exp = 0
    => /\ Keeps("CompareTotal", l, r, set, decNumberCompareTotal(l, r, set))
       /\ Keeps("CompareTotalMag", l, r, set, decNumberCompareTotalMag(l, r, set))

LEMMA CompareTotalIs ==
  ASSUME NEW set, Settled(set), NEW l, Sound(l), NEW r, Sound(r), IsNaN(l) => l.exp = 0, IsNaN(r) => r.exp = 0
  PROVE  LET out == decNumberCompareTotal(l, r, set)
         IN  /\ out = Ref!Exactly(Ref!RefUnity(Ref!RefTotal(l, r)))
             /\ out = [n |-> out.n, status |-> out.status]
<1> DEFINE w == decCompareOp(l, r, "CompareTotal", set)
           c == TotalOrder(l, r)
<1>1. w = CompareOperands([lhs |-> l, rhs |-> r, status |-> {}], "CompareTotal", set)
  BY WholeOperands DEF decCompareOp
<1>2. w = Work(Unity(c), 0, {})
  <2> HIDE DEF w, c
  <2> QED BY <1>1 DEF CompareOperands, c
<1>3. c = Ref!RefTotal(l, r) /\ c \in {-1, 0, 1}
  BY TotalRight
<1>4. decNumberCompareTotal(l, r, set) = Done(w)
  BY DEF decNumberCompareTotal
<1> HIDE DEF w, c
<1>5. Done(w) = Ref!Exactly(Ref!RefUnity(c))
  BY <1>2, <1>3, DoneUnity
<1>6. Done(w) = [n |-> Done(w).n, status |-> Done(w).status]
  BY DoneFields
<1> QED BY <1>3, <1>4, <1>5, <1>6

LEMMA TotalsKept == TotalKept
<1> SUFFICES ASSUME NEW set, NEW l, NEW r, Settled(set), Sound(l), Sound(r),
                    IsNaN(l) => l.exp = 0, IsNaN(r) => r.exp = 0
             PROVE  /\ Keeps("CompareTotal", l, r, set, decNumberCompareTotal(l, r, set))
                    /\ Keeps("CompareTotalMag", l, r, set, decNumberCompareTotalMag(l, r, set))
  BY DEF TotalKept
<1> DEFINE x == Ref!Magnitude(l)
           y == Ref!Magnitude(r)
           out == decNumberCompareTotal(l, r, set)
           mag == decNumberCompareTotal(x, y, set)
<1>1. /\ Sound(x) /\ Sound(y) /\ x = [l EXCEPT !.neg = FALSE] /\ y = [r EXCEPT !.neg = FALSE]
      /\ (IsNaN(x) => x.exp = 0) /\ (IsNaN(y) => y.exp = 0)
  BY MagnitudeIs
<1>2. decNumberCompareTotalMag(l, r, set) = mag
  <2> HIDE DEF x, y
  <2> QED BY <1>1 DEF decNumberCompareTotalMag
<1>3. out = Ref!Exactly(Ref!RefUnity(Ref!RefTotal(l, r))) /\ out = [n |-> out.n, status |-> out.status]
  BY CompareTotalIs
<1>4. mag = Ref!Exactly(Ref!RefUnity(Ref!RefTotal(x, y))) /\ mag = [n |-> mag.n, status |-> mag.status]
  <2> HIDE DEF x, y
  <2> QED BY <1>1, CompareTotalIs
<1>5. \A op \in {"CompareTotal", "CompareTotalMag"} :
        ~Ref!Unary(op) /\ ~Ref!NaNDecides(op, l, r) /\ op \in Ref!Determined
  BY DEF Ref!Unary, Ref!NaNDecides, Ref!Logicals, Ref!Determined
<1>6. \A op \in {"CompareTotal", "CompareTotalMag"} : \A o :
        Ref!Correct(op, l, r, set, o) <=> o = Ref!Reference(op, l, r, set)
  BY <1>5 DEF Ref!Correct
<1>7. /\ Ref!Reference("CompareTotal", l, r, set) = Ref!Exactly(Ref!RefUnity(Ref!RefTotal(l, r)))
      /\ Ref!Reference("CompareTotalMag", l, r, set) = Ref!Exactly(Ref!RefUnity(Ref!RefTotal(x, y)))
  BY DEF Ref!Reference, Ref!Logicals
<1> HIDE DEF out, mag, x, y
<1>8. Keeps("CompareTotal", l, r, set, out) /\ Keeps("CompareTotalMag", l, r, set, mag)
  BY <1>3, <1>4, <1>6, <1>7 DEF Keeps
<1> QED BY <1>2, <1>8 DEF out

\* An infinity is within every context.
LEMMA InfinityStays ==
  ASSUME NEW set, Settled(set), NEW neg, NEW n, n = Infinity(neg)
  PROVE  decFinish(decCopyFit(n, set.digits, 0, {}), set) = Work(n, 0, {})
<1> DEFINE w == Work(n, 0, {})
           p == set.digits
           top == Etop(set)
<1>1. n.kind = "inf" /\ n.digits = 1 /\ n.coef = 0 /\ n.exp = 0 /\ [n EXCEPT !.coef = 0, !.digits = 1] = n
  <2>1. n = [neg |-> neg, kind |-> "inf", digits |-> 1, coef |-> 0, exp |-> 0]
    BY DEF Infinity, decNumberZero
  <2>2. n.kind = "inf" /\ n.digits = 1 /\ n.coef = 0 /\ n.exp = 0
    BY <2>1
  <2> DEFINE z == 0
             i == 1
  <2>3. n = [neg |-> neg, kind |-> "inf", digits |-> i, coef |-> z, exp |-> z]
    BY <2>1
  <2> HIDE DEF z, i
  <2>4. [n EXCEPT !.coef = z, !.digits = i] = n
    <3>1. [n EXCEPT !.coef = z] = n
      BY <2>3
    <3>2. [n EXCEPT !.digits = i] = n
      BY <2>3
    <3> QED BY <3>1, <3>2, InTurn
  <2> QED BY <2>2, <2>4 DEF z, i
<1>2. /\ p \in Nat \ {0} /\ set.emin \in Int /\ set.emin <= 0 /\ set.emax \in Nat /\ top \in Int
      /\ set.clamp \in BOOLEAN /\ (set.clamp => top >= 0)
  BY RangeIs DEF Settled
<1>3. w.n = n /\ w.residue = 0 /\ w.status = {}
  BY WorkFields
<1>4. decCopyFit(n, p, 0, {}) = decSetCoeff(w, p, 0, 1)
  BY <1>1 DEF decCopyFit
<1> HIDE DEF w, p, top
<1>5. 1 - p <= 0
  BY <1>2
<1>6. decSetCoeff(w, p, 0, 1) = Inexactly(Holding(w, [w.n EXCEPT !.coef = 0, !.digits = 1]))
  BY <1>5 DEF decSetCoeff
<1>7. Holding(w, [w.n EXCEPT !.coef = 0, !.digits = 1]) = w
  BY <1>1, <1>3 DEF Holding, w
<1>8. Inexactly(w) = w
  BY <1>3 DEF Inexactly, Flagged, When, w
<1>9. decFinish(w, set) = decFinalize(w, set)
  BY FinishIs
<1>10. decApplyRound(w, set) = w
  BY <1>3 DEF decApplyRound, Bumped
<1>11. decFinalize(w, set) = WithinRange(w, set)
  <2> DEFINE tinyexp == set.emin - w.n.digits + 1
  <2>1. tinyexp = set.emin
    BY <1>1, <1>2, <1>3
  <2> HIDE DEF tinyexp
  <2>2. ~(w.n.exp < tinyexp) /\ ~(w.residue < 0)
    BY <1>1, <1>2, <1>3, <2>1
  <2> QED BY <1>10, <2>2 DEF decFinalize, InRange, tinyexp
<1>12. WithinRange(w, set) = w
  <2>1. ~TooBig(w.n, set)
    BY <1>1, <1>2, <1>3 DEF TooBig
  <2>2. w.n.exp <= top \/ ~set.clamp
    BY <1>1, <1>2, <1>3
  <2> QED BY <2>1, <2>2 DEF WithinRange, top
<1> QED BY <1>4, <1>6, <1>7, <1>8, <1>9, <1>11, <1>12 DEF w, p

\* The number that is chosen, rounded.
LEMMA ChoiceRight ==
  ASSUME NEW set, Settled(set), NEW n, Sound(n), ~IsNaN(n)
  PROVE  Done(decFinish(decCopyFit(n, set.digits, 0, {}), set))
           = IF n.kind = "inf" THEN Ref!Exactly(n) ELSE Ref!RoundTo(n.neg, n.coef, n.exp, set)
<1> DEFINE w == decFinish(decCopyFit(n, set.digits, 0, {}), set)
<1>1. CASE n.kind = "inf"
  <2>1. n = Infinity(n.neg)
    BY <1>1 DEF Sound
  <2>2. w = Work(n, 0, {})
    <3> DEFINE a == n.neg
    <3>1. n = Infinity(a)
      BY <2>1
    <3> HIDE DEF a
    <3> QED BY <3>1, InfinityStays
  <2> HIDE DEF w
  <2>3. Done(w) = Ref!Exactly(n)
    BY <2>2, DoneExact
  <2> QED BY <1>1, <2>3 DEF w
<1>2. CASE n.kind # "inf"
  <2>1. n.kind = "fin"
    <3>1. n.kind \in {"fin", "inf", "nan", "snan"}
      BY FieldTypes DEF Sound
    <3> QED BY <1>2, <3>1 DEF IsNaN
  <2>2. /\ n = Fin(n.neg, n.digits, n.coef, n.exp)
        /\ n.neg \in BOOLEAN /\ n.coef \in Nat /\ n.exp \in Int
        /\ n.digits = Places(n.coef, 10)
    BY <2>1, SoundFinite
  <2> DEFINE a == n.neg
             d == n.digits
             c == n.coef
             x == n.exp
             cut == decSetCoeff(Work(Fin(a, d, c, x), 0, {}), set.digits, c, d)
  <2>3. n = Fin(a, d, c, x) /\ a \in BOOLEAN /\ c \in Nat /\ x \in Int /\ d = Places(c, 10)
    BY <2>2
  <2> HIDE DEF a, d, c, x
  <2>4. decCopyFit(n, set.digits, 0, {}) = cut
    BY <2>3, CopyFitIs
  <2>5. w = decFinalize(cut, set)
    <3> HIDE DEF cut
    <3> QED BY <2>4, FinishIs
  <2>6. Gives(decFinalize(cut, set), Ref!RoundTo(a, c, x, set))
    <3>1. cut = decSetCoeff(Work(Fin(a, d, c, x), 0, {}), set.digits, c, Places(c, 10))
      BY <2>3
    <3> HIDE DEF cut
    <3> QED BY <2>3, <3>1, RoundedRight
  <2> HIDE DEF w, cut
  <2>7. Done(w) = Ref!RoundTo(a, c, x, set)
    BY <2>5, <2>6, DoneRounded
  <2> QED BY <1>2, <2>7 DEF w, a, c, x
<1> QED BY <1>1, <1>2

\* A comparison with and without the signs.
CompareForm(l, r, t) ==
  /\ t \in {-1, 0, 1}
  /\ \A abs \in BOOLEAN :
       decCompare(l, r, abs) = IF Signum(l, abs) # Signum(r, abs) THEN Sign(Signum(l, abs) - Signum(r, abs))
                               ELSE IF Signum(l, abs) = 0 THEN 0 ELSE Signum(l, abs) * t

LEMMA CompareForms == ASSUME NEW l, NEW r PROVE \E t : CompareForm(l, r, t)
<1> DEFINE u == decUnitCompare(r.coef, l.coef, l.exp - r.exp)
           v == decUnitCompare(l.coef, r.coef, r.exp - l.exp)
           li == l.kind = "inf"
           ri == r.kind = "inf"
           h == IF li /\ ri THEN 0 ELSE IF ri THEN -1 ELSE 1
           o == IF l.exp > r.exp THEN -u ELSE v
           t == IF li \/ ri THEN h ELSE o
<1>1. \A a, b, e : decUnitCompare(a, b, e) \in {-1, 0, 1}
  <2> TAKE a, b, e
  <2> DEFINE far == ByLength(D2U(Places(a, 10)), D2U(Places(b, 10)), e)
  <2>1. far \in {-1, 0, 1}
    BY DEF ByLength, Sign
  <2>2. decUnitCompare(a, b, e) = IF far # 0 THEN far ELSE Sign(a - b * TenTo[e])
    BY DEF decUnitCompare
  <2> HIDE DEF far
  <2> QED BY <2>1, <2>2 DEF Sign
<1>2. u \in {-1, 0, 1} /\ v \in {-1, 0, 1}
  BY <1>1
<1>3. t \in {-1, 0, 1} /\ h \in {-1, 0, 1} /\ o \in {-1, 0, 1}
  <2> HIDE DEF u, v
  <2> QED BY <1>2
<1>4. ASSUME NEW k \in {-1, 1}
      PROVE  (IF l.exp > r.exp THEN -k * u ELSE k * v) = k * o
  <2> HIDE DEF u, v
  <2> QED BY <1>2
<1>5. ASSUME NEW k \in {-1, 1}, li \/ ri
      PROVE  CompareInfinite(l, r, k) = k * h
  BY <1>5 DEF CompareInfinite
<1>6. ASSUME NEW abs \in BOOLEAN
      PROVE  decCompare(l, r, abs) = IF Signum(l, abs) # Signum(r, abs) THEN Sign(Signum(l, abs) - Signum(r, abs))
                                     ELSE IF Signum(l, abs) = 0 THEN 0 ELSE Signum(l, abs) * t
  <2> DEFINE x == Signum(l, abs)
             y == Signum(r, abs)
             c == decCompare(l, r, abs)
  <2>1. x \in {-1, 0, 1} /\ y \in {-1, 0, 1}
    BY DEF Signum
  <2>2. c = CASE x # y -> Sign(x - y)
              [] x = y /\ x = 0 -> 0
              [] x = y /\ x # 0 /\ (li \/ ri) -> CompareInfinite(l, r, x)
              [] OTHER -> IF l.exp > r.exp THEN -x * u ELSE x * v
    BY DEF decCompare
  <2> DEFINE q == IF x # y THEN Sign(x - y) ELSE IF x = 0 THEN 0 ELSE x * t
  <2> HIDE DEF x, y, c, u, v, h, o, li, ri
  <2>3. ASSUME x # y \/ x = 0 PROVE c = q
    BY <2>1, <2>2, <2>3
  <2>4. ASSUME x = y, x # 0, li \/ ri PROVE c = q
    <3>1. c = x * h /\ t = h
      BY <1>5, <2>1, <2>2, <2>4
    <3> HIDE DEF t
    <3> QED BY <2>4, <3>1
  <2>5. ASSUME x = y, x # 0, ~(li \/ ri) PROVE c = q
    <3>1. c = (IF l.exp > r.exp THEN -x * u ELSE x * v) /\ t = o
      BY <2>2, <2>5
    <3>2. x \in {-1, 1}
      BY <2>1, <2>5
    <3>3. c = x * o
      BY <1>4, <3>1, <3>2
    <3> HIDE DEF t
    <3> QED BY <2>5, <3>1, <3>3
  <2>6. c = q
    <3> HIDE DEF q
    <3> QED BY <2>3, <2>4, <2>5
  <2> QED BY <2>6 DEF c, x, y
<1> HIDE DEF t
<1>7. CompareForm(l, r, t)
  BY <1>3, <1>6 DEF CompareForm
<1> QED BY <1>7

\* Numbers of one magnitude.
ByValue(l, r) == decCompare(l, r, FALSE)
SameMagnitude(l, r) == decCompare(l, r, TRUE) = 0

\* What their signs say of a comparison.
BySign(l, r, c) == /\ l.neg = r.neg => c = 0
                   /\ l.neg /\ ~r.neg => c <= 0
                   /\ ~l.neg /\ r.neg => c >= 0

LEMMA EqualMagnitudes ==
  ASSUME NEW l, NEW r, l.neg \in BOOLEAN, r.neg \in BOOLEAN, SameMagnitude(l, r)
  PROVE  BySign(l, r, ByValue(l, r))
<1>1. PICK t : CompareForm(l, r, t)
  BY CompareForms
<1> DEFINE x == Signum(l, FALSE)
           y == Signum(r, FALSE)
           a == Signum(l, TRUE)
           b == Signum(r, TRUE)
           c == decCompare(l, r, FALSE)
           d == decCompare(l, r, TRUE)
<1>2. /\ c = IF x # y THEN Sign(x - y) ELSE IF x = 0 THEN 0 ELSE x * t
      /\ d = IF a # b THEN Sign(a - b) ELSE IF a = 0 THEN 0 ELSE a * t
      /\ t \in {-1, 0, 1}
  BY <1>1 DEF CompareForm
<1>3. /\ x = (IF ISZERO(l) THEN 0 ELSE IF l.neg THEN -1 ELSE 1)
      /\ y = (IF ISZERO(r) THEN 0 ELSE IF r.neg THEN -1 ELSE 1)
      /\ a = (IF ISZERO(l) THEN 0 ELSE 1)
      /\ b = (IF ISZERO(r) THEN 0 ELSE 1)
  BY DEF Signum
<1>4. d = 0
  BY DEF SameMagnitude
<1> HIDE DEF x, y, a, b, c, d
<1>5. ISZERO(l) = ISZERO(r) /\ (~ISZERO(l) => t = 0)
  BY <1>2, <1>3, <1>4 DEF Sign, ISZERO
<1>6. BySign(l, r, c)
  BY <1>2, <1>3, <1>5 DEF Sign, BySign
<1> QED BY <1>6 DEF c, ByValue

\* Equal numbers, to the exponent.
LEMMA SameNumber ==
  ASSUME NEW l, Sound(l), NEW r, Sound(r), ~IsNaN(l), ~IsNaN(r), l.neg = r.neg, l.exp = r.exp,
         decCompare(l, r, FALSE) = 0
  PROVE  l = r
<1> DEFINE x == Signum(l, FALSE)
           y == Signum(r, FALSE)
           u == decUnitCompare(l.coef, r.coef, r.exp - l.exp)
           c == decCompare(l, r, FALSE)
           li == l.kind = "inf"
           ri == r.kind = "inf"
<1>1. /\ l.kind \in {"fin", "inf"} /\ r.kind \in {"fin", "inf"} /\ l.neg \in BOOLEAN
      /\ l.coef \in Nat /\ r.coef \in Nat /\ l.exp \in Int
  BY FieldTypes DEF Sound, IsNaN
<1>2. /\ x = (IF l.kind = "fin" /\ l.coef = 0 THEN 0 ELSE IF l.neg THEN -1 ELSE 1)
      /\ y = (IF r.kind = "fin" /\ r.coef = 0 THEN 0 ELSE IF l.neg THEN -1 ELSE 1)
  <2>1. \A n \in {l, r} : n.kind = "fin" => (ISZERO(n) <=> n.coef = 0)
    BY SoundFinite
  <2> QED BY <1>1, <2>1 DEF Signum, ISZERO
<1>3. c = CASE x # y -> Sign(x - y)
            [] x = y /\ x = 0 -> 0
            [] x = y /\ x # 0 /\ (li \/ ri) -> CompareInfinite(l, r, x)
            [] OTHER -> x * u
  <2>1. ~(l.exp > r.exp)
    BY <1>1
  <2> QED BY <2>1 DEF decCompare
<1>4. u = Sign(l.coef - r.coef)
  <2>1. r.exp - l.exp = 0 /\ 0 \in Nat
    BY <1>1
  <2>2. u = Sign(l.coef - r.coef * TenTo[0])
    BY <1>1, <2>1, UnitCompareIs
  <2>3. r.coef * TenTo[0] = r.coef
    BY <1>1, TenZero
  <2> HIDE DEF u
  <2> QED BY <2>2, <2>3
<1>5. c = 0 /\ (li <=> l.kind = "inf") /\ (ri <=> r.kind = "inf")
  OBVIOUS
<1>6. CompareInfinite(l, r, x) = IF li /\ ri THEN 0 ELSE IF ri THEN -x ELSE IF li THEN x ELSE CompareInfinite(l, r, x)
  BY DEF CompareInfinite
<1> HIDE DEF x, y, u, c, li, ri
<1>7. x = y /\ x \in {-1, 0, 1}
  BY <1>1, <1>2, <1>3, <1>5 DEF Sign
<1>8. CASE x = 0
  <2>1. l.kind = "fin" /\ r.kind = "fin" /\ l.coef = 0 /\ r.coef = 0
    BY <1>1, <1>2, <1>7, <1>8
  <2>2. l = Fin(l.neg, l.digits, l.coef, l.exp) /\ l.digits = Places(l.coef, 10)
    BY <2>1, SoundFinite
  <2>3. r = Fin(r.neg, r.digits, r.coef, r.exp) /\ r.digits = Places(r.coef, 10)
    BY <2>1, SoundFinite
  <2> QED BY <2>1, <2>2, <2>3
<1>9. CASE x # 0 /\ (li \/ ri)
  <2>1. c = CompareInfinite(l, r, x)
    BY <1>3, <1>7, <1>9
  <2>2. li /\ ri
    BY <1>5, <1>6, <1>7, <1>9, <2>1
  <2>3. l = Infinity(l.neg) /\ r = Infinity(r.neg)
    BY <1>5, <2>2 DEF Sound
  <2> QED BY <2>3
<1>10. CASE x # 0 /\ ~(li \/ ri)
  <2>1. l.kind = "fin" /\ r.kind = "fin" /\ c = x * u
    BY <1>1, <1>3, <1>5, <1>7, <1>10
  <2>2. u = 0
    BY <1>4, <1>5, <1>7, <1>10, <2>1 DEF Sign
  <2>3. l.coef = r.coef
    BY <1>1, <1>4, <2>2 DEF Sign
  <2>4. l = Fin(l.neg, l.digits, l.coef, l.exp) /\ l.digits = Places(l.coef, 10)
    BY <2>1, SoundFinite
  <2>5. r = Fin(r.neg, r.digits, r.coef, r.exp) /\ r.digits = Places(r.coef, 10)
    BY <2>1, SoundFinite
  <2> QED BY <2>3, <2>4, <2>5
<1> QED BY <1>8, <1>9, <1>10

LEMMA PrefersBoolean ==
  ASSUME NEW l, Sound(l), NEW r, Sound(r)
  PROVE  PrefersLeft(l, r) \in BOOLEAN
<1>1. l.neg \in BOOLEAN /\ r.neg \in BOOLEAN /\ l.exp \in Int /\ r.exp \in Int
  BY FieldTypes DEF Sound
<1>2. CASE l.neg # r.neg
  <2>1. PrefersLeft(l, r) = ~l.neg
    BY <1>1, <1>2 DEF PrefersLeft
  <2> QED BY <2>1
<1>3. CASE l.neg /\ r.neg
  <2>1. PrefersLeft(l, r) = (l.exp < r.exp)
    BY <1>1, <1>3 DEF PrefersLeft
  <2> QED BY <2>1
<1>4. CASE ~l.neg /\ ~r.neg
  <2>1. PrefersLeft(l, r) = (l.exp > r.exp)
    BY <1>1, <1>4 DEF PrefersLeft
  <2> QED BY <2>1
<1> QED BY <1>1, <1>2, <1>3, <1>4

\* The choice between two numbers.
LEMMA ChoosesRight ==
  ASSUME NEW l, Sound(l), NEW r, Sound(r), ~IsNaN(l), ~IsNaN(r), NEW max \in BOOLEAN, NEW mag \in BOOLEAN
  PROVE  LET result == decCompare(l, r, mag)
             left == IF result = 0 THEN PrefersLeft(l, r) ELSE result > 0
             c == IF mag THEN Ref!RefCompare(Ref!Magnitude(l), Ref!Magnitude(r)) ELSE 0
             below == IF c # 0 THEN c < 0 ELSE Ref!RefBelow(l, r)
         IN  (IF left # ~max THEN l ELSE r) = (IF below = max THEN r ELSE l)
<1> DEFINE x == Ref!Magnitude(l)
           y == Ref!Magnitude(r)
           result == decCompare(l, r, mag)
           left == IF result = 0 THEN PrefersLeft(l, r) ELSE result > 0
           d == Ref!RefCompare(x, y)
           s == Ref!RefCompare(l, r)
           c == IF mag THEN d ELSE 0
           lb == Ref!RefBelow(l, r)
           below == IF c # 0 THEN c < 0 ELSE lb
<1>1. /\ l.kind \in {"fin", "inf"} /\ r.kind \in {"fin", "inf"}
      /\ l.neg \in BOOLEAN /\ r.neg \in BOOLEAN
      /\ l.coef \in Nat /\ r.coef \in Nat /\ l.exp \in Int /\ r.exp \in Int
  BY FieldTypes DEF Sound, IsNaN
<1>2. /\ Sound(x) /\ Sound(y) /\ ~IsNaN(x) /\ ~IsNaN(y)
      /\ x.neg = FALSE /\ y.neg = FALSE /\ x.kind = l.kind /\ y.kind = r.kind
      /\ x.coef = l.coef /\ y.coef = r.coef /\ x.exp = l.exp /\ y.exp = r.exp
      /\ x.digits = l.digits /\ y.digits = r.digits
  BY MagnitudeIs
<1>3. decCompare(l, r, FALSE) = s /\ s \in {-1, 0, 1}
  BY CompareRight
<1>4. decCompare(x, y, FALSE) = d /\ d \in {-1, 0, 1}
  <2> HIDE DEF x, y
  <2> QED BY <1>2, CompareRight
<1> HIDE DEF x, y
<1>5. decCompare(l, r, TRUE) = decCompare(x, y, FALSE)
  <2>1. Signum(l, TRUE) = Signum(x, FALSE) /\ Signum(r, TRUE) = Signum(y, FALSE)
    BY <1>2 DEF Signum, ISZERO
  <2>2. \A k : CompareInfinite(l, r, k) = CompareInfinite(x, y, k)
    BY <1>2 DEF CompareInfinite
  <2> QED BY <1>2, <2>1, <2>2 DEF decCompare
<1>6. result = IF mag THEN d ELSE s
  BY <1>3, <1>4, <1>5
<1>7. lb <=> (\/ s < 0
              \/ s = 0 /\ l.neg /\ ~r.neg
              \/ s = 0 /\ l.neg = r.neg /\ (IF l.neg THEN l.exp > r.exp ELSE l.exp < r.exp))
  BY DEF Ref!RefBelow
<1>8. PrefersLeft(l, r) <=> IF l.neg # r.neg THEN ~l.neg
                            ELSE IF l.neg THEN l.exp < r.exp ELSE l.exp > r.exp
  BY <1>1 DEF PrefersLeft
<1>9. mag /\ d = 0 => /\ l.neg = r.neg => s = 0
                      /\ l.neg /\ ~r.neg => s <= 0
                      /\ ~l.neg /\ r.neg => s >= 0
  <2>1. decCompare(l, r, TRUE) = d
    BY <1>4, <1>5
  <2>2. SameMagnitude(l, r) => BySign(l, r, ByValue(l, r))
    BY <1>1, EqualMagnitudes
  <2> HIDE DEF d, s
  <2>3. d = 0 => BySign(l, r, s)
    BY <1>3, <2>1, <2>2 DEF SameMagnitude, ByValue
  <2> QED BY <2>3 DEF BySign
<1>10. s = 0 /\ l.neg = r.neg /\ l.exp = r.exp => l = r
  <2> HIDE DEF s
  <2> QED BY <1>3, SameNumber
<1> HIDE DEF result, d, s, lb
<1> DEFINE a == IF left # ~max THEN l ELSE r
           b == IF below = max THEN r ELSE l
<1>11. left \in BOOLEAN /\ below \in BOOLEAN /\ lb \in BOOLEAN
  <2>1. lb \in BOOLEAN
    BY DEF lb, Ref!RefBelow
  <2>2. PrefersLeft(l, r) \in BOOLEAN
    BY PrefersBoolean
  <2>3. left \in BOOLEAN
    <3>1. CASE result = 0
      BY <2>2, <3>1
    <3>2. CASE result # 0
      <4>1. left = (result > 0)
        BY <3>2
      <4> HIDE DEF left
      <4> QED BY <4>1
    <3> QED BY <3>1, <3>2
  <2>4. below \in BOOLEAN
    <3>1. CASE c = 0
      BY <2>1, <3>1
    <3>2. CASE c # 0
      <4>1. below = (c < 0)
        BY <3>2
      <4> HIDE DEF below
      <4> QED BY <4>1
    <3> QED BY <3>1, <3>2
  <2> QED BY <2>1, <2>3, <2>4
<1>12. (left <=> ~below) \/ (~left /\ ~below /\ l = r)
  <2>1. CASE ~mag
    <3>1. result = s /\ (below <=> lb)
      BY <1>6, <2>1
    <3> HIDE DEF below
    <3>2. left <=> IF s = 0 THEN PrefersLeft(l, r) ELSE s > 0
      BY <3>1
    <3> HIDE DEF left
    <3> QED BY <1>1, <1>3, <1>7, <1>8, <1>10, <1>11, <3>1, <3>2
  <2>2. CASE mag /\ d # 0
    <3>1. (left <=> d > 0) /\ (below <=> d < 0)
      BY <1>6, <2>2
    <3> HIDE DEF left, below
    <3> QED BY <1>4, <2>2, <3>1
  <2>3. CASE mag /\ d = 0
    <3>1. (left <=> PrefersLeft(l, r)) /\ (below <=> lb)
      BY <1>6, <1>11, <2>3
    <3> HIDE DEF left, below
    <3>2. /\ l.neg = r.neg => s = 0
          /\ l.neg /\ ~r.neg => s <= 0
          /\ ~l.neg /\ r.neg => s >= 0
      BY <1>9, <2>3
    <3> QED BY <1>1, <1>3, <1>7, <1>8, <1>10, <1>11, <3>1, <3>2
  <2> QED BY <2>1, <2>2, <2>3
<1>13. a = b
  <2> HIDE DEF left, below
  <2> QED BY <1>11, <1>12
<1> HIDE DEF a, b, left, below, c
<1> QED BY <1>13 DEF a, b, left, below, c, lb, d, result, x, y

Extrema == {"Max", "Min", "MaxMag", "MinMag"}

\* Max and Min, when no NaN decides.
LEMMA MaxMinRight ==
  ASSUME NEW set, Settled(set), NEW op \in Extrema, NEW l, Sound(l), NEW r, Sound(r),
         ~IsNaN(l) \/ ~IsNaN(r)
  PROVE  Done(MaxMin(l, r, op, set, {}))
           = Ref!RefMaxMin(l, r, op \in {"Max", "MaxMag"}, op \in {"MaxMag", "MinMag"}, set)
<1> DEFINE max == op \in {"Max", "MaxMag"}
           mag == op \in {"MaxMag", "MinMag"}
           min == op \in {"Min", "MinMag"}
           one == IsNaN(l) # IsNaN(r)
           result == IF one THEN IF IsNaN(l) THEN -1 ELSE 1 ELSE decCompare(l, r, mag)
           left == IF result = 0 THEN PrefersLeft(l, r) ELSE result > 0
           choice == IF left # (min /\ ~one) THEN l ELSE r
           x == IF IsNaN(l) THEN r ELSE l
           y == IF IsNaN(r) THEN l ELSE r
           c == IF mag THEN Ref!RefCompare(Ref!Magnitude(x), Ref!Magnitude(y)) ELSE 0
           below == IF c # 0 THEN c < 0 ELSE Ref!RefBelow(x, y)
           n == IF below = max THEN y ELSE x
           w == decFinish(decCopyFit(choice, set.digits, 0, {}), set)
<1>1. set.extended = TRUE
  BY DEF Settled
<1>2. max \in BOOLEAN /\ mag \in BOOLEAN /\ min = ~max /\ IsNaN(l) \in BOOLEAN /\ IsNaN(r) \in BOOLEAN
  BY DEF IsNaN, Extrema
<1>3. MaxMin(l, r, op, set, {}) = w
  <2> DEFINE lf == IF result = 0 THEN ~set.extended \/ PrefersLeft(l, r) ELSE result > 0
             reversed == min /\ ~one /\ ~(result = 0 /\ ~set.extended)
             ch == IF lf # reversed THEN l ELSE r
  <2>1. MaxMin(l, r, op, set, {}) = decFinish(decCopyFit(ch, set.digits, 0, {}), set)
    <3> HIDE DEF min
    <3> QED BY DEF MaxMin, min
  <2>2. PrefersLeft(l, r) \in BOOLEAN
    BY PrefersBoolean
  <2>3. lf = left
    <3>1. CASE result = 0
      <4>1. lf = (~set.extended \/ PrefersLeft(l, r)) /\ left = PrefersLeft(l, r)
        BY <3>1
      <4> HIDE DEF lf, left
      <4> QED BY <1>1, <2>2, <4>1
    <3>2. CASE result # 0
      BY <3>2
    <3> QED BY <3>1, <3>2
  <2>4. reversed = (min /\ ~one)
    <3> HIDE DEF min, one, result
    <3> QED BY <1>1
  <2> HIDE DEF lf, reversed, left
  <2>5. ch = choice
    BY <2>3, <2>4
  <2> HIDE DEF ch, choice
  <2> QED BY <2>1, <2>5
<1>4. choice = n /\ ~IsNaN(n) /\ Sound(n)
  <2>1. CASE one
    <3>1. x = y /\ ~IsNaN(x) /\ Sound(x) /\ choice = x
      BY <1>2, <2>1
    <3> HIDE DEF x, y, choice, below, max
    <3> QED BY <3>1
  <2>2. CASE ~one
    <3>1. ~IsNaN(l) /\ ~IsNaN(r) /\ x = l /\ y = r
      BY <1>2, <2>2
    <3>2. result = decCompare(l, r, mag)
      BY <2>2
    <3> DEFINE res == decCompare(l, r, mag)
               lf == IF res = 0 THEN PrefersLeft(l, r) ELSE res > 0
               d == IF mag THEN Ref!RefCompare(Ref!Magnitude(l), Ref!Magnitude(r)) ELSE 0
               bl == IF d # 0 THEN d < 0 ELSE Ref!RefBelow(l, r)
    <3>3. (IF lf # ~max THEN l ELSE r) = (IF bl = max THEN r ELSE l)
      <4> HIDE DEF max, mag
      <4> QED BY <1>2, <3>1, ChoosesRight
    <3>4. choice = IF lf # ~max THEN l ELSE r
      <4>1. (min /\ ~one) = ~max
        <5> HIDE DEF min, max
        <5> QED BY <1>2, <2>2
      <4>2. left = lf
        <5> HIDE DEF mag
        <5> QED BY <3>2
      <4> HIDE DEF left, lf, min, one, max
      <4> QED BY <4>1, <4>2
    <3>5. n = IF bl = max THEN r ELSE l
      <4> HIDE DEF max, mag
      <4> QED BY <3>1
    <3> HIDE DEF choice, n, lf, bl, max
    <3>6. choice = n
      BY <3>3, <3>4, <3>5
    <3>7. n \in {l, r}
      BY <3>5
    <3> QED BY <3>1, <3>6, <3>7
  <2> QED BY <2>1, <2>2
<1>5. Ref!RefMaxMin(l, r, max, mag, set) = IF n.kind = "inf" THEN Ref!Exactly(n)
                                           ELSE Ref!RoundTo(n.neg, n.coef, n.exp, set)
  <2>1. Ref!IsNaN(l) = IsNaN(l) /\ Ref!IsNaN(r) = IsNaN(r)
    BY DEF IsNaN, Ref!IsNaN
  <2> HIDE DEF max, mag
  <2> QED BY <2>1 DEF Ref!RefMaxMin, Ref!RefExtremum
<1>6. w = decFinish(decCopyFit(n, set.digits, 0, {}), set)
  <2> HIDE DEF choice, n
  <2> QED BY <1>4
<1> HIDE DEF n, w, max, mag
<1>7. Done(w) = IF n.kind = "inf" THEN Ref!Exactly(n) ELSE Ref!RoundTo(n.neg, n.coef, n.exp, set)
  BY <1>4, <1>6, ChoiceRight
<1>8. Done(MaxMin(l, r, op, set, {})) = Ref!RefMaxMin(l, r, max, mag, set)
  BY <1>3, <1>5, <1>7
<1> QED BY <1>8 DEF max, mag

LEMMA MaxMinKept ==
  ASSUME NEW set, Settled(set), NEW op \in Extrema, NEW l, Sound(l), NEW r, Sound(r)
  PROVE  Keeps(op, l, r, set, Done(decCompareOp(l, r, op, set)))
<1> DEFINE nans == l.kind = "snan" \/ r.kind = "snan" \/ (IsNaN(l) /\ IsNaN(r))
           w == decCompareOp(l, r, op, set)
<1>1. w = CompareOperands([lhs |-> l, rhs |-> r, status |-> {}], op, set)
  BY WholeOperands DEF decCompareOp
<1>2. op # "CompareTotal" /\ op # "CompareSignal" /\ op \in {"Max", "Min", "MaxMag", "MinMag"}
  BY DEF Extrema
<1>3. {} \cup When(op = "CompareSignal", {"Invalid_operation", "sNaN"}) = {}
  BY <1>2 DEF When
<1>4. nans => IsNaN(l) \/ IsNaN(r)
  BY DEF IsNaN
<1>5. w = IF nans THEN decNaNs(l, r, set, {}) ELSE MaxMin(l, r, op, set, {})
  <2> HIDE DEF w
  <2> QED BY <1>1, <1>2, <1>3, <1>4 DEF CompareOperands
<1>6. ~Ref!Unary(op) /\ op \in Ref!Determined
  BY <1>2 DEF Ref!Unary, Ref!Determined
<1>7. Ref!NaNDecides(op, l, r) <=> nans
  <2>1. /\ Ref!IsNaN(l) <=> IsNaN(l)
        /\ Ref!IsNaN(r) <=> IsNaN(r)
        /\ l.kind = "snan" => IsNaN(l)
        /\ r.kind = "snan" => IsNaN(r)
    BY DEF IsNaN, Ref!IsNaN
  <2>2. Ref!NaNDecides(op, l, r) <=>
          ((\E n \in {m \in {l, r} : Ref!IsNaN(m)} : n.kind = "snan") \/ (Ref!IsNaN(l) /\ Ref!IsNaN(r)))
    BY <1>2 DEF Ref!NaNDecides, Ref!Logicals
  <2> QED BY <2>1, <2>2
<1> HIDE DEF nans
<1>8. CASE nans
  <2>1. \A o : Ref!Correct(op, l, r, set, o) <=> Passed(op, l, r, set, o)
    BY <1>6, <1>7, <1>8 DEF Ref!Correct, Passed
  <2> DEFINE st == {}
             v == decNaNs(l, r, set, st)
  <2>2. Passed(op, l, r, set, Done(v))
    <3>1. st = IF op = "CompareSignal" THEN {"Invalid_operation", "sNaN"} ELSE {}
      BY <1>2
    <3> HIDE DEF st
    <3> QED BY <1>4, <1>8, <3>1, PassedRight DEF v
  <2>3. w = v
    <3> HIDE DEF w
    <3> QED BY <1>5, <1>8
  <2> HIDE DEF w, v
  <2>4. Done(v) = [n |-> Done(v).n, status |-> Done(v).status]
    BY DoneFields
  <2>5. Keeps(op, l, r, set, Done(v))
    BY <2>1, <2>2, <2>4 DEF Keeps
  <2> QED BY <2>3, <2>5 DEF w
<1>9. CASE ~nans
  <2>1. ~IsNaN(l) \/ ~IsNaN(r)
    BY <1>9 DEF nans
  <2> DEFINE v == MaxMin(l, r, op, set, {})
  <2>2. w = v
    <3> HIDE DEF w
    <3> QED BY <1>5, <1>9
  <2>3. Done(v) = Ref!RefMaxMin(l, r, op \in {"Max", "MaxMag"}, op \in {"MaxMag", "MinMag"}, set)
    BY <2>1, MaxMinRight
  <2>4. Ref!Reference(op, l, r, set) = Ref!RefMaxMin(l, r, op \in {"Max", "MaxMag"}, op \in {"MaxMag", "MinMag"}, set)
    BY <1>2 DEF Ref!Reference, Ref!Logicals
  <2>5. \A o : Ref!Correct(op, l, r, set, o) <=> o = Ref!Reference(op, l, r, set)
    <3>1. op # "SquareRoot" /\ op # "Power" /\ op # "Exp" /\ op \notin {"NextPlus", "NextMinus", "NextToward"}
      BY <1>2
    <3> QED BY <1>6, <1>7, <1>9, <3>1 DEF Ref!Correct
  <2> HIDE DEF v, w
  <2>6. Done(v) = [n |-> Done(v).n, status |-> Done(v).status]
    BY DoneFields
  <2>7. Keeps(op, l, r, set, Done(v))
    BY <2>3, <2>4, <2>5, <2>6 DEF Keeps
  <2> QED BY <2>2, <2>7 DEF w
<1> QED BY <1>8, <1>9

(***************************************************************************)
(* Programs.  The context of a call has the types of a decContext, which   *)
(* no step disturbs; so every call of an operation whose promise is proved *)
(* above keeps it.                                                         *)
(***************************************************************************)
Totals == {"CompareTotal", "CompareTotalMag"}
Proved == {"Plus", "Minus", "Abs", "Multiply", "Add", "Subtract", "Compare", "CompareSignal"}
            \cup Totals \cup Extrema

\* The operation is one of them, of operands as decCheckNumber accepts them;
\* what else it needs of them: a sum is rounded right unless one addend, too long
\* for the precision, swallows the other; and where a residue below zero can
\* borrow from more than one digit.  The total order looks at the exponents of
\* NaNs: they have none.
HasPromise(op, l, r, set) ==
  /\ op \in Proved /\ Sound(l) /\ Sound(r)
  /\ op = "Multiply" => l.exp + r.exp >= -IntMax - 1
  /\ op \in {"Add", "Subtract"} => set.digits > 1 /\ ~SwallowedAt(l, r, set.digits)
  /\ op \in Totals => (IsNaN(l) => l.exp = 0) /\ (IsNaN(r) => r.exp = 0)

Typed(set) == /\ {"digits", "emax", "emin", "round", "clamp", "extended"} \subseteq DOMAIN set
              /\ set.digits \in Nat \ {0} /\ set.emax \in Nat
              /\ set.emin \in Int /\ set.emin <= 0
              /\ set.round \in Roundings
              /\ set.clamp \in BOOLEAN

\* Extended arithmetic, where a clamped exponent can be reached.
Roomy(set) == set.extended = TRUE /\ (set.clamp => set.digits <= set.emax + 1)

LEMMA SettledIs == ASSUME NEW set, Typed(set), Roomy(set) PROVE Settled(set)
BY DEF Typed, Roomy, Settled

KeptCall ==
  \E op, res, l, r, f, out :
    /\ CallWith(op, res, l, r, f, out)
    /\ HasPromise(op, l, r, ctx) /\ Settled(ctx) => Keeps(op, l, r, ctx, out)

LEMMA ComparesKept ==
  ASSUME NEW set, Settled(set), NEW l, Sound(l), NEW r, Sound(r)
  PROVE  /\ Keeps("Compare", l, r, set, decNumberCompare(l, r, set))
         /\ Keeps("CompareSignal", l, r, set, decNumberCompareSignal(l, r, set))
BY CompareKept DEF decNumberCompare, decNumberCompareSignal

LEMMA ExtremaKept ==
  ASSUME NEW set, Settled(set), NEW l, Sound(l), NEW r, Sound(r)
  PROVE  /\ Keeps("Max", l, r, set, decNumberMax(l, r, set))
         /\ Keeps("Min", l, r, set, decNumberMin(l, r, set))
         /\ Keeps("MaxMag", l, r, set, decNumberMaxMag(l, r, set))
         /\ Keeps("MinMag", l, r, set, decNumberMinMag(l, r, set))
BY MaxMinKept DEF Extrema, decNumberMax, decNumberMin, decNumberMaxMag, decNumberMinMag

LEMMA StepIsKept ==
  ASSUME [Next]_vars
  PROVE  KeptCall \/ Housekeeping \/ UNCHANGED vars
<1>1. ASSUME NumberPlus \/ NumberMinus \/ NumberAbs PROVE KeptCall
  BY <1>1, PlusMinusAbsRight DEF NumberPlus, NumberMinus, NumberAbs, Unary, Call,
     KeptCall, HasPromise
<1>2. ASSUME NumberMultiply PROVE KeptCall
  BY <1>2, MultiplyRight DEF NumberMultiply, Binary, Call, KeptCall, HasPromise
<1>3. ASSUME NumberAdd \/ NumberSubtract PROVE KeptCall
  BY <1>3, AddSubtractRight DEF NumberAdd, NumberSubtract, Binary, Call, KeptCall, HasPromise
<1>4. ASSUME \/ NumberDivide \/ NumberDivideInteger
             \/ NumberRemainder \/ NumberRemainderNear \/ NumberAnd \/ NumberOr \/ NumberXor
             \/ NumberShift \/ NumberRotate \/ NumberScaleB \/ NumberQuantize \/ NumberRescale
             \/ NumberSameQuantum \/ NumberCopySign \/ NumberNextToward
      PROVE  KeptCall
  BY <1>4 DEF NumberDivide, NumberDivideInteger,
     NumberRemainder, NumberRemainderNear, NumberAnd, NumberOr, NumberXor,
     NumberShift, NumberRotate, NumberScaleB, NumberQuantize, NumberRescale,
     NumberSameQuantum, NumberCopySign, NumberNextToward, Binary, Call, KeptCall,
     HasPromise, Proved, Totals, Extrema
<1>5. ASSUME \/ NumberInvert \/ NumberLogB \/ NumberReduce \/ NumberNextMinus
             \/ NumberNextPlus \/ NumberToIntegralExact \/ NumberToIntegralValue
             \/ NumberCopyAbs \/ NumberCopyNegate \/ NumberTrim
      PROVE  KeptCall
  BY <1>5 DEF NumberInvert, NumberLogB, NumberReduce, NumberNextMinus, NumberNextPlus,
     NumberToIntegralExact, NumberToIntegralValue, NumberCopyAbs, NumberCopyNegate,
     NumberTrim, Unary, Call, KeptCall, HasPromise, Proved, Totals, Extrema
<1>6. ASSUME \/ NumberSquareRoot \/ NumberPower \/ NumberExp \/ NumberLn \/ NumberLog10
             \/ NumberFMA
      PROVE  KeptCall
  BY <1>6 DEF NumberSquareRoot, NumberPower, NumberExp, NumberLn, NumberLog10,
     NumberFMA, Call, KeptCall, HasPromise, Proved, Totals, Extrema
<1>7. ASSUME NumberCompare \/ NumberCompareSignal PROVE KeptCall
  BY <1>7, ComparesKept DEF NumberCompare, NumberCompareSignal, Binary, Call, KeptCall, HasPromise
<1>8. ASSUME NumberCompareTotal \/ NumberCompareTotalMag PROVE KeptCall
  BY <1>8, TotalsKept DEF NumberCompareTotal, NumberCompareTotalMag, Binary, Call, KeptCall,
     HasPromise, TotalKept, Totals
<1>9. ASSUME NumberMax \/ NumberMin \/ NumberMaxMag \/ NumberMinMag PROVE KeptCall
  BY <1>9, ExtremaKept DEF NumberMax, NumberMin, NumberMaxMag, NumberMinMag, Binary, Call,
     KeptCall, HasPromise
<1> QED BY <1>1, <1>2, <1>3, <1>4, <1>5, <1>6, <1>7, <1>8, <1>9, Zenon DEF Next

\* What the last call was promised.
LastKept == HasPromise(last.op, last.l, last.r, last.set) /\ Roomy(last.set) =>
              Keeps(last.op, last.l, last.r, last.set, last)

CorrectInv == /\ Typed(ctx)
              /\ last.op \in Proved => Typed(last.set) /\ LastKept

LEMMA LastIsCorrect == ASSUME CorrectInv, HasPromise(last.op, last.l, last.r, last.set), Roomy(last.set)
                       PROVE  CorrectResult
<1>1. last.op \in Proved /\ Keeps(last.op, last.l, last.r, last.set, last)
  BY DEF CorrectInv, LastKept, HasPromise
<1>2. ~Rescales /\ ~Integrates /\ last.op # "FMA"
  BY <1>1 DEF Proved, Totals, Extrema, Rescales, Integrates
<1>3. ~Folds
  BY <1>2 DEF Folds
<1>4. last.status \ {} = last.status
  OBVIOUS
<1>5. Ref!Correct(last.op, last.l, last.r, last.set, [n |-> last.n, status |-> last.status])
  BY <1>1 DEF Keeps
<1> QED BY <1>2, <1>3, <1>4, <1>5 DEF CorrectResult

LEMMA CallKeeps == ASSUME KeptCall, CorrectInv PROVE CorrectInv'
<1>1. PICK op, res, l, r, f, out :
        /\ CallWith(op, res, l, r, f, out)
        /\ HasPromise(op, l, r, ctx) /\ Settled(ctx) => Keeps(op, l, r, ctx, out)
  BY DEF KeptCall
<1>2. /\ last'.op = op /\ last'.l = l /\ last'.r = r /\ last'.set = ctx
      /\ last'.n = out.n /\ last'.status = out.status
      /\ ctx' = [ctx EXCEPT !.status = @ \cup out.status]
  BY <1>1 DEF CallWith, Context!Update
<1>3. Typed(ctx)' /\ Typed(last'.set)
  BY <1>2 DEF CorrectInv, Typed
<1>4. LastKept'
  <2>1. HasPromise(op, l, r, ctx) /\ Roomy(ctx) => Keeps(op, l, r, ctx, out)
    BY <1>1, SettledIs DEF CorrectInv
  <2>2. Keeps(op, l, r, ctx, out) => Keeps(op, l, r, ctx, last')
    BY <1>2 DEF Keeps
  <2> QED BY <1>2, <2>1, <2>2 DEF LastKept
<1> QED BY <1>3, <1>4 DEF CorrectInv

LEMMA HousekeepingKeeps == ASSUME Housekeeping, CorrectInv PROVE CorrectInv'
<1>1. last' = last
  BY DEF Housekeeping
<1>2. ASSUME NEW word,
             \/ Context!decContextClearStatus(word)
             \/ Context!setTraps(word)
             \/ Context!decContextSetStatus(word)
      PROVE  Typed(ctx)'
  BY <1>2 DEF Context!decContextClearStatus, Context!setTraps, Context!decContextSetStatus,
     Context!Quietly, Context!Update, CorrectInv, Typed
<1>3. ASSUME NEW mode \in Modes, Context!decContextSetRounding(mode) PROVE Typed(ctx)'
  BY <1>3, CalculatorAssumption
     DEF Context!decContextSetRounding, Context!Quietly, CorrectInv, Typed
<1>4. ASSUME Context!HandleSignal PROVE Typed(ctx)'
  BY <1>4 DEF Context!HandleSignal, CorrectInv, Typed
<1>5. Typed(ctx)'
  BY <1>2, <1>3, <1>4 DEF Housekeeping
<1> QED BY <1>1, <1>5 DEF CorrectInv, LastKept

\* Plus, minus, abs, multiply, add, subtract, max, min and the comparisons return
\* what exact arithmetic followed by one rounding returns, to the digit and to
\* the flag: for every precision, every exponent range, every rounding mode, every
\* Unit size and operands of any length, zero, infinite or NaN, in any program.
\* (Extended arithmetic; a product whose exponent an int32_t holds; a sum of more
\* than one digit of which no addend swallows the other.)
THEOREM CalculatorCorrectResult ==
  Spec => [](HasPromise(last.op, last.l, last.r, last.set) /\ Roomy(last.set) => CorrectResult)
<1>1. Init => CorrectInv
  <2> SUFFICES ASSUME Init PROVE CorrectInv
    OBVIOUS
  <2>1. ctx \in decContext /\ last.op \notin Proved
    BY CalculatorAssumption DEF Init, NoCall, Proved, Totals, Extrema
  <2> QED BY <2>1 DEF CorrectInv, Typed, decContext
<1>2. CorrectInv /\ [Next]_vars => CorrectInv'
  <2> SUFFICES ASSUME CorrectInv, [Next]_vars PROVE CorrectInv'
    OBVIOUS
  <2>1. CASE UNCHANGED vars
    BY <2>1 DEF vars, CorrectInv, LastKept
  <2> QED BY <2>1, StepIsKept, CallKeeps, HousekeepingKeeps
<1>3. CorrectInv => (HasPromise(last.op, last.l, last.r, last.set) /\ Roomy(last.set) => CorrectResult)
  BY LastIsCorrect
<1> QED BY <1>1, <1>2, <1>3, PTL DEF Spec
=============================================================================
