------------------------ MODULE DecLongDivisionProofs ------------------------
(***************************************************************************)
(* The long division, for every dividend and divisor, size of a Unit and   *)
(* precision: its estimates, its buffers, its turns and its result.        *)
(***************************************************************************)
EXTENDS DecLongDivision, DecPowersProofs

(***************************************************************************)
(* The constants, and numbers as Units and as digits.                      *)
(***************************************************************************)
LEMMA Bases == /\ Radix \in Nat \ {0, 1} /\ DECDPUN \in Nat \ {0}
               /\ B \in Nat \ {0, 1} /\ B = Power(Radix, DECDPUN)
<1>1. Radix \in Nat \ {0, 1} /\ DECDPUN \in Nat \ {0}
  BY QuotientAssumption
<1>2. DECDPUN < Power(Radix, DECDPUN) /\ Power(Radix, DECDPUN) \in Nat \ {0}
  BY <1>1, PowerGrows, PowerType
<1> QED BY <1>1, <1>2 DEF B

LEMMA Operands ==
  ASSUME NEW d \in Divisions
  PROVE  /\ d.lhs \in Nat \ {0} /\ d.rhs \in Nat \ {0} /\ d.digits \in Nat \ {0}
         /\ d.lexp \in Int /\ d.rexp \in Int
         /\ d.op \in {"Divide", "DivideInteger", "Remainder", "RemainderNear"}
BY DivisionAssumption

\* The powers of B and of Radix are those of a base.
LEMMA UnitPower ==
  ASSUME NEW n \in Nat
  PROVE  Power(B, n) \in Nat \ {0} /\ Power(B, n) = Power(Radix, DECDPUN * n)
<1>1. Power(B, n) \in Nat \ {0}
  BY Bases, PowerType
<1>2. Power(Power(Radix, DECDPUN), n) = Power(Radix, DECDPUN * n)
  BY Bases, PowerPower
<1> QED BY <1>1, <1>2, Bases

LEMMA UnitsBounds ==
  ASSUME NEW x \in Nat \ {0}
  PROVE  /\ Units(x) \in Nat \ {0} /\ Units(x) - 1 \in Nat
         /\ x < Power(B, Units(x)) /\ Power(B, Units(x) - 1) <= x
<1>1. /\ Units(x) \in Nat \ {0}
      /\ x < Power(B, Units(x)) /\ Power(B, Units(x) - 1) <= x
  BY Bases, PlacesBounds DEF Units
<1> QED BY <1>1

LEMMA DigitsBounds ==
  ASSUME NEW x \in Nat \ {0}
  PROVE  /\ Digits(x) \in Nat \ {0} /\ Digits(x) - 1 \in Nat
         /\ x < Power(Radix, Digits(x)) /\ Power(Radix, Digits(x) - 1) <= x
<1>1. /\ Digits(x) \in Nat \ {0}
      /\ x < Power(Radix, Digits(x)) /\ Power(Radix, Digits(x) - 1) <= x
  BY Bases, PlacesBounds DEF Digits
<1> QED BY <1>1

\* A Unit holds DECDPUN digits.
LEMMA UnitsOfDigits ==
  ASSUME NEW x \in Nat \ {0}
  PROVE  Units(x) = D2U(Digits(x))
BY Bases, PlacesPacked DEF Units, Digits, D2U

\* The first Unit, and the digits in it.
LEMMA FirstUnit ==
  ASSUME NEW x \in Nat \ {0}
  PROVE  /\ Msu(x) \in Nat \ {0} /\ Msu(x) < B
         /\ Msu(x) * Power(B, Units(x) - 1) <= x
         /\ x < (Msu(x) + 1) * Power(B, Units(x) - 1)
         /\ Digits(x) = DECDPUN * (Units(x) - 1) + Digits(Msu(x))
         /\ Digits(Msu(x)) \in 1 .. DECDPUN
<1> DEFINE u == Units(x) - 1
           f == Power(B, u)
           m == Msu(x)
<1>1. u \in Nat /\ Units(x) = u + 1 /\ x < Power(B, u + 1) /\ f <= x
  BY UnitsBounds
<1>2. f \in Nat \ {0} /\ f = Power(Radix, DECDPUN * u) /\ DECDPUN * u \in Nat
  BY <1>1, UnitPower, Bases
<1>3. m = x \div f
  BY DEF Msu
<1>4. Power(B, u + 1) = B * f
  BY <1>1, PowerNext
<1> HIDE DEF u, f, m
<1>5. m \in Nat /\ m * f <= x /\ x < (m + 1) * f
  BY <1>2, <1>3
<1>6. m # 0
  BY <1>1, <1>2, <1>5
<1>7. m < B
  <2>1. m * f < B * f
    BY <1>1, <1>2, <1>4, <1>5, Bases
  <2> QED BY <2>1, <1>2, <1>5, Bases
<1>8. Digits(x) = DECDPUN * u + Digits(m)
  BY <1>1, <1>2, <1>3, PlacesShift, Bases DEF Digits
<1>9. Digits(m) \in 1 .. DECDPUN
  BY <1>5, <1>6, <1>7, Bases, PlacesAtMost, DigitsBounds DEF Digits
<1> QED BY <1>5, <1>6, <1>7, <1>8, <1>9 DEF u, f, m
-----------------------------------------------------------------------------
(***************************************************************************)
(* The setup of a division.                                                *)
(***************************************************************************)
\* What var1 starts with, and the zeros it has below the digits of lhs.
Dividend(d) == Padded(d) \div Power(Radix, Cut(d))
Padding(d) == DECDPUN * (Var1Units(d) - Units(d.lhs)) - Cut(d)

\* The exponent of the first Unit, from the Units of both operands.
LEMMA ExponentOfUnits ==
  ASSUME NEW d \in Divisions
  PROVE  FirstExponent(d) = d.lexp - d.rexp + DECDPUN * (Units(d.lhs) - Units(d.rhs))
<1> DEFINE ul == Units(d.lhs)
           ur == Units(d.rhs)
           dl == Digits(d.lhs)
           dr == Digits(d.rhs)
           ml == Digits(Msu(d.lhs))
           mr == Digits(Msu(d.rhs))
<1>1. ul \in Nat /\ ur \in Nat
  BY Operands, UnitsBounds
<1>2. dl = DECDPUN * (ul - 1) + ml /\ dr = DECDPUN * (ur - 1) + mr
  BY Operands, FirstUnit
<1>3. ml \in Int /\ mr \in Int
  BY Operands, FirstUnit
<1>4. FirstExponent(d) = (d.lexp + dl) - (d.rexp + dr) - ml + mr
  BY DEF FirstExponent
<1> HIDE DEF ul, ur, dl, dr, ml, mr
<1>5. FirstExponent(d) = d.lexp - d.rexp + DECDPUN * (ul - ur)
  BY <1>1, <1>2, <1>3, <1>4, Bases, Operands
<1> QED BY <1>5 DEF ul, ur

LEMMA FirstExponentInt == ASSUME NEW d \in Divisions PROVE FirstExponent(d) \in Int
<1>1. Units(d.lhs) \in Nat /\ Units(d.rhs) \in Nat
  BY Operands, UnitsBounds
<1>2. d.lexp - d.rexp + DECDPUN * (Units(d.lhs) - Units(d.rhs)) \in Int
  BY <1>1, Operands, Bases
<1> QED BY <1>2, ExponentOfUnits

\* How long var1 is.
LEMMA RoomInVar1 ==
  ASSUME NEW d \in Divisions
  PROVE  LET n == Var1Units(d)
             extra == IF d.op = "Divide" THEN 2 ELSE 3
         IN  /\ n \in Nat /\ n - extra \in Nat
             /\ Units(d.lhs) + extra <= n
             /\ Units(d.rhs) + extra <= n
             /\ Digits(d.rhs) + d.digits - 1 <= DECDPUN * (n - extra)
<1> DEFINE extra == IF d.op = "Divide" THEN 2 ELSE 3
           most == Most(Digits(d.rhs) + d.digits - 1, Digits(d.lhs))
           n == Var1Units(d)
           dl == Digits(d.lhs)
           dr == Digits(d.rhs)
<1>0. extra \in {2, 3}
  OBVIOUS
<1>1. dl \in Nat \ {0} /\ dr \in Nat \ {0} /\ d.digits \in Nat \ {0}
  BY Operands, DigitsBounds
<1>2. n = D2U(most) + extra
  <2>1. D2U(most) \in Int
    BY <1>1, Bases DEF D2U, Most
  <2> QED BY <2>1 DEF Var1Units
<1>3. Units(d.lhs) = D2U(dl) /\ Units(d.rhs) = D2U(dr)
  BY Operands, UnitsOfDigits
<1> HIDE DEF extra, dl, dr, n
<1>4. most \in Nat \ {0} /\ dl <= most /\ dr <= most /\ dr + d.digits - 1 <= most
  BY <1>1 DEF Most, dl, dr
<1> HIDE DEF most
<1>5. ASSUME NEW x \in Nat \ {0}
      PROVE  D2U(x) \in Nat /\ x <= D2U(x) * DECDPUN /\ D2U(x) * DECDPUN < x + DECDPUN
  BY Bases DEF D2U
<1>6. ASSUME NEW x \in Nat \ {0}, x <= most PROVE D2U(x) <= D2U(most)
  <2> DEFINE p == D2U(x)
             q == D2U(most)
  <2>1. p \in Nat /\ q \in Nat /\ p * DECDPUN < x + DECDPUN /\ most <= q * DECDPUN
    BY <1>4, <1>5
  <2> HIDE DEF p, q
  <2> SUFFICES ASSUME q < p PROVE FALSE
    BY <2>1 DEF p, q
  <2>2. (q + 1) * DECDPUN <= p * DECDPUN
    BY <2>1, Bases
  <2> QED BY <2>1, <2>2, <1>4, <1>6, Bases
<1>7. D2U(dl) <= D2U(most) /\ D2U(dr) <= D2U(most)
  BY <1>1, <1>4, <1>6
<1>8. D2U(most) \in Nat /\ D2U(dl) \in Nat /\ D2U(dr) \in Nat /\ most <= D2U(most) * DECDPUN
  BY <1>1, <1>4, <1>5
<1>9. n \in Nat /\ n - extra \in Nat /\ n - extra = D2U(most)
  BY <1>0, <1>2, <1>8
<1>10. dr + d.digits - 1 <= DECDPUN * (n - extra)
  BY <1>1, <1>4, <1>8, <1>9, Bases
<1>11. Units(d.lhs) + extra <= n /\ Units(d.rhs) + extra <= n
  BY <1>0, <1>2, <1>3, <1>7, <1>8
<1> QED BY <1>9, <1>10, <1>11 DEF extra, n, dr

\* How far var1 is shifted, and what that leaves of its padding: more than a
\* Unit, so that it starts with a Unit of zeros.
LEMMA CutBounds ==
  ASSUME NEW d \in Divisions, IsLong(d)
  PROVE  /\ Cut(d) \in Nat
         /\ Padding(d) \in Nat /\ Padding(d) >= DECDPUN
         /\ Cut(d) > DECDPUN => d.op # "Divide" /\ FirstExponent(d) < 0
<1> DEFINE fe == FirstExponent(d)
           ul == Units(d.lhs)
           ur == Units(d.rhs)
           n == Var1Units(d)
           ml == Digits(Msu(d.lhs))
           mr == Digits(Msu(d.rhs))
           adjusted == (d.lexp + Digits(d.lhs)) - (d.rexp + Digits(d.rhs))
<1>1. ul \in Nat /\ ur \in Nat /\ n \in Nat /\ ul + 2 <= n /\ ur + 2 <= n
  BY Operands, UnitsBounds, RoomInVar1
<1>2. fe = d.lexp - d.rexp + DECDPUN * (ul - ur)
  BY ExponentOfUnits
<1>3. adjusted \in Int /\ fe = adjusted - ml + mr /\ ml \in 1 .. DECDPUN /\ mr \in 1 .. DECDPUN
  BY Operands, FirstUnit, DigitsBounds DEF FirstExponent
<1>4. fe < 0 /\ d.op # "Divide" => adjusted >= -1 \/ d.lexp > d.rexp
  BY <1>3, Operands DEF IsLong
<1>5. Cut(d) = IF d.op = "Divide" THEN 0 ELSE IF fe < 0 THEN -fe ELSE DECDPUN - (fe % DECDPUN)
  BY DEF Cut
<1>6. Padding(d) = DECDPUN * (n - ul) - Cut(d)
  BY DEF Padding
<1> HIDE DEF fe, ul, ur, n, ml, mr, adjusted
<1>7. fe \in Int /\ d.lexp \in Int /\ d.rexp \in Int
  BY <1>3, Bases, Operands
<1>8. fe >= 0 => fe % DECDPUN \in 0 .. DECDPUN - 1
  BY <1>7, Bases
<1>9. Cut(d) \in Nat /\ (Cut(d) > DECDPUN => d.op # "Divide" /\ fe < 0)
  BY <1>5, <1>7, <1>8, Bases
<1>10. CASE Cut(d) <= DECDPUN
  <2>1. DECDPUN * 2 <= DECDPUN * (n - ul)
    BY <1>1, Bases
  <2> QED BY <2>1, <1>1, <1>6, <1>9, <1>10, Bases DEF fe
<1>11. CASE Cut(d) > DECDPUN
  <2>1. d.op # "Divide" /\ fe < 0 /\ Cut(d) = -fe
    BY <1>5, <1>9, <1>11
  <2>2. adjusted < -1
    BY <2>1, <1>3, <1>7, <1>11, Bases
  <2>3. d.lexp > d.rexp
    BY <1>4, <2>1, <2>2, <1>3
  <2>4. DECDPUN * (ul - ur) <= fe
    BY <2>3, <1>1, <1>2, <1>7, Bases
  <2>5. DECDPUN * (n - ul) + DECDPUN * (ul - ur) = DECDPUN * (n - ur)
    BY <1>1, Bases
  <2>6. DECDPUN * 2 <= DECDPUN * (n - ur)
    BY <1>1, Bases
  <2>7. DECDPUN * (n - ul) \in Int /\ DECDPUN * (ul - ur) \in Int /\ DECDPUN * (n - ur) \in Int
    BY <1>1, Bases
  <2> QED BY <2>1, <2>4, <2>5, <2>6, <2>7, <1>6, <1>7, <1>9, Bases DEF fe
<1> QED BY <1>9, <1>10, <1>11, Bases DEF fe

\* The shift drops nothing but zeros.
LEMMA DividendIs ==
  ASSUME NEW d \in Divisions, IsLong(d)
  PROVE  /\ Dividend(d) = d.lhs * Power(Radix, Padding(d))
         /\ Dividend(d) \in Nat \ {0}
<1> DEFINE c == Cut(d)
           k == Padding(d)
           w == Var1Units(d) - Units(d.lhs)
<1>1. c \in Nat /\ k \in Nat /\ w \in Nat /\ DECDPUN * w = k + c
  BY CutBounds, RoomInVar1, UnitsBounds, Operands, Bases DEF Padding
<1>2. Power(Radix, k) \in Nat \ {0} /\ Power(Radix, c) \in Nat \ {0}
  BY <1>1, Bases, PowerType
<1>3. Power(B, w) = Power(Radix, k) * Power(Radix, c)
  <2>1. Power(B, w) = Power(Radix, k + c)
    BY <1>1, UnitPower
  <2> QED BY <2>1, <1>1, Bases, PowerSum
<1>4. Padded(d) = d.lhs * Power(B, w)
  BY DEF Padded
<1>5. Padded(d) = (d.lhs * Power(Radix, k)) * Power(Radix, c) + 0
  BY <1>2, <1>3, <1>4, Operands
<1>6. Padded(d) \div Power(Radix, c) = d.lhs * Power(Radix, k)
  <2>1. d.lhs * Power(Radix, k) \in Nat
    BY <1>2, Operands
  <2>2. ASSUME NEW b \in Nat \ {0}, NEW q \in Nat, NEW x, x = q * b + 0 PROVE x \div b = q
    BY <2>2
  <2> QED BY <2>1, <2>2, <1>2, <1>5
<1> QED BY <1>2, <1>6, Operands DEF Dividend

\* The dividend fits var1.
LEMMA DividendFits ==
  ASSUME NEW d \in Divisions, IsLong(d)
  PROVE  Dividend(d) < Power(B, Var1Units(d))
<1> DEFINE k == Padding(d)
           ul == Units(d.lhs)
           n == Var1Units(d)
           f == Power(Radix, k)
<1>1. k \in Nat /\ ul \in Nat /\ n \in Nat /\ DECDPUN * ul \in Nat /\ DECDPUN * n \in Nat
      /\ DECDPUN * ul + k <= DECDPUN * n
  BY CutBounds, RoomInVar1, UnitsBounds, Operands, Bases DEF Padding
<1>2. d.lhs < Power(Radix, DECDPUN * ul)
  BY Operands, UnitsBounds, UnitPower
<1>3. Dividend(d) = d.lhs * f
  BY DividendIs
<1>4. Power(Radix, DECDPUN * ul + k) = Power(Radix, DECDPUN * ul) * f
  BY <1>1, Bases, PowerSum
<1>5. Power(Radix, DECDPUN * ul + k) <= Power(Radix, DECDPUN * n)
  BY <1>1, Bases, PowerMono
<1>6. f \in Nat \ {0} /\ Power(Radix, DECDPUN * ul) \in Nat \ {0} /\ Power(Radix, DECDPUN * n) \in Nat
  BY <1>1, Bases, PowerType
<1> HIDE DEF f
<1>7. d.lhs * f < Power(Radix, DECDPUN * ul) * f
  BY <1>2, <1>6, Operands
<1>8. Power(B, n) = Power(Radix, DECDPUN * n)
  BY <1>1, UnitPower
<1> HIDE DEF n, ul, k
<1> QED BY <1>3, <1>4, <1>5, <1>6, <1>7, <1>8, Operands DEF n

\* The divisor as it slides.
LEMMA Slide ==
  ASSUME NEW d \in Divisions, NEW v \in Nat, Units(d.rhs) <= v
  PROVE  /\ Var2(d, v) \in Nat \ {0}
         /\ Power(B, v - 1) <= Var2(d, v) /\ Var2(d, v) < Power(B, v)
         /\ Var2(d, v + 1) = B * Var2(d, v)
         /\ v = Units(d.rhs) => Var2(d, v) = d.rhs
<1> DEFINE ru == Units(d.rhs)
           f == Power(B, v - ru)
<1>1. ru \in Nat \ {0} /\ v - ru \in Nat /\ v = ru + (v - ru) /\ v - 1 = (ru - 1) + (v - ru)
      /\ ru - 1 \in Nat /\ (v + 1) - ru = (v - ru) + 1
  BY Operands, UnitsBounds
<1>2. f \in Nat \ {0}
  BY <1>1, UnitPower
<1>3. d.rhs < Power(B, ru) /\ Power(B, ru - 1) <= d.rhs
  BY Operands, UnitsBounds
<1>4. Power(B, v) = Power(B, ru) * f /\ Power(B, v - 1) = Power(B, ru - 1) * f
  <2>1. Power(B, ru + (v - ru)) = Power(B, ru) * f
    BY <1>1, Bases, PowerSum
  <2>2. Power(B, (ru - 1) + (v - ru)) = Power(B, ru - 1) * f
    BY <1>1, Bases, PowerSum
  <2> QED BY <2>1, <2>2, <1>1
<1>5. Power(B, ru) \in Nat /\ Power(B, ru - 1) \in Nat
  BY <1>1, UnitPower
<1>6. Power(B, (v + 1) - ru) = B * f
  <2>1. Power(B, (v - ru) + 1) = B * f
    BY <1>1, Bases, PowerNext
  <2> QED BY <2>1, <1>1
<1>7. Var2(d, v) = d.rhs * f /\ Var2(d, v + 1) = d.rhs * Power(B, (v + 1) - ru)
  BY DEF Var2
<1>8. v = ru => f = 1
  <2>1. v = ru => v - ru = 0
    BY <1>1
  <2> QED BY <2>1, PowerZero
<1> HIDE DEF f
<1>9. d.rhs \in Nat \ {0} /\ B \in Nat \ {0}
  BY Operands, Bases
<1>10. Var2(d, v) \in Nat \ {0}
  BY <1>2, <1>7, <1>9
<1>11. Power(B, ru - 1) * f <= d.rhs * f /\ d.rhs * f < Power(B, ru) * f
  BY <1>2, <1>3, <1>5, <1>9
<1>12. d.rhs * (B * f) = B * (d.rhs * f)
  BY <1>2, <1>9
<1>13. v = ru => Var2(d, v) = d.rhs
  BY <1>7, <1>8, <1>9
<1> HIDE DEF ru
<1> QED BY <1>4, <1>6, <1>7, <1>10, <1>11, <1>12, <1>13 DEF ru

\* At first no quotient Unit is above the first one.
LEMMA FirstTurn ==
  ASSUME NEW d \in Divisions, IsLong(d)
  PROVE  /\ Dividend(d) < B * Var2(d, Var1Units(d))
         /\ Skips(d) => Dividend(d) < Var2(d, Var1Units(d))
<1> DEFINE n == Var1Units(d)
           ul == Units(d.lhs)
           ru == Units(d.rhs)
<1>1. n \in Nat /\ ul + 2 <= n /\ ru + 2 <= n /\ ul \in Nat \ {0} /\ ru \in Nat \ {0}
  BY RoomInVar1, UnitsBounds, Operands
<1>2. Dividend(d) < B * Var2(d, n)
  <2>1. Dividend(d) < Power(B, n)
    BY DividendFits
  <2>2. Power(B, n - 1) <= Var2(d, n) /\ Var2(d, n) \in Nat
    BY <1>1, Slide
  <2>3. n - 1 \in Nat /\ n = (n - 1) + 1
    BY <1>1
  <2>4. Power(B, (n - 1) + 1) = B * Power(B, n - 1) /\ Power(B, n - 1) \in Nat
    BY <2>3, PowerNext, UnitPower
  <2>5. B * Power(B, n - 1) <= B * Var2(d, n)
    BY <2>2, <2>4, Bases
  <2>6. B * Power(B, n - 1) \in Nat /\ B * Var2(d, n) \in Nat
    BY <2>2, <2>4, Bases
  <2> HIDE DEF n
  <2>7. Power(B, n) = B * Power(B, n - 1)
    BY <2>3, <2>4
  <2> QED BY <2>1, <2>5, <2>6, <2>7, DividendIs
<1>3. ASSUME Skips(d) PROVE Dividend(d) < Var2(d, n)
  <2> DEFINE ml == Msu(d.lhs)
             mr == Msu(d.rhs)
             fl == Power(B, ul - 1)
             fr == Power(B, ru - 1)
             gl == Power(B, n - ul)
             gr == Power(B, n - ru)
             h == Power(B, n - 1)
  <2>1. d.op = "Divide" /\ ml < mr /\ ml \in Nat /\ mr \in Nat
    BY <1>3, Operands, FirstUnit DEF Skips
  <2>2. ul - 1 \in Nat /\ ru - 1 \in Nat /\ n - ul \in Nat /\ n - ru \in Nat /\ n - 1 \in Nat
    BY <1>1
  <2>3. Dividend(d) = d.lhs * gl
    <3>1. Padding(d) = DECDPUN * (n - ul)
      BY <2>1, <2>2, Bases DEF Padding, Cut
    <3> QED BY <3>1, <2>2, DividendIs, UnitPower
  <2>4. Var2(d, n) = d.rhs * gr
    BY DEF Var2
  <2>5. d.lhs < (ml + 1) * fl /\ mr * fr <= d.rhs
    BY Operands, FirstUnit
  <2>6. h = fl * gl /\ h = fr * gr
    <3>1. (ul - 1) + (n - ul) = n - 1 /\ (ru - 1) + (n - ru) = n - 1
      BY <1>1
    <3>2. Power(B, (ul - 1) + (n - ul)) = fl * gl
      BY <2>2, Bases, PowerSum
    <3>3. Power(B, (ru - 1) + (n - ru)) = fr * gr
      BY <2>2, Bases, PowerSum
    <3> QED BY <3>1, <3>2, <3>3
  <2>7. /\ fl \in Nat \ {0} /\ fr \in Nat \ {0} /\ gl \in Nat \ {0} /\ gr \in Nat \ {0}
        /\ h \in Nat \ {0}
    BY <2>2, UnitPower
  <2> HIDE DEF ml, mr, fl, fr, gl, gr, h, n, ul, ru
  <2>8. d.lhs * gl < ((ml + 1) * fl) * gl
    BY <2>1, <2>5, <2>7, Operands
  <2>9. ((ml + 1) * fl) * gl = (ml + 1) * h
    BY <2>1, <2>6, <2>7
  <2>10. (ml + 1) * h <= mr * h
    BY <2>1, <2>7
  <2>11. (mr * fr) * gr <= d.rhs * gr
    BY <2>1, <2>5, <2>7, Operands
  <2>12. (mr * fr) * gr = mr * h
    BY <2>1, <2>6, <2>7
  <2>13. /\ d.lhs * gl \in Nat /\ (ml + 1) * h \in Nat /\ mr * h \in Nat /\ d.rhs * gr \in Nat
    BY <2>1, <2>7, Operands
  <2> QED BY <2>3, <2>4, <2>8, <2>9, <2>10, <2>11, <2>12, <2>13
<1> QED BY <1>2, <1>3

\* With the divisor at the right end the quotient has digits enough.
LEMMA EndsFull ==
  ASSUME NEW d \in Divisions, IsLong(d), Cut(d) <= DECDPUN,
         NEW q \in Nat, NEW r \in Nat, Dividend(d) = q * d.rhs + r, r < d.rhs
  PROVE  q >= Power(Radix, d.digits)
<1> DEFINE n == Var1Units(d)
           ul == Units(d.lhs)
           dr == Digits(d.rhs)
           k == Padding(d)
           low == DECDPUN * (ul - 1)
           goal == Power(Radix, d.digits)
           top == Power(Radix, dr)
<1>1. /\ n \in Nat /\ ul \in Nat \ {0} /\ k \in Nat /\ dr \in Nat \ {0} /\ low \in Nat
      /\ d.digits \in Nat /\ d.rhs \in Nat \ {0} /\ d.lhs \in Nat
  BY RoomInVar1, UnitsBounds, DigitsBounds, CutBounds, Operands, Bases
<1>2. dr + d.digits <= low + k
  <2> DEFINE extra == IF d.op = "Divide" THEN 2 ELSE 3
  <2>1. dr + d.digits - 1 <= DECDPUN * (n - extra)
    BY RoomInVar1
  <2>2. k = DECDPUN * (n - ul) - Cut(d)
    BY DEF Padding
  <2>3. low + k = DECDPUN * (n - 1) - Cut(d)
    BY <1>1, <2>2, Bases, CutBounds
  <2>4. Cut(d) <= DECDPUN * (extra - 2)
    BY Bases, CutBounds DEF Cut
  <2>5. extra \in {2, 3}
    OBVIOUS
  <2> HIDE DEF extra, n, ul, dr, k, low
  <2>6. DECDPUN * (n - 1) = DECDPUN * (n - extra) + DECDPUN * (extra - 2) + DECDPUN
    BY <1>1, <2>5, Bases
  <2>7. DECDPUN * (n - extra) \in Int /\ DECDPUN * (extra - 2) \in Int
    BY <1>1, <2>5, Bases
  <2> QED BY <1>1, <2>1, <2>3, <2>4, <2>6, <2>7, Bases, CutBounds
<1>3. d.rhs < top
  BY Operands, DigitsBounds
<1>4. goal \in Nat \ {0} /\ top \in Nat \ {0}
  BY <1>1, Bases, PowerType
<1>5. goal * top <= Dividend(d)
  <2>1. Power(Radix, low) <= d.lhs
    BY <1>1, Operands, UnitsBounds, UnitPower
  <2>2. Power(Radix, low) \in Nat /\ Power(Radix, k) \in Nat
    BY <1>1, Bases, PowerType
  <2>3. Dividend(d) = d.lhs * Power(Radix, k)
    BY DividendIs
  <2>4. Power(Radix, low + k) = Power(Radix, low) * Power(Radix, k)
    BY <1>1, Bases, PowerSum
  <2>5. Power(Radix, dr + d.digits) = top * goal
    BY <1>1, Bases, PowerSum
  <2>6. Power(Radix, dr + d.digits) <= Power(Radix, low + k)
    BY <1>1, <1>2, Bases, PowerMono
  <2> HIDE DEF top, goal, low, k
  <2>7. Power(Radix, low) * Power(Radix, k) <= d.lhs * Power(Radix, k)
    BY <1>1, <2>1, <2>2
  <2>8. Power(Radix, low) * Power(Radix, k) \in Nat /\ d.lhs * Power(Radix, k) \in Nat
        /\ top * goal \in Nat /\ goal * top = top * goal
    BY <1>1, <1>4, <2>2
  <2> QED BY <2>3, <2>4, <2>5, <2>6, <2>7, <2>8
<1> HIDE DEF top, goal
<1> SUFFICES ASSUME q < goal PROVE FALSE
  BY <1>4 DEF goal
<1>6. (q + 1) * d.rhs <= goal * d.rhs
  BY <1>1, <1>4
<1>7. goal * d.rhs < goal * top
  BY <1>1, <1>3, <1>4
<1>8. q * d.rhs + r < (q + 1) * d.rhs
  BY <1>1
<1>9. q * d.rhs \in Nat /\ goal * d.rhs \in Nat /\ goal * top \in Nat /\ (q + 1) * d.rhs \in Nat
  BY <1>1, <1>4
<1> QED BY <1>5, <1>6, <1>7, <1>8, <1>9
-----------------------------------------------------------------------------
(***************************************************************************)
(* The estimate.                                                           *)
(***************************************************************************)
\* What is divided by is not below the leading Units of the divisor.
LEMMA DivisorTops ==
  ASSUME NEW d \in Divisions
  PROVE  LET ru == Units(d.rhs)
         IN  /\ Msu2Plus(d) \in Nat \ {0} /\ Msu2Pair(d) \in Nat \ {0}
             /\ d.rhs <= Msu2Plus(d) * Power(B, ru - 1)
             /\ ru = 1 => Msu2Plus(d) = d.rhs /\ Msu2Pair(d) = d.rhs * B
             /\ ru > 1 => d.rhs <= Msu2Pair(d) * Power(B, ru - 2)
<1> DEFINE ru == Units(d.rhs)
           m == Msu(d.rhs)
           f == Power(B, ru - 1)
<1>1. /\ d.rhs \in Nat \ {0} /\ ru \in Nat \ {0} /\ m \in Nat \ {0}
      /\ m * f <= d.rhs /\ d.rhs < (m + 1) * f /\ ru - 1 \in Nat
  BY Operands, UnitsBounds, FirstUnit
<1>2. f \in Nat \ {0}
  BY <1>1, UnitPower
<1>3. CASE ru = 1
  <2>1. f = 1
    <3>1. ru - 1 = 0
      BY <1>3
    <3> QED BY <3>1, PowerZero
  <2>2. m = d.rhs
    BY <1>1, <2>1
  <2>3. Msu2Plus(d) = d.rhs
    BY <1>3, <2>2, <1>1 DEF Msu2Plus
  <2>4. Msu2Pair(d) = d.rhs * B
    BY <1>3 DEF Msu2Pair
  <2>5. d.rhs * B \in Nat \ {0}
    BY <1>1, Bases
  <2>6. d.rhs <= d.rhs * f
    BY <1>1, <2>1
  <2> QED BY <1>1, <1>3, <2>3, <2>4, <2>5, <2>6
<1>4. CASE ru > 1
  <2> DEFINE g == Power(B, ru - 2)
             q == d.rhs \div g
  <2>1. ru - 2 \in Nat /\ (ru - 2) + 1 = ru - 1
    BY <1>1, <1>4
  <2>2. g \in Nat \ {0}
    BY <2>1, UnitPower
  <2>3. Msu2Plus(d) = m + 1
    BY <1>4 DEF Msu2Plus
  <2>4. Msu2Pair(d) = q + (IF ru > 2 THEN 1 ELSE 0)
    BY <1>1, <1>4 DEF Msu2Pair
  <2>5. q \in Nat /\ q * g <= d.rhs /\ d.rhs < (q + 1) * g
    <3> HIDE DEF g
    <3> QED BY <2>2, <1>1
  <2>6. q # 0
    <3>1. g <= f /\ f <= d.rhs
      <4>1. m * f >= f
        BY <1>1, <1>2
      <4>2. Power(B, ru - 2) <= Power(B, ru - 1)
        BY <2>1, <1>1, Bases, PowerMono
      <4>3. m * f \in Nat
        BY <1>1, <1>2
      <4> QED BY <1>1, <1>2, <4>1, <4>2, <4>3
    <3> HIDE DEF q, g, f
    <3> QED BY <2>2, <2>5, <3>1, <1>1, <1>2
  <2>7. ru = 2 => g = 1
    <3>1. ru = 2 => ru - 2 = 0
      OBVIOUS
    <3> QED BY <3>1, PowerZero
  <2> HIDE DEF q, g
  <2>8. d.rhs <= Msu2Pair(d) * g
    <3>1. CASE ru = 2
      <4>1. g = 1 /\ Msu2Pair(d) = q
        BY <2>4, <2>5, <2>7, <3>1
      <4> QED BY <4>1, <2>5, <1>1
    <3>2. CASE ru # 2
      <4>1. Msu2Pair(d) = q + 1
        BY <2>4, <3>2, <1>1, <1>4
      <4>2. (q + 1) * g \in Nat
        BY <2>2, <2>5
      <4> QED BY <4>1, <4>2, <2>5, <1>1
    <3> QED BY <3>1, <3>2
  <2>9. (m + 1) * f \in Nat
    BY <1>1, <1>2
  <2> QED BY <1>1, <1>4, <2>3, <2>4, <2>5, <2>6, <2>8, <2>9 DEF g
<1> QED BY <1>1, <1>3, <1>4

\* The estimate is never too high, and with a single Unit exact.
LEMMA EstimateLow ==
  ASSUME NEW d \in Divisions, NEW v \in Nat, Units(d.rhs) <= v, NEW x \in Nat \ {0},
         Units(x) \in {v, v + 1}, Units(x) >= 2
  PROVE  LET pair == x \div Power(B, Units(x) - 2)
             est == pair \div (IF Units(x) = v THEN Msu2Pair(d) ELSE Msu2Plus(d))
         IN  /\ est \in Nat
             /\ est * Var2(d, v) <= x
             /\ v = 1 => x < (est + 1) * Var2(d, v)
<1> DEFINE ru == Units(d.rhs)
           u == Units(x)
           by == IF u = v THEN Msu2Pair(d) ELSE Msu2Plus(d)
           f == Power(B, u - 2)
           pair == x \div f
           est == pair \div by
           var2 == Var2(d, v)
<1>1. u - 2 \in Nat /\ u \in Nat /\ ru \in Nat \ {0}
  BY UnitsBounds, Operands
<1>2. f \in Nat \ {0} /\ by \in Nat \ {0} /\ var2 \in Nat \ {0}
  BY <1>1, UnitPower, DivisorTops, Slide
<1>3. pair \in Nat /\ pair * f <= x /\ x < (pair + 1) * f
  <2> HIDE DEF f
  <2> QED BY <1>2
<1>4. est \in Nat /\ est * by <= pair /\ pair < (est + 1) * by
  <2> HIDE DEF by, pair
  <2> QED BY <1>2, <1>3
<1>5. var2 <= by * f
  <2>0. d.rhs \in Nat
    BY Operands
  <2>1. CASE u = v + 1
    <3>1. by = Msu2Plus(d) /\ u - 2 = v - 1 /\ v - ru \in Nat /\ ru - 1 \in Nat
          /\ (ru - 1) + (v - ru) = v - 1
      BY <2>1, <1>1
    <3>2. d.rhs <= Msu2Plus(d) * Power(B, ru - 1)
      BY DivisorTops
    <3>3. Power(B, (ru - 1) + (v - ru)) = Power(B, ru - 1) * Power(B, v - ru)
      BY <3>1, Bases, PowerSum
    <3>4. Power(B, ru - 1) \in Nat /\ Power(B, v - ru) \in Nat
      BY <3>1, UnitPower
    <3>5. var2 = d.rhs * Power(B, v - ru)
      BY DEF Var2
    <3>6. f = Power(B, ru - 1) * Power(B, v - ru)
      BY <3>1, <3>3
    <3> HIDE DEF by, f, var2, u, ru
    <3>7. d.rhs * Power(B, v - ru) <= (Msu2Plus(d) * Power(B, ru - 1)) * Power(B, v - ru)
      BY <2>0, <3>2, <3>4, <1>2, <3>1
    <3> QED BY <3>1, <3>4, <3>5, <3>6, <3>7, <1>2
  <2>2. CASE u = v
    <3>1. by = Msu2Pair(d) /\ v - ru \in Nat
      BY <2>2, <1>1
    <3>2. var2 = d.rhs * Power(B, v - ru) /\ Power(B, v - ru) \in Nat
      BY <3>1, UnitPower DEF Var2
    <3>3. CASE ru = 1
      <4>1. by = d.rhs * B
        BY <3>1, <3>3, DivisorTops
      <4>2. v - ru = (u - 2) + 1
        BY <2>2, <3>3
      <4>3. Power(B, v - ru) = B * f
        BY <4>2, <1>1, Bases, PowerNext
      <4> HIDE DEF by, f, var2, u, ru
      <4> QED BY <4>1, <4>3, <3>2, <1>2, <2>0, Bases
    <3>4. CASE ru > 1
      <4>1. ru - 2 \in Nat /\ (ru - 2) + (v - ru) = u - 2
        BY <2>2, <3>4, <1>1
      <4>2. d.rhs <= Msu2Pair(d) * Power(B, ru - 2)
        BY <3>4, DivisorTops
      <4>3. Power(B, (ru - 2) + (v - ru)) = Power(B, ru - 2) * Power(B, v - ru)
        BY <3>1, <4>1, Bases, PowerSum
      <4>4. Power(B, ru - 2) \in Nat
        BY <4>1, UnitPower
      <4>5. f = Power(B, ru - 2) * Power(B, v - ru)
        BY <4>1, <4>3
      <4> HIDE DEF by, f, var2, u, ru
      <4>6. d.rhs * Power(B, v - ru) <= (Msu2Pair(d) * Power(B, ru - 2)) * Power(B, v - ru)
        BY <2>0, <4>2, <4>4, <3>2, <3>1, <1>2
      <4> QED BY <3>1, <4>4, <3>2, <4>5, <4>6, <1>2
    <3> QED BY <3>3, <3>4, <1>1
  <2> QED BY <2>1, <2>2
<1>6. v = 1 => var2 = by /\ f = 1
  <2> SUFFICES ASSUME v = 1 PROVE var2 = by /\ f = 1
    OBVIOUS
  <2>1. ru = 1 /\ u = 2
    BY <1>1
  <2>2. by = d.rhs
    BY <2>1, DivisorTops
  <2>3. var2 = d.rhs
    BY <2>1, Slide
  <2>4. f = 1
    <3>1. u - 2 = 0
      BY <2>1
    <3> QED BY <3>1, PowerZero
  <2> QED BY <2>2, <2>3, <2>4
<1> HIDE DEF by, f, var2, u, ru, pair, est
<1>7. est * var2 <= x
  <2>1. est * var2 <= est * (by * f)
    BY <1>2, <1>4, <1>5
  <2>2. est * (by * f) = (est * by) * f
    BY <1>2, <1>4
  <2>3. (est * by) * f <= pair * f
    BY <1>2, <1>3, <1>4
  <2>4. est * var2 \in Nat /\ (est * by) * f \in Nat /\ pair * f \in Nat
    BY <1>2, <1>3, <1>4
  <2> QED BY <2>1, <2>2, <2>3, <2>4, <1>3
<1>8. v = 1 => x < (est + 1) * var2
  <2> SUFFICES ASSUME v = 1 PROVE x < (est + 1) * var2
    OBVIOUS
  <2>1. pair = x
    BY <1>3, <1>6
  <2> QED BY <2>1, <1>4, <1>6
<1> QED BY <1>4, <1>7, <1>8 DEF by, f, var2, u, ru, pair, est

\* The powers of the abstract module are the same.
LEMMA SamePowers == ASSUME NEW b, NEW n PROVE Promise!Power(b, n) = Power(b, n)
BY DEF Promise!Power, Power

\* What an exponent cuts the quotient to, however both are scaled.
LEMMA CutScaled ==
  ASSUME NEW d \in Divisions, NEW e \in Int, NEW a \in Nat, NEW b \in Nat,
         a - b = d.lexp - d.rexp - e
  PROVE  LET x == d.lhs * Power(Radix, a)
             y == d.rhs * Power(Radix, b)
         IN  /\ x \in Nat \ {0} /\ y \in Nat \ {0}
             /\ Promise!CutAt(d, e) = x \div y
             /\ Promise!ExactAt(d, e) <=> x % y = 0
<1> DEFINE s == d.lexp - d.rexp - e
           up == IF s > 0 THEN s ELSE 0
           down == IF s < 0 THEN -s ELSE 0
           num == d.lhs * Power(Radix, up)
           den == d.rhs * Power(Radix, down)
           m == IF s > 0 THEN b ELSE a
           f == Power(Radix, m)
           x == d.lhs * Power(Radix, a)
           y == d.rhs * Power(Radix, b)
<1>1. /\ Promise!CutAt(d, e) = num \div den
      /\ Promise!ExactAt(d, e) <=> num % den = 0
  BY SamePowers DEF Promise!CutAt, Promise!ExactAt, Promise!Scaled
<1>2. up \in Nat /\ down \in Nat /\ m \in Nat /\ a = up + m /\ b = down + m
  <2>1. s = a - b
    OBVIOUS
  <2> HIDE DEF s
  <2> QED BY <2>1
<1> HIDE DEF s, up, down, m
<1>3. /\ Power(Radix, up) \in Nat \ {0} /\ Power(Radix, down) \in Nat \ {0} /\ f \in Nat \ {0}
      /\ Power(Radix, a) = Power(Radix, up) * f /\ Power(Radix, b) = Power(Radix, down) * f
  <2>1. /\ Power(Radix, up) \in Nat \ {0} /\ Power(Radix, down) \in Nat \ {0}
        /\ f \in Nat \ {0}
    BY <1>2, Bases, PowerType
  <2>2. Power(Radix, up + m) = Power(Radix, up) * f /\ Power(Radix, down + m) = Power(Radix, down) * f
    BY <1>2, Bases, PowerSum
  <2> QED BY <2>1, <2>2, <1>2
<1> HIDE DEF f
<1>4. /\ num \in Nat \ {0} /\ den \in Nat \ {0} /\ x = num * f /\ y = den * f
      /\ x \in Nat \ {0} /\ y \in Nat \ {0}
  BY <1>3, Operands
<1> HIDE DEF num, den, x, y
<1>5. x \div y = num \div den /\ x % y = (num % den) * f
  <2>1. num \in Int
    BY <1>4
  <2>2. (num * f) \div (den * f) = num \div den /\ (num * f) % (den * f) = (num % den) * f
    BY <1>3, <1>4, <2>1, CommonFactor, Zenon
  <2> QED BY <2>2, <1>4
<1>6. (num % den) * f = 0 <=> num % den = 0
  <2>1. \A z \in Nat : z * f = 0 <=> z = 0
    BY <1>3
  <2>2. num % den \in Nat
    BY <1>4
  <2> QED BY <2>1, <2>2
<1> QED BY <1>1, <1>4, <1>5, <1>6 DEF x, y

\* The exponent that belongs to a position of the divisor.
LEMMA Cuts ==
  ASSUME NEW d \in Divisions, IsLong(d), NEW v \in Nat, Units(d.rhs) <= v,
         NEW e, e = FirstExponent(d) + Cut(d) - DECDPUN * (Var1Units(d) - v)
  PROVE  /\ Promise!CutAt(d, e) = Dividend(d) \div Var2(d, v)
         /\ Promise!ExactAt(d, e) <=> Dividend(d) % Var2(d, v) = 0
         /\ Var2(d, v) = d.rhs * Power(Radix, DECDPUN * (v - Units(d.rhs)))
         /\ Padding(d) - DECDPUN * (v - Units(d.rhs)) = d.lexp - d.rexp - e
         /\ DECDPUN * (v - Units(d.rhs)) \in Nat
<1> DEFINE k == Padding(d)
           t == DECDPUN * (v - Units(d.rhs))
           s == d.lexp - d.rexp - e
<1>1. k \in Nat /\ t \in Nat /\ v - Units(d.rhs) \in Nat
  BY CutBounds, UnitsBounds, Operands, Bases
<1>2. s = k - t
  <2> DEFINE ul == Units(d.lhs)
             ru == Units(d.rhs)
             n == Var1Units(d)
  <2>1. FirstExponent(d) = d.lexp - d.rexp + DECDPUN * (ul - ru)
    BY ExponentOfUnits
  <2>2. k = DECDPUN * (n - ul) - Cut(d)
    BY DEF Padding
  <2>3. ul \in Nat /\ ru \in Nat /\ n \in Nat /\ Cut(d) \in Nat /\ d.lexp \in Int /\ d.rexp \in Int
    BY RoomInVar1, UnitsBounds, Operands, CutBounds
  <2> HIDE DEF ul, ru, n
  <2>4. e = d.lexp - d.rexp + DECDPUN * (ul - ru) + Cut(d) - DECDPUN * (n - v)
    BY <2>1 DEF n
  <2>5. DECDPUN * (ul - ru) - DECDPUN * (n - v) = DECDPUN * (v - ru) - DECDPUN * (n - ul)
    BY <2>3, Bases
  <2>6. DECDPUN * (ul - ru) \in Int /\ DECDPUN * (n - v) \in Int /\ DECDPUN * (v - ru) \in Int
        /\ DECDPUN * (n - ul) \in Int
    BY <2>3, Bases
  <2>7. e = d.lexp - d.rexp + DECDPUN * (v - ru) - k
    BY <2>2, <2>3, <2>4, <2>5, <2>6
  <2> QED BY <2>7, <2>3, <2>6, <1>1 DEF ru
<1>3. e \in Int
  BY FirstExponentInt, CutBounds, RoomInVar1, Bases
<1>4. Dividend(d) = d.lhs * Power(Radix, k)
  BY DividendIs
<1>5. Var2(d, v) = d.rhs * Power(Radix, t)
  BY <1>1, UnitPower DEF Var2
<1> HIDE DEF k, t
<1>6. /\ Promise!CutAt(d, e) = (d.lhs * Power(Radix, k)) \div (d.rhs * Power(Radix, t))
      /\ Promise!ExactAt(d, e) <=> (d.lhs * Power(Radix, k)) % (d.rhs * Power(Radix, t)) = 0
  BY <1>1, <1>2, <1>3, CutScaled
<1> QED BY <1>1, <1>2, <1>4, <1>5, <1>6 DEF k, t

\* Cutting it further: at a higher exponent.
LEMMA CutFurther ==
  ASSUME NEW d \in Divisions, NEW e \in Int, NEW l \in Nat
  PROVE  /\ Promise!CutAt(d, e) \in Nat
         /\ Promise!CutAt(d, e + l) = Promise!CutAt(d, e) \div Power(Radix, l)
         /\ Promise!ExactAt(d, e + l) <=> /\ Promise!ExactAt(d, e)
                                          /\ Promise!CutAt(d, e) % Power(Radix, l) = 0
<1> DEFINE s == d.lexp - d.rexp - e
           a == IF s > 0 THEN s ELSE 0
           b == IF s < 0 THEN -s ELSE 0
           x == d.lhs * Power(Radix, a)
           y == d.rhs * Power(Radix, b)
           f == Power(Radix, l)
<1>1. a \in Nat /\ b \in Nat /\ a - b = s /\ b + l \in Nat /\ a - (b + l) = d.lexp - d.rexp - (e + l)
      /\ e + l \in Int
  <2>1. s \in Int /\ s - l = d.lexp - d.rexp - (e + l)
    BY Operands
  <2> HIDE DEF s
  <2> QED BY <2>1
<1>2. f \in Nat \ {0} /\ Power(Radix, b + l) = Power(Radix, b) * f
      /\ Power(Radix, b) \in Nat
  BY <1>1, Bases, PowerType, PowerSum
<1>3. d.rhs * Power(Radix, b + l) = y * f
  BY <1>2, Operands
<1> HIDE DEF a, b
<1>4. /\ x \in Nat \ {0} /\ y \in Nat \ {0} /\ Promise!CutAt(d, e) = x \div y
      /\ Promise!ExactAt(d, e) <=> x % y = 0
  BY <1>1, CutScaled
<1>5. /\ Promise!CutAt(d, e + l) = x \div (y * f)
      /\ Promise!ExactAt(d, e + l) <=> x % (y * f) = 0
  <2>1. /\ Promise!CutAt(d, e + l) = x \div (d.rhs * Power(Radix, b + l))
        /\ Promise!ExactAt(d, e + l) <=> x % (d.rhs * Power(Radix, b + l)) = 0
    BY <1>1, CutScaled
  <2> QED BY <2>1, <1>3
<1> HIDE DEF x, y, f
<1>6. x \div (y * f) = (x \div y) \div f
      /\ (x % (y * f) = 0 <=> x % y = 0 /\ (x \div y) % f = 0)
  BY <1>2, <1>4, NestedDiv
<1> QED BY <1>4, <1>5, <1>6 DEF f

\* An exact quotient has a digit.
LEMMA ExactNotZero ==
  ASSUME NEW d \in Divisions, NEW e \in Int, Promise!ExactAt(d, e)
  PROVE  Promise!CutAt(d, e) # 0
<1> DEFINE s == d.lexp - d.rexp - e
           a == IF s > 0 THEN s ELSE 0
           b == IF s < 0 THEN -s ELSE 0
           x == d.lhs * Power(Radix, a)
           y == d.rhs * Power(Radix, b)
<1>1. a \in Nat /\ b \in Nat /\ a - b = s
  <2>1. s \in Int
    BY Operands
  <2> HIDE DEF s
  <2> QED BY <2>1
<1> HIDE DEF a, b
<1>2. /\ x \in Nat \ {0} /\ y \in Nat \ {0} /\ Promise!CutAt(d, e) = x \div y /\ x % y = 0
  BY <1>1, CutScaled
<1> HIDE DEF x, y
<1>3. x = (x \div y) * y + (x % y)
  BY <1>2, DivMod
<1>4. x \div y = 0 => x = 0 * y + 0
  BY <1>2, <1>3
<1> QED BY <1>2, <1>4
-----------------------------------------------------------------------------
(***************************************************************************)
(* The inductive invariant.                                                *)
(***************************************************************************)
\* The divisor where it stands.
Divisor == Var2(division, var2ulen)

\* The quotient found, down to the Unit under construction.
Found == IF pc \in {"inner", "unit"} THEN acc * B + thisunit ELSE acc

Typed == /\ division \in Divisions /\ IsLong(division)
         /\ pc \in {"inner", "unit", "done", "returned"}
         /\ var1 \in Nat /\ thisunit \in Nat /\ acc \in Nat
         /\ accunits \in Nat /\ accdigits \in Nat
         /\ var2ulen \in Nat /\ exponent \in Int

\* The divisor slides inside var1, and the exponent says where it stands.
Slides == /\ Units(division.rhs) <= var2ulen /\ var2ulen <= Var1Units(division)
          /\ exponent = FirstExponent(division) + Cut(division)
                          - DECDPUN * (Var1Units(division) - var2ulen)
          /\ division.op # "Divide" => exponent >= 0 /\ exponent % DECDPUN = 0

\* The dividend is what has been found, times the divisor, and what is left.
Balance == Dividend(division) = Found * Divisor + var1

\* What is left is worth less than a Unit of the one before.
Bounded == /\ pc = "inner" => var1 + thisunit * Divisor < B * Divisor
           /\ pc # "inner" => var1 < Divisor /\ thisunit < B

\* Against a divisor of one Unit at the right end, one subtraction is enough.
Single == pc = "inner" /\ var2ulen = 1 /\ thisunit # 0 => var1 < Divisor

\* Units and digits of the quotient are counted right, and it is not yet full.
Counted == /\ accunits = 0 => acc = 0 /\ accdigits = 0
           /\ accunits # 0 => acc # 0 /\ accdigits = Digits(acc) /\ accunits = Units(acc)
           /\ pc \in {"inner", "unit"} => acc < Power(Radix, division.digits)
           /\ acc < Power(Radix, division.digits + DECDPUN)

IInv == Typed /\ Slides /\ Balance /\ Bounded /\ Single /\ Counted

\* The exponent of the last turn of an integer quotient is 0.
LEMMA FirstExponentAligned ==
  ASSUME NEW d \in Divisions, d.op # "Divide"
  PROVE  /\ FirstExponent(d) + Cut(d) \in Nat
         /\ (FirstExponent(d) + Cut(d)) % DECDPUN = 0
<1> DEFINE fe == FirstExponent(d)
<1>1. fe \in Int
  BY FirstExponentInt
<1>2. Cut(d) = IF fe < 0 THEN -fe ELSE DECDPUN - (fe % DECDPUN)
  BY DEF Cut
<1> HIDE DEF fe
<1>3. CASE fe < 0
  <2>1. fe + Cut(d) = 0
    BY <1>1, <1>2, <1>3
  <2> QED BY <2>1, Bases DEF fe
<1>4. CASE ~(fe < 0)
  <2> DEFINE q == fe \div DECDPUN
             r == fe % DECDPUN
  <2>1. fe = q * DECDPUN + r /\ q \in Int /\ r \in 0 .. DECDPUN - 1
    BY <1>1, Bases, DivMod
  <2>2. Cut(d) = DECDPUN - r
    BY <1>2, <1>4
  <2> HIDE DEF q, r
  <2>3. fe + Cut(d) = (q + 1) * DECDPUN + 0
    BY <2>1, <2>2, Bases
  <2>4. ASSUME NEW b \in Nat \ {0}, NEW p \in Int, NEW x, x = p * b + 0 PROVE x % b = 0
    BY <2>4
  <2>5. (fe + Cut(d)) % DECDPUN = 0
    BY <2>1, <2>3, <2>4, Bases
  <2>6. fe + Cut(d) \in Nat
    BY <1>1, <1>4, <2>1, <2>2, Bases
  <2> QED BY <2>5, <2>6 DEF fe
<1> QED BY <1>3, <1>4

LEMMA InitIInv == Init => IInv
<1> SUFFICES ASSUME Init PROVE IInv
  OBVIOUS
<1> DEFINE d == division
           n == Var1Units(d)
<1>1. d \in Divisions /\ IsLong(d) /\ pc = "inner" /\ thisunit = 0 /\ acc = 0
      /\ accunits = 0 /\ accdigits = 0
      /\ var1 = Dividend(d)
      /\ var2ulen = n - (IF Skips(d) THEN 1 ELSE 0)
      /\ exponent = FirstExponent(d) + Cut(d) - (IF Skips(d) THEN DECDPUN ELSE 0)
  BY DEF Init, Dividend
<1>2. n \in Nat /\ Units(d.rhs) \in Nat /\ Units(d.rhs) + 2 <= n
  BY <1>1, RoomInVar1, UnitsBounds, Operands
<1>3. FirstExponent(d) + Cut(d) \in Int
  <2>1. FirstExponent(d) \in Int
    BY <1>1, FirstExponentInt
  <2> QED BY <1>1, <2>1, CutBounds
<1>4. var2ulen \in Nat /\ Units(d.rhs) <= var2ulen /\ var2ulen <= n
  BY <1>1, <1>2
<1>5. exponent = FirstExponent(d) + Cut(d) - DECDPUN * (n - var2ulen)
  <2>1. n - var2ulen = IF Skips(d) THEN 1 ELSE 0
    BY <1>1, <1>2
  <2>2. DECDPUN * (n - var2ulen) = IF Skips(d) THEN DECDPUN ELSE 0
    BY <2>1, Bases
  <2> QED BY <1>1, <2>2
<1>6. Divisor \in Nat \ {0} /\ Dividend(d) \in Nat
  BY <1>1, <1>4, Slide, DividendIs DEF Divisor
<1>7. Typed
  BY <1>1, <1>3, <1>4, <1>6, Bases DEF Typed
<1>8. Slides
  <2>1. d.op # "Divide" => exponent = FirstExponent(d) + Cut(d)
    <3>1. d.op # "Divide" => ~Skips(d)
      BY DEF Skips
    <3>2. Cut(d) \in Nat
      BY <1>1, CutBounds
    <3>3. Cut(d) - 0 = Cut(d)
      BY <3>2
    <3> QED BY <3>1, <3>3, <1>1
  <2> QED BY <1>1, <1>4, <1>5, <2>1, FirstExponentAligned DEF Slides
<1>9. Balance
  BY <1>1, <1>6, Bases DEF Balance, Found
<1>10. Bounded
  <2>1. Dividend(d) < B * Divisor
    <3>1. CASE Skips(d)
      <4>1. Var2(d, (n - 1) + 1) = B * Var2(d, n - 1)
        BY <1>1, <1>2, Slide
      <4>2. (n - 1) + 1 = n
        BY <1>2
      <4> HIDE DEF n
      <4>3. Dividend(d) < Var2(d, n)
        BY <1>1, <3>1, FirstTurn DEF n
      <4> QED BY <3>1, <4>1, <4>2, <4>3, <1>1 DEF Divisor
    <3>2. CASE ~Skips(d)
      <4>1. var2ulen = n
        BY <1>1, <1>2, <3>2
      <4> QED BY <4>1, <1>1, FirstTurn DEF Divisor
    <3> QED BY <3>1, <3>2
  <2> QED BY <2>1, <1>1, <1>6 DEF Bounded
<1>11. Single /\ Counted
  <2>1. d.digits \in Nat /\ d.digits + DECDPUN \in Nat
    BY <1>1, Operands, Bases
  <2>2. Power(Radix, d.digits) \in Nat \ {0} /\ Power(Radix, d.digits + DECDPUN) \in Nat \ {0}
    BY <2>1, PowerType, Bases
  <2> QED BY <1>1, <2>2 DEF Single, Counted
<1> QED BY <1>7, <1>8, <1>9, <1>10, <1>11 DEF IInv

\* What every state of the loops says of the divisor.
LEMMA DivisorFacts ==
  ASSUME IInv
  PROVE  /\ division \in Divisions /\ IsLong(division)
         /\ Divisor \in Nat \ {0} /\ Divisor < Power(B, var2ulen)
         /\ Power(B, var2ulen - 1) <= Divisor
         /\ B * Divisor < Power(B, var2ulen + 1)
         /\ var2ulen \in Nat \ {0} /\ Units(division.rhs) <= var2ulen
         /\ var2ulen = Units(division.rhs) => Divisor = division.rhs
         /\ var1 \in Nat /\ thisunit \in Nat /\ acc \in Nat
<1>1. division \in Divisions /\ IsLong(division) /\ var2ulen \in Nat
      /\ Units(division.rhs) <= var2ulen
      /\ var1 \in Nat /\ thisunit \in Nat /\ acc \in Nat
  BY DEF IInv, Typed, Slides
<1>2. /\ Divisor \in Nat \ {0} /\ Divisor < Power(B, var2ulen)
      /\ Power(B, var2ulen - 1) <= Divisor
      /\ var2ulen = Units(division.rhs) => Divisor = division.rhs
  BY <1>1, Slide DEF Divisor
<1>3. B * Divisor < Power(B, var2ulen + 1)
  <2>1. Power(B, var2ulen + 1) = B * Power(B, var2ulen) /\ Power(B, var2ulen) \in Nat
    BY <1>1, PowerNext, UnitPower
  <2> QED BY <2>1, <1>2, Bases
<1>4. var2ulen # 0
  BY <1>1, UnitsBounds, Operands
<1> QED BY <1>1, <1>2, <1>3, <1>4

\* The dividend ends in a Unit of zeros.
LEMMA UnitOfZeros ==
  ASSUME NEW d \in Divisions, IsLong(d)
  PROVE  \E h \in Nat : Dividend(d) = h * B
<1> DEFINE k == Padding(d)
           f == Power(Radix, k - DECDPUN)
<1>1. k \in Nat /\ k - DECDPUN \in Nat /\ (k - DECDPUN) + DECDPUN = k
  BY CutBounds, Bases
<1>2. Dividend(d) = d.lhs * Power(Radix, k)
  BY DividendIs
<1>3. Power(Radix, (k - DECDPUN) + DECDPUN) = f * B
  BY <1>1, Bases, PowerSum
<1>4. f \in Nat
  BY <1>1, Bases, PowerType
<1> HIDE DEF f
<1>5. Dividend(d) = (d.lhs * f) * B /\ d.lhs * f \in Nat
  BY <1>1, <1>2, <1>3, <1>4, Operands, Bases
<1> QED BY <1>5

\* What is still to be subtracted from has a Unit below its first one.
LEMMA TwoUnits ==
  ASSUME IInv, pc = "inner", var1 > Divisor, Units(var1) >= var2ulen
  PROVE  Units(var1) >= 2
<1>1. var1 \in Nat \ {0}
  BY DivisorFacts
<1> SUFFICES ASSUME Units(var1) = 1 PROVE FALSE
  BY <1>1, UnitsBounds
<1>2. var2ulen = 1 /\ Units(division.rhs) = 1
  BY DivisorFacts, UnitsBounds, Operands
<1>3. Divisor = division.rhs /\ division.rhs \in Nat
  BY <1>2, DivisorFacts, Operands
<1>4. thisunit = 0
  BY <1>2, DivisorFacts DEF IInv, Single
<1>5. Dividend(division) = (acc * B + thisunit) * Divisor + var1
  BY DEF IInv, Balance, Found
<1>6. PICK h \in Nat : Dividend(division) = h * B
  BY DivisorFacts, UnitOfZeros
<1>7. acc \in Nat /\ Divisor \in Nat
  BY DivisorFacts
<1>8. var1 = (h - acc * Divisor) * B
  <2>1. h * B = (acc * B + 0) * Divisor + var1
    BY <1>4, <1>5, <1>6
  <2>2. (acc * B + 0) * Divisor = (acc * Divisor) * B
    BY <1>7, Bases
  <2>3. (h - acc * Divisor) * B = h * B - (acc * Divisor) * B
    BY <1>7, Bases
  <2>4. (acc * Divisor) * B \in Nat /\ h * B \in Nat
    BY <1>7, Bases
  <2> QED BY <2>1, <2>2, <2>3, <2>4, <1>1
<1>9. var1 < B
  <2>1. var1 < Power(B, 1)
    BY <1>1, UnitsBounds
  <2> QED BY <2>1, PowerOne, Bases
<1>10. ASSUME NEW z \in Int, z * B > 0 PROVE z * B >= B
  BY <1>10, Bases
<1>11. h - acc * Divisor \in Int
  BY <1>7
<1> QED BY <1>1, <1>8, <1>9, <1>10, <1>11, Bases

\* Where there is something to subtract from, var1 reaches as far as the
\* divisor, or a Unit further.
LEMMA UnitsOfVar1 ==
  ASSUME IInv, pc = "inner", var1 > Divisor, Units(var1) >= var2ulen
  PROVE  Units(var1) \in {var2ulen, var2ulen + 1}
<1>1. var1 < Power(B, var2ulen + 1)
  <2>1. var1 + thisunit * Divisor < B * Divisor
    BY DEF IInv, Bounded
  <2>2. thisunit * Divisor \in Nat /\ B * Divisor \in Nat
    BY DivisorFacts, Bases
  <2>3. Power(B, var2ulen + 1) \in Nat
    BY DivisorFacts, UnitPower
  <2> QED BY <2>1, <2>2, <2>3, DivisorFacts
<1>2. var1 \in Nat \ {0} /\ var2ulen \in Nat /\ var2ulen + 1 \in Nat \ {0}
  BY DivisorFacts
<1>3. Units(var1) <= var2ulen + 1
  BY <1>1, <1>2, Bases, PlacesAtMost DEF Units
<1> QED BY <1>2, <1>3, UnitsBounds

\* The multiplier is at least one, and never too high.
LEMMA MultiplierLow ==
  ASSUME IInv, pc = "inner", var1 > Divisor, Units(var1) >= var2ulen, NEW below
  PROVE  /\ Multiplier(below) \in Nat \ {0}
         /\ Multiplier(below) * Divisor <= var1
         /\ var2ulen = 1 => var1 - Multiplier(below) * Divisor < Divisor
<1> DEFINE est == Estimate(below)
           m == Multiplier(below)
<1>1. Units(var1) >= 2 /\ Units(var1) \in {var2ulen, var2ulen + 1}
  BY TwoUnits, UnitsOfVar1
<1>2. est = (var1 \div Power(B, Units(var1) - 2))
              \div (IF Units(var1) = var2ulen THEN Msu2Pair(division) ELSE Msu2Plus(division))
  BY <1>1 DEF Estimate, LeadingPair
<1>3. var1 \in Nat \ {0} /\ var2ulen \in Nat
  BY DivisorFacts
<1>4. est \in Nat /\ est * Divisor <= var1 /\ (var2ulen = 1 => var1 < (est + 1) * Divisor)
  BY <1>1, <1>2, <1>3, DivisorFacts, EstimateLow DEF Divisor
<1>5. m = IF est > 1 THEN est ELSE 1
  BY DEF Multiplier, Most
<1>6. Divisor \in Nat \ {0} /\ 1 * Divisor <= var1
  BY DivisorFacts
<1> HIDE DEF est, m
<1>7. m \in Nat \ {0} /\ m * Divisor <= var1
  BY <1>4, <1>5, <1>6
<1>8. var2ulen = 1 => var1 - m * Divisor < Divisor
  <2> SUFFICES ASSUME var2ulen = 1 PROVE var1 - m * Divisor < Divisor
    OBVIOUS
  <2>1. est # 0
    <3>1. est = 0 => var1 < 1 * Divisor
      BY <1>4
    <3> QED BY <3>1, <1>3, <1>6
  <2>2. m = est
    BY <2>1, <1>4, <1>5
  <2> QED BY <2>2, <1>3, <1>4, <1>6
<1> QED BY <1>7, <1>8 DEF m

LEMMA SubtractIInv == IInv /\ Subtract => IInv'
<1> SUFFICES ASSUME IInv, Subtract PROVE IInv'
  OBVIOUS
<1>1. PICK below \in {0, B - 1} :
        /\ thisunit' = thisunit + Multiplier(below)
        /\ var1' = var1 - Multiplier(below) * Divisor
  BY DEF Subtract, Divisor
<1>2. /\ pc = "inner" /\ Units(var1) >= var2ulen /\ var1 > Divisor
      /\ UNCHANGED <<division, pc, var2ulen, acc, accunits, accdigits, exponent>>
  BY DEF Subtract, Divisor
<1> DEFINE m == Multiplier(below)
<1>3. /\ m \in Nat \ {0} /\ m * Divisor <= var1
      /\ var2ulen = 1 => var1 - m * Divisor < Divisor
  BY <1>2, MultiplierLow
<1>4. thisunit' = thisunit + m /\ var1' = var1 - m * Divisor /\ Divisor' = Divisor
  BY <1>1, <1>2 DEF Divisor
<1> HIDE DEF m
<1>5. Divisor \in Nat \ {0} /\ var1 \in Nat /\ thisunit \in Nat /\ acc \in Nat
  BY DivisorFacts
<1>6. Typed'
  BY <1>2, <1>3, <1>4, <1>5 DEF IInv, Typed
<1>7. Slides'
  BY <1>2 DEF IInv, Slides
<1>8. Balance'
  <2>1. Dividend(division) = (acc * B + thisunit) * Divisor + var1
    BY <1>2 DEF IInv, Balance, Found
  <2>2. (acc * B + (thisunit + m)) * Divisor + (var1 - m * Divisor)
          = (acc * B + thisunit) * Divisor + var1
    BY <1>3, <1>5, Bases
  <2> QED BY <2>1, <2>2, <1>2, <1>4 DEF Balance, Found
<1>9. Bounded'
  <2>1. var1 + thisunit * Divisor < B * Divisor
    BY <1>2 DEF IInv, Bounded
  <2>2. (var1 - m * Divisor) + (thisunit + m) * Divisor = var1 + thisunit * Divisor
    BY <1>3, <1>5
  <2> QED BY <2>1, <2>2, <1>2, <1>4 DEF Bounded
<1>10. Single'
  BY <1>2, <1>3, <1>4 DEF Single
<1>11. Counted'
  BY <1>2 DEF IInv, Counted
<1> QED BY <1>6, <1>7, <1>8, <1>9, <1>10, <1>11 DEF IInv

LEMMA BreakIInv == IInv /\ Break => IInv'
<1> SUFFICES ASSUME IInv, Break PROVE IInv'
  OBVIOUS
<1>1. /\ pc = "inner" /\ pc' = "unit"
      /\ UNCHANGED <<division, var2ulen, acc, accunits, accdigits, exponent>>
  BY DEF Break
<1>2. /\ Divisor \in Nat \ {0} /\ var1 \in Nat /\ thisunit \in Nat /\ acc \in Nat
      /\ var2ulen \in Nat \ {0} /\ Power(B, var2ulen - 1) <= Divisor
  BY DivisorFacts
<1>3. Divisor' = Divisor
  BY <1>1 DEF Divisor
<1>4. var1 + thisunit * Divisor < B * Divisor
  BY <1>1 DEF IInv, Bounded
<1>5. \/ var1 < Divisor /\ UNCHANGED <<thisunit, var1>>
      \/ var1 = Divisor /\ thisunit' = thisunit + 1 /\ var1' = 0
  <2>1. CASE Units(var1) < var2ulen /\ UNCHANGED <<thisunit, var1>>
    <3>1. var1 < Power(B, Units(var1)) /\ Units(var1) \in Nat
      BY <1>2, Bases, PlacesBounds DEF Units
    <3>2. Power(B, Units(var1)) <= Power(B, var2ulen - 1)
      <4>1. var2ulen - 1 \in Nat /\ Units(var1) <= var2ulen - 1
        BY <1>2, <2>1, <3>1
      <4> QED BY <3>1, <4>1, Bases, PowerMono
    <3>3. Power(B, Units(var1)) \in Nat /\ Power(B, var2ulen - 1) \in Nat
      <4>1. var2ulen - 1 \in Nat
        BY <1>2
      <4> QED BY <4>1, <3>1, UnitPower
    <3> QED BY <2>1, <3>1, <3>2, <3>3, <1>2
  <2>2. CASE var1 < Divisor /\ UNCHANGED <<thisunit, var1>>
    BY <2>2
  <2>3. CASE var1 = Divisor /\ thisunit' = thisunit + 1 /\ var1' = 0
    BY <2>3
  <2> QED BY <2>1, <2>2, <2>3 DEF Break, Divisor
<1>6. ASSUME NEW t \in Nat, t * Divisor < B * Divisor PROVE t < B
  BY <1>2, <1>6, Bases
<1>7. thisunit' \in Nat /\ var1' \in Nat /\ thisunit' * Divisor < B * Divisor
      /\ var1' < Divisor
      /\ (acc * B + thisunit') * Divisor + var1' = (acc * B + thisunit) * Divisor + var1
  <2>1. CASE var1 < Divisor /\ UNCHANGED <<thisunit, var1>>
    <3>1. thisunit * Divisor \in Nat /\ B * Divisor \in Nat
      BY <1>2, Bases
    <3>2. thisunit * Divisor < B * Divisor
      BY <3>1, <1>2, <1>4
    <3> QED BY <2>1, <1>2, <3>2
  <2>2. CASE var1 = Divisor /\ thisunit' = thisunit + 1 /\ var1' = 0
    <3>1. (thisunit + 1) * Divisor = Divisor + thisunit * Divisor
      BY <1>2
    <3>2. (acc * B + (thisunit + 1)) * Divisor + 0 = (acc * B + thisunit) * Divisor + Divisor
      BY <1>2, Bases
    <3> QED BY <2>2, <3>1, <3>2, <1>2, <1>4
  <2> QED BY <2>1, <2>2, <1>5
<1>8. Typed'
  BY <1>1, <1>7 DEF IInv, Typed
<1>9. Slides'
  BY <1>1 DEF IInv, Slides
<1>10. Balance'
  <2>1. Dividend(division) = (acc * B + thisunit) * Divisor + var1
    BY <1>1 DEF IInv, Balance, Found
  <2> QED BY <2>1, <1>1, <1>3, <1>7 DEF Balance, Found
<1>11. Bounded'
  BY <1>1, <1>3, <1>6, <1>7 DEF Bounded
<1>12. Single'
  BY <1>1 DEF Single
<1>13. Counted'
  BY <1>1 DEF IInv, Counted
<1> QED BY <1>8, <1>9, <1>10, <1>11, <1>12, <1>13 DEF IInv

\* The Unit found is added to the quotient, and its digits counted.
LEMMA AccumulateCounts ==
  ASSUME IInv, Accumulate
  PROVE  /\ acc' = acc * B + thisunit /\ acc' \in Nat
         /\ Dividend(division) = acc' * Divisor + var1 /\ var1 < Divisor
         /\ accunits' = 0 => acc' = 0 /\ accdigits' = 0
         /\ accunits' # 0 => /\ acc' # 0 /\ accdigits' = Digits(acc')
                             /\ accunits' = Units(acc')
         /\ accunits' \in Nat /\ accdigits' \in Nat
         /\ Stored <=> acc' # 0
         /\ acc' < Power(Radix, division.digits + DECDPUN)
<1>1. pc = "unit"
  BY DEF Accumulate
<1>2. /\ Divisor \in Nat \ {0} /\ var1 \in Nat /\ thisunit \in Nat /\ acc \in Nat
      /\ accunits \in Nat /\ accdigits \in Nat /\ thisunit < B /\ var1 < Divisor
      /\ division \in Divisions
  BY <1>1, DivisorFacts DEF IInv, Typed, Bounded
<1>3. /\ accunits = 0 => acc = 0 /\ accdigits = 0
      /\ accunits # 0 => acc # 0 /\ accdigits = Digits(acc) /\ accunits = Units(acc)
  BY DEF IInv, Counted
<1>4. acc' = acc * B + thisunit
  <2>1. CASE Stored
    BY <2>1 DEF Accumulate
  <2>2. CASE ~Stored
    <3>1. acc' = acc /\ acc = 0 /\ thisunit = 0
      BY <2>2, <1>3 DEF Accumulate, Stored
    <3> QED BY <3>1, Bases
  <2> QED BY <2>1, <2>2
<1>5. acc' \in Nat
  BY <1>2, <1>4, Bases
<1>6. Dividend(division) = acc' * Divisor + var1
  BY <1>1, <1>4 DEF IInv, Balance, Found
<1>7. acc' < Power(Radix, division.digits + DECDPUN)
  <2> DEFINE p == Power(Radix, division.digits)
  <2>1. division.digits \in Nat
    BY <1>2, Operands
  <2>2. p \in Nat \ {0} /\ Power(Radix, division.digits + DECDPUN) = p * B
    BY <2>1, Bases, PowerSum, PowerType
  <2>3. acc < p
    BY <1>1 DEF IInv, Counted
  <2> HIDE DEF p
  <2>4. (acc + 1) * B <= p * B
    BY <2>2, <2>3, <1>2, Bases
  <2> QED BY <2>2, <2>4, <1>2, <1>4, Bases
<1>8. CASE ~Stored
  <2>1. acc' = 0 /\ accunits' = 0 /\ accdigits' = 0
    BY <1>8, <1>3 DEF Accumulate, Stored
  <2> QED BY <1>2, <1>4, <1>5, <1>6, <1>7, <1>8, <2>1
<1>9. CASE Stored /\ accunits = 0
  <2>1. acc' = thisunit /\ thisunit # 0
    BY <1>2, <1>3, <1>4, <1>9, Bases DEF Stored
  <2>2. accunits' = 1 /\ accdigits' = Digits(thisunit)
    BY <1>9 DEF Accumulate
  <2>3. Units(thisunit) = 1
    BY <1>2, Bases, PlacesStep DEF Units
  <2>4. Digits(thisunit) \in Nat
    BY <2>1, <1>2, DigitsBounds
  <2> QED BY <1>2, <1>4, <1>5, <1>6, <1>7, <1>9, <2>1, <2>2, <2>3, <2>4
<1>10. CASE Stored /\ accunits # 0
  <2>1. acc \in Nat \ {0} /\ accdigits = Digits(acc) /\ accunits = Units(acc)
    BY <1>2, <1>3, <1>10
  <2>2. accunits' = accunits + 1 /\ accdigits' = accdigits + DECDPUN
    BY <1>10 DEF Accumulate
  <2>3. acc' \div B = acc /\ acc' >= B
    <3>1. ASSUME NEW b \in Nat \ {0}, NEW a \in Nat \ {0}, NEW z \in Nat, z < b
          PROVE  (a * b + z) \div b = a /\ a * b + z >= b
      BY <3>1
    <3> QED BY <3>1, <2>1, <1>2, <1>4, Bases
  <2>4. Units(acc') = 1 + Units(acc)
    <3>1. ~(acc' < B)
      BY <2>3, <1>5, Bases
    <3> QED BY <2>3, <3>1, <1>5, Bases, PlacesStep DEF Units
  <2>5. Digits(acc') = DECDPUN + Digits(acc)
    BY <2>3, <1>5, Bases, PlacesShift DEF Digits
  <2>6. Digits(acc) \in Nat /\ Units(acc) \in Nat /\ acc' # 0
    BY <2>1, <2>3, <1>5, DigitsBounds, UnitsBounds, Bases
  <2> QED BY <1>2, <1>4, <1>5, <1>6, <1>7, <1>10, <2>1, <2>2, <2>4, <2>5, <2>6, Bases
<1> QED BY <1>8, <1>9, <1>10

\* The quotient is full when it has a digit more than wanted.
LEMMA FullMeans ==
  ASSUME IInv, Accumulate
  PROVE  Stored /\ Full(division, accdigits') <=> acc' >= Power(Radix, division.digits)
<1> DEFINE p == division.digits
<1>1. acc' \in Nat /\ (Stored <=> acc' # 0) /\ (acc' # 0 => accdigits' = Digits(acc'))
  BY AccumulateCounts
<1>2. p \in Nat \ {0} /\ Power(Radix, p) \in Nat \ {0}
  BY DivisorFacts, Operands, Bases, PowerType
<1>3. CASE acc' = 0
  BY <1>1, <1>2, <1>3
<1>4. CASE acc' # 0
  <2>1. acc' >= Power(Radix, p) => Digits(acc') > p
    BY <1>1, <1>2, Bases, PlacesAtLeast DEF Digits
  <2>2. acc' < Power(Radix, p) => Digits(acc') <= p
    BY <1>1, <1>2, Bases, PlacesAtMost DEF Digits
  <2>3. Digits(acc') \in Nat
    BY <1>1, <1>4, DigitsBounds
  <2> QED BY <1>1, <1>2, <1>4, <2>1, <2>2, <2>3 DEF Full
<1> QED BY <1>3, <1>4

\* While there is another turn, the divisor has a Unit to slide further.
LEMMA RoomToSlide ==
  ASSUME IInv, Accumulate, pc' # "done"
  PROVE  /\ var2ulen - 1 \in Nat /\ Units(division.rhs) <= var2ulen - 1
         /\ pc' = "inner" /\ thisunit' = 0 /\ var2ulen' = var2ulen - 1
         /\ exponent' = exponent - DECDPUN
         /\ division.op # "Divide" => exponent # 0
         /\ acc' < Power(Radix, division.digits)
<1> DEFINE d == division
           n == Var1Units(d)
<1>1. /\ ~(Stored /\ Full(division, accdigits'))
      /\ ~(exponent = 0 /\ d.op # "Divide")
      /\ pc' = "inner" /\ thisunit' = 0 /\ var2ulen' = var2ulen - 1
      /\ exponent' = exponent - DECDPUN
  BY DEF Accumulate
<1>2. acc' \in Nat /\ ~(acc' >= Power(Radix, d.digits))
  BY <1>1, FullMeans, AccumulateCounts
<1>3. d \in Divisions /\ IsLong(d) /\ var2ulen \in Nat \ {0} /\ Units(d.rhs) <= var2ulen
      /\ n \in Nat /\ var2ulen <= n /\ Units(d.rhs) \in Nat
      /\ d.rhs \in Nat \ {0} /\ var1 \in Nat
      /\ (var2ulen = Units(d.rhs) => Divisor = d.rhs)
  BY DivisorFacts, RoomInVar1, UnitsBounds, Operands DEF IInv, Slides
<1>4. Cut(d) <= DECDPUN
  <2> DEFINE fe == FirstExponent(d)
  <2>1. /\ exponent = fe + Cut(d) - DECDPUN * (n - var2ulen)
        /\ d.op # "Divide" => exponent >= 0
    BY DEF IInv, Slides
  <2> SUFFICES ASSUME Cut(d) > DECDPUN PROVE FALSE
    BY <1>3, CutBounds, Bases
  <2>2. d.op # "Divide" /\ fe < 0
    BY <1>3, CutBounds
  <2>3. Cut(d) = -fe
    BY <2>2 DEF Cut
  <2>4. fe \in Int
    BY <1>3, FirstExponentInt
  <2> HIDE DEF fe, n
  <2>5. exponent = - (DECDPUN * (n - var2ulen))
    BY <2>1, <2>3, <2>4, <1>3, Bases
  <2>6. exponent \in Int /\ exponent >= 0 /\ exponent # 0
    BY <1>1, <2>1, <2>2 DEF IInv, Typed
  <2>7. DECDPUN * (n - var2ulen) >= 0 /\ DECDPUN * (n - var2ulen) \in Int
    BY <1>3, Bases
  <2> QED BY <2>5, <2>6, <2>7
<1>5. var2ulen # Units(d.rhs)
  <2> SUFFICES ASSUME var2ulen = Units(d.rhs) PROVE FALSE
    OBVIOUS
  <2>1. Dividend(d) = acc' * d.rhs + var1 /\ var1 < d.rhs
    BY <1>3, AccumulateCounts
  <2>2. acc' >= Power(Radix, d.digits)
    BY <1>2, <1>3, <1>4, <2>1, EndsFull
  <2> QED BY <1>2, <2>2
<1>6. acc' < Power(Radix, d.digits)
  <2>1. Power(Radix, d.digits) \in Nat
    BY <1>3, Operands, Bases, PowerType
  <2> QED BY <2>1, <1>2
<1>7. var2ulen - 1 \in Nat /\ Units(d.rhs) <= var2ulen - 1
  <2> HIDE DEF d, n
  <2> QED BY <1>3, <1>5
<1> QED BY <1>1, <1>6, <1>7

LEMMA AccumulateIInv == IInv /\ Accumulate => IInv'
<1> SUFFICES ASSUME IInv, Accumulate PROVE IInv'
  OBVIOUS
<1>1. pc = "unit" /\ UNCHANGED <<division, var1, result>> /\ pc' \in {"inner", "done"}
  BY DEF Accumulate
<1>2. /\ Divisor \in Nat \ {0} /\ var1 \in Nat /\ thisunit \in Nat /\ thisunit < B
      /\ division \in Divisions /\ IsLong(division) /\ exponent \in Int
      /\ var2ulen \in Nat /\ Units(division.rhs) <= var2ulen
  BY <1>1, DivisorFacts DEF IInv, Typed, Bounded
<1>3. /\ acc' = acc * B + thisunit /\ acc' \in Nat
      /\ Dividend(division) = acc' * Divisor + var1 /\ var1 < Divisor
      /\ accunits' = 0 => acc' = 0 /\ accdigits' = 0
      /\ accunits' # 0 => /\ acc' # 0 /\ accdigits' = Digits(acc')
                          /\ accunits' = Units(acc')
      /\ accunits' \in Nat /\ accdigits' \in Nat
      /\ acc' < Power(Radix, division.digits + DECDPUN)
  BY AccumulateCounts
<1>4. CASE pc' = "done"
  <2>1. UNCHANGED <<thisunit, var2ulen, exponent>> /\ Divisor' = Divisor
    BY <1>1, <1>4 DEF Accumulate, Divisor
  <2>2. Typed'
    BY <1>1, <1>2, <1>3, <1>4, <2>1 DEF Typed
  <2>3. Slides'
    BY <1>1, <2>1 DEF IInv, Slides
  <2>4. Balance' /\ Bounded' /\ Single'
    BY <1>1, <1>2, <1>3, <1>4, <2>1 DEF Balance, Bounded, Single, Found
  <2>5. Counted'
    BY <1>1, <1>3, <1>4 DEF Counted
  <2> QED BY <2>2, <2>3, <2>4, <2>5 DEF IInv
<1>5. CASE pc' # "done"
  <2>1. /\ var2ulen - 1 \in Nat /\ Units(division.rhs) <= var2ulen - 1
        /\ pc' = "inner" /\ thisunit' = 0 /\ var2ulen' = var2ulen - 1
        /\ exponent' = exponent - DECDPUN
        /\ division.op # "Divide" => exponent # 0
        /\ acc' < Power(Radix, division.digits)
    BY <1>5, RoomToSlide
  <2>2. Divisor = B * Divisor' /\ Divisor' \in Nat \ {0}
    <3>1. Divisor' = Var2(division, var2ulen - 1)
      BY <1>1, <2>1 DEF Divisor
    <3>2. (var2ulen - 1) + 1 = var2ulen
      BY <1>2
    <3>3. /\ Var2(division, (var2ulen - 1) + 1) = B * Var2(division, var2ulen - 1)
          /\ Var2(division, var2ulen - 1) \in Nat \ {0}
      BY <1>2, <2>1, Slide
    <3> QED BY <3>1, <3>2, <3>3 DEF Divisor
  <2>3. Typed'
    BY <1>1, <1>2, <1>3, <2>1, Bases DEF Typed
  <2>4. Slides'
    <3> DEFINE first == FirstExponent(division) + Cut(division)
               n == Var1Units(division)
    <3>1. n \in Nat /\ var2ulen <= n
          /\ exponent = FirstExponent(division) + Cut(division) - DECDPUN * (n - var2ulen)
          /\ (division.op # "Divide" => exponent >= 0 /\ exponent % DECDPUN = 0)
      BY <1>2, RoomInVar1 DEF IInv, Slides
    <3>2. FirstExponent(division) \in Int /\ Cut(division) \in Int
      BY <1>2, FirstExponentInt, CutBounds
    <3> HIDE DEF n
    <3>3. DECDPUN * (n - (var2ulen - 1)) = DECDPUN * (n - var2ulen) + DECDPUN
          /\ DECDPUN * (n - var2ulen) \in Int
      BY <1>2, <3>1, Bases
    <3>4. exponent' = FirstExponent(division) + Cut(division) - DECDPUN * (n - (var2ulen - 1))
      BY <2>1, <3>1, <3>2, <3>3, Bases
    <3>5. division.op # "Divide" => exponent' >= 0 /\ exponent' % DECDPUN = 0
      <4>1. ASSUME NEW c \in Nat \ {0}, NEW x \in Int, x >= 0, x # 0, x % c = 0
            PROVE  x - c >= 0 /\ (x - c) % c = 0
        <5> DEFINE q == x \div c
        <5>1. x = q * c + 0 /\ q \in Int
          BY <4>1
        <5> HIDE DEF q
        <5>2. q >= 1
          BY <4>1, <5>1
        <5>3. x - c = (q - 1) * c + 0 /\ (q - 1) * c >= 0
          BY <5>1, <5>2
        <5> QED BY <5>1, <5>3
      <4> QED BY <4>1, <1>2, <2>1, <3>1, Bases
    <3> QED BY <1>1, <1>2, <2>1, <3>1, <3>4, <3>5 DEF Slides, n
  <2>5. Balance'
    <3>1. acc' * (B * Divisor') = (acc' * B + 0) * Divisor'
      BY <1>3, <2>2, Bases
    <3> QED BY <1>1, <1>3, <2>1, <2>2, <3>1 DEF Balance, Found
  <2>6. Bounded' /\ Single'
    <3>1. 0 * Divisor' = 0
      <4>1. \A z \in Nat : 0 * z = 0
        OBVIOUS
      <4> QED BY <2>2, <4>1
    <3> QED BY <1>1, <1>2, <1>3, <2>1, <2>2, <3>1 DEF Bounded, Single
  <2>7. Counted'
    BY <1>1, <1>3, <2>1 DEF Counted
  <2> QED BY <2>3, <2>4, <2>5, <2>6, <2>7 DEF IInv
<1> QED BY <1>4, <1>5

LEMMA ConcludeIInv == IInv /\ Conclude => IInv'
<1> SUFFICES ASSUME IInv, Conclude PROVE IInv'
  OBVIOUS
<1>1. /\ pc = "done" /\ pc' = "returned"
      /\ UNCHANGED <<division, var1, var2ulen, thisunit, acc, accunits, accdigits, exponent>>
  BY DEF Conclude
<1>2. Divisor' = Divisor
  BY <1>1 DEF Divisor
<1> QED BY <1>1, <1>2 DEF IInv, Typed, Slides, Balance, Found, Bounded, Single, Counted

LEMMA NextIInv == IInv /\ [Next]_vars => IInv'
<1> SUFFICES ASSUME IInv, [Next]_vars PROVE IInv'
  OBVIOUS
<1>1. CASE Subtract
  BY <1>1, SubtractIInv
<1>2. CASE Break
  BY <1>2, BreakIInv
<1>3. CASE Accumulate
  BY <1>3, AccumulateIInv
<1>4. CASE Conclude
  BY <1>4, ConcludeIInv
<1>5. CASE UNCHANGED vars
  <2>1. Divisor' = Divisor
    BY <1>5 DEF vars, Divisor
  <2> QED BY <2>1, <1>5
          DEF vars, IInv, Typed, Slides, Balance, Found, Bounded, Single, Counted
<1> QED BY <1>1, <1>2, <1>3, <1>4, <1>5 DEF Next

LEMMA IInvHolds == Spec => []IInv
BY InitIInv, NextIInv, PTL DEF Spec
-----------------------------------------------------------------------------
(***************************************************************************)
(* What it is good for.                                                    *)
(***************************************************************************)
LEMMA IInvNeverOver == IInv => NeverOverestimated
<1> SUFFICES ASSUME IInv PROVE NeverOverestimated
  OBVIOUS
<1>1. Divisor \in Nat \ {0} /\ var1 \in Nat /\ thisunit \in Nat
      /\ pc \in {"inner", "unit", "done", "returned"}
  BY DivisorFacts DEF IInv, Typed
<1>2. CASE pc = "inner"
  <2>1. var1 + thisunit * Divisor < B * Divisor
    BY <1>2 DEF IInv, Bounded
  <2>2. thisunit < B
    BY <1>1, <2>1, Bases
  <2> QED BY <1>1, <2>2 DEF NeverOverestimated
<1>3. CASE pc # "inner"
  BY <1>1, <1>3 DEF IInv, Bounded, NeverOverestimated
<1> QED BY <1>2, <1>3

\* The multiplier is never overestimated: nothing in var1 goes below zero, and
\* a Unit of the quotient stays below the base of the Units.
THEOREM NeverOverestimatedAlways == Spec => []NeverOverestimated
BY IInvHolds, IInvNeverOver, PTL

LEMMA IInvInside == IInv => InsideBuffers
<1> SUFFICES ASSUME IInv PROVE InsideBuffers
  OBVIOUS
<1> DEFINE d == division
<1>1. d \in Divisions /\ IsLong(d) /\ var1 \in Nat /\ acc \in Nat /\ Divisor \in Nat \ {0}
  BY DivisorFacts
<1>2. Units(d.rhs) <= var2ulen
  BY DivisorFacts
<1>3. (pc = "inner" /\ Units(var1) >= var2ulen /\ var1 > Var2(d, var2ulen)) => Units(var1) >= 2
  BY TwoUnits DEF Divisor
<1>4. accunits <= D2U(d.digits + DECDPUN)
  <2> DEFINE p == d.digits + DECDPUN
             a == Digits(acc)
  <2>1. d.digits \in Nat \ {0} /\ p \in Nat \ {0}
    BY <1>1, Operands, Bases
  <2>2. CASE accunits = 0
    <3>1. D2U(p) \in Nat
      BY <2>1, Bases DEF D2U
    <3> QED BY <2>2, <3>1
  <2>3. CASE accunits # 0
    <3>1. acc \in Nat \ {0} /\ accunits = Units(acc) /\ acc < Power(Radix, p)
      BY <1>1, <2>3 DEF IInv, Counted
    <3>2. a \in Nat \ {0} /\ a <= p
      BY <2>1, <3>1, Bases, PlacesAtMost, DigitsBounds DEF Digits
    <3>3. accunits = D2U(a)
      BY <3>1, UnitsOfDigits
    <3>4. ASSUME NEW c \in Nat \ {0}, NEW x \in Nat, NEW y \in Nat, x <= y
          PROVE  x \div c <= y \div c
      <4> DEFINE i == x \div c
                 j == y \div c
      <4>1. i * c <= x /\ y < (j + 1) * c /\ i \in Nat /\ j \in Nat
        OBVIOUS
      <4> HIDE DEF i, j
      <4> SUFFICES ASSUME j < i PROVE FALSE
        BY <4>1 DEF i, j
      <4>2. (j + 1) * c <= i * c
        BY <4>1
      <4> QED BY <3>4, <4>1, <4>2
    <3> HIDE DEF a, p
    <3>5. a + DECDPUN - 1 \in Nat /\ p + DECDPUN - 1 \in Nat
          /\ a + DECDPUN - 1 <= p + DECDPUN - 1
      BY <2>1, <3>2, Bases
    <3> QED BY <3>3, <3>4, <3>5, Bases DEF D2U, p
  <2> QED BY <2>2, <2>3
<1>5. Units(var1) <= Var1Units(d)
  <2>1. Found \in Nat
    BY <1>1, DivisorFacts, Bases DEF Found
  <2>2. var1 <= Dividend(d)
    <3>1. Found * Divisor \in Nat
      BY <1>1, <2>1
    <3>2. Dividend(d) = Found * Divisor + var1
      BY DEF IInv, Balance
    <3> QED BY <1>1, <3>1, <3>2
  <2>3. Dividend(d) < Power(B, Var1Units(d)) /\ Dividend(d) \in Nat
    BY <1>1, DividendFits, DividendIs
  <2>4. Var1Units(d) \in Nat \ {0}
    BY <1>1, RoomInVar1, UnitsBounds, Operands
  <2>5. var1 < Power(B, Var1Units(d))
    BY <1>1, <2>2, <2>3, <2>4, UnitPower
  <2> QED BY <1>1, <2>4, <2>5, Bases, PlacesAtMost DEF Units
<1> QED BY <1>2, <1>3, <1>4, <1>5 DEF InsideBuffers

\* All that is read and written lies inside the buffers.
THEOREM InsideBuffersAlways == Spec => []InsideBuffers
BY IInvHolds, IInvInside, PTL
-----------------------------------------------------------------------------
(***************************************************************************)
(* The loops take the turns of DecQuotient.                                *)
(***************************************************************************)
LEMMA InitPromise == Init => Promise!Init
<1> SUFFICES ASSUME Init PROVE Promise!Init
  OBVIOUS
<1> DEFINE d == division
           e == exponent + DECDPUN
<1>1. IInv /\ pc = "inner" /\ acc = 0 /\ thisunit = 0 /\ var1 = Dividend(d)
  BY InitIInv DEF Init, Dividend
<1>2. /\ d \in Divisions /\ IsLong(d) /\ var2ulen \in Nat /\ Units(d.rhs) <= var2ulen
      /\ Divisor \in Nat \ {0} /\ exponent \in Int
  BY <1>1, DivisorFacts DEF IInv, Typed
<1>3. Promise!CutAt(d, e) = 0
  <2> DEFINE n == Var1Units(d)
             v == var2ulen + 1
  <2>1. exponent = FirstExponent(d) + Cut(d) - DECDPUN * (n - var2ulen) /\ n \in Nat
    BY <1>1, <1>2, RoomInVar1 DEF IInv, Slides
  <2>2. FirstExponent(d) \in Int /\ Cut(d) \in Int
    BY <1>2, FirstExponentInt, CutBounds
  <2>3. v \in Nat /\ Units(d.rhs) <= v
    BY <1>2, UnitsBounds, Operands
  <2>4. e = FirstExponent(d) + Cut(d) - DECDPUN * (n - v)
    <3> HIDE DEF n
    <3>1. DECDPUN * (n - v) = DECDPUN * (n - var2ulen) - DECDPUN
          /\ DECDPUN * (n - var2ulen) \in Int
      BY <1>2, <2>1, Bases
    <3> QED BY <2>1, <2>2, <3>1, Bases
  <2>5. Promise!CutAt(d, e) = Dividend(d) \div Var2(d, v)
    <3> HIDE DEF v, e
    <3> QED BY <1>2, <2>3, <2>4, Cuts DEF v
  <2>6. Var2(d, v) = B * Divisor
    BY <1>2, Slide DEF Divisor
  <2>7. Dividend(d) < B * Divisor /\ Dividend(d) \in Nat
    <3>1. var1 + 0 * Divisor < B * Divisor
      BY <1>1 DEF IInv, Bounded
    <3>2. Dividend(d) \in Nat
      BY <1>2, DividendIs
    <3>3. \A z \in Nat, x \in Nat : x + 0 * z = x
      OBVIOUS
    <3>4. Dividend(d) + 0 * Divisor = Dividend(d)
      BY <1>2, <3>2, <3>3
    <3> QED BY <1>1, <3>1, <3>2, <3>4
  <2>8. \A x \in Nat, y \in Nat \ {0} : x < y => x \div y = 0
    OBVIOUS
  <2>9. B * Divisor \in Nat \ {0}
    BY <1>2, Bases
  <2> QED BY <2>5, <2>6, <2>7, <2>8, <2>9
<1>4. d.op # "Divide" => e > 0 /\ e % DECDPUN = 0
  <2>1. d.op # "Divide" => exponent >= 0 /\ exponent % DECDPUN = 0
    BY <1>1 DEF IInv, Slides
  <2>2. ASSUME NEW c \in Nat \ {0}, NEW x \in Int, x >= 0, x % c = 0
        PROVE  x + c > 0 /\ (x + c) % c = 0
    <3> DEFINE q == x \div c
    <3>1. x = q * c + 0 /\ q \in Int
      BY <2>2
    <3> HIDE DEF q
    <3>2. x + c = (q + 1) * c + 0
      BY <3>1
    <3> QED BY <2>2, <3>1, <3>2
  <2> QED BY <1>2, <2>1, <2>2, Bases
<1> QED BY <1>1, <1>3, <1>4 DEF Promise!Init

\* The quotient stored at the end of a Unit is the exact one, cut there, and
\* the loops end when it is enough.
LEMMA AccumulateCuts ==
  ASSUME IInv, Accumulate
  PROVE  /\ Promise!CutAt(division, exponent) = acc'
         /\ Promise!ExactAt(division, exponent) <=> var1 = 0
         /\ pc' = "done" <=> Promise!Enough(division, exponent)
<1> DEFINE d == division
           e == exponent
<1>1. pc = "unit" /\ pc' \in {"inner", "done"} /\ UNCHANGED division
  BY DEF Accumulate
<1>2. /\ d \in Divisions /\ IsLong(d) /\ var2ulen \in Nat /\ Units(d.rhs) <= var2ulen
      /\ Divisor \in Nat \ {0} /\ exponent \in Int /\ var1 \in Nat
      /\ e = FirstExponent(d) + Cut(d) - DECDPUN * (Var1Units(d) - var2ulen)
  BY DivisorFacts DEF IInv, Typed, Slides
<1>3. /\ Promise!CutAt(d, e) = Dividend(d) \div Divisor
      /\ Promise!ExactAt(d, e) <=> Dividend(d) % Divisor = 0
  <2> HIDE DEF e
  <2> QED BY <1>2, Cuts DEF Divisor
<1>4. acc' \in Nat /\ Dividend(d) = acc' * Divisor + var1 /\ var1 < Divisor
  BY AccumulateCounts
<1>5. Dividend(d) \div Divisor = acc' /\ Dividend(d) % Divisor = var1
  <2>1. ASSUME NEW b \in Nat \ {0}, NEW q \in Nat, NEW r \in Nat, r < b,
               NEW x, x = q * b + r
        PROVE  x \div b = q /\ x % b = r
    BY <2>1
  <2> QED BY <1>2, <1>4, <2>1
<1>6. Promise!CutAt(d, e) = acc' /\ (Promise!ExactAt(d, e) <=> var1 = 0)
  BY <1>3, <1>5
<1>7. pc' = "done" <=> Promise!Enough(d, e)
  <2>1. pc' = "done" <=> \/ Stored /\ Full(d, accdigits')
                         \/ var1 = 0 /\ ExactEnds(d, e)
                         \/ e = 0 /\ d.op # "Divide"
    BY DEF Accumulate
  <2>2. Stored /\ Full(d, accdigits') <=> Promise!CutAt(d, e) >= Power(Radix, d.digits)
    BY <1>6, FullMeans
  <2>3. ExactEnds(d, e) <=> \/ Promise!Remains(d.op)
                            \/ d.op = "Divide" /\ e <= d.lexp - d.rexp
    BY DEF ExactEnds, Remains
  <2> QED BY <1>6, <2>1, <2>2, <2>3, SamePowers DEF Promise!Enough
<1> QED BY <1>6, <1>7

\* The end of a Unit is a turn.
LEMMA AccumulateTurns == IInv /\ Accumulate => Promise!Turn
<1> SUFFICES ASSUME IInv, Accumulate PROVE Promise!Turn
  OBVIOUS
<1> DEFINE d == division
           e == exponent
<1>1. pc = "unit" /\ pc' \in {"inner", "done"} /\ UNCHANGED division
  BY DEF Accumulate
<1>2. exponent \in Int
  BY DEF IInv, Typed
<1>6. Promise!CutAt(d, e) = acc'
  BY AccumulateCuts
<1>7. pc' = "done" <=> Promise!Enough(d, e)
  BY AccumulateCuts
<1>8. exponent' = IF pc' = "done" THEN exponent ELSE exponent - DECDPUN
  BY DEF Accumulate
<1>9. (IF pc' \in {"inner", "unit"} THEN exponent' + DECDPUN ELSE exponent')
        = (IF pc \in {"inner", "unit"} THEN exponent + DECDPUN ELSE exponent) - DECDPUN
      /\ (IF pc' \in {"inner", "unit"} THEN exponent' + DECDPUN ELSE exponent') = e
  BY <1>1, <1>2, <1>8, Bases
<1>10. (pc \in {"done", "returned"})' = Promise!Enough(d, e)
  <2>1. Promise!Enough(d, e) \in BOOLEAN
    BY DEF Promise!Enough
  <2>2. pc' \in {"done", "returned"} <=> pc' = "done"
    BY <1>1
  <2> QED BY <1>7, <2>1, <2>2
<1> HIDE DEF d, e
<1>11. division = d
  BY DEF d
<1> QED BY <1>1, <1>6, <1>9, <1>10, <1>11 DEF Promise!Turn

\* Every other step leaves what DecQuotient sees alone.
LEMMA OthersStutter ==
  Subtract \/ Break \/ Conclude \/ UNCHANGED vars => UNCHANGED Promise!vars
<1> SUFFICES ASSUME Subtract \/ Break \/ Conclude \/ UNCHANGED vars
             PROVE  UNCHANGED Promise!vars
  OBVIOUS
<1>1. UNCHANGED <<division, acc, exponent>>
  BY DEF Subtract, Break, Conclude, vars
<1>2. \/ pc \in {"inner", "unit"} /\ pc' \in {"inner", "unit"}
      \/ pc \in {"done", "returned"} /\ pc' \in {"done", "returned"}
      \/ pc' = pc
  BY DEF Subtract, Break, Conclude, vars
<1> QED BY <1>1, <1>2 DEF Promise!vars

\* The long division implements DecQuotient: it starts with no digit, every
\* Unit of the quotient it stores is what the exact quotient cut there has, and
\* it ends when, and only when, that is enough.
THEOREM TakesTheTurns == Spec => Promise!Init /\ [][Promise!Turn]_(Promise!vars)
<1>1. Init => Promise!Init
  BY InitPromise
<1>2. IInv /\ [Next]_vars => [Promise!Turn]_(Promise!vars)
  BY AccumulateTurns, OthersStutter DEF Next
<1> QED BY <1>1, <1>2, IInvHolds, PTL DEF Spec
-----------------------------------------------------------------------------
(***************************************************************************)
(* The result.                                                             *)
(***************************************************************************)
\* The loops are left with a quotient that is enough; no exact quotient was
\* there to be taken a turn before; and the result is made of what they left.
Ended == pc \in {"done", "returned"} => Promise!Enough(division, exponent)
NotBefore ==
  division.op = "Divide" /\ exponent + DECDPUN <= division.lexp - division.rexp =>
    ~Promise!ExactAt(division, exponent + DECDPUN)
Returned == pc = "returned" => result = Outcome

RInv == IInv /\ Ended /\ NotBefore /\ Returned

LEMMA InitRInv == Init => RInv
<1> SUFFICES ASSUME Init PROVE RInv
  OBVIOUS
<1>1. IInv /\ pc = "inner"
  BY InitIInv DEF Init
<1>2. division \in Divisions /\ exponent + DECDPUN \in Int
  BY <1>1, Bases DEF IInv, Typed
<1>3. Promise!CutAt(division, exponent + DECDPUN) = 0
  BY <1>1, InitPromise DEF Promise!Init
<1>4. NotBefore
  BY <1>2, <1>3, ExactNotZero DEF NotBefore
<1> QED BY <1>1, <1>4 DEF RInv, Ended, Returned

LEMMA NextRInv == RInv /\ [Next]_vars => RInv'
<1> SUFFICES ASSUME RInv, [Next]_vars PROVE RInv'
  OBVIOUS
<1>0. IInv /\ IInv'
  BY NextIInv DEF RInv
<1>1. CASE Subtract
  <2>1. pc = "inner" /\ pc' = pc /\ UNCHANGED <<division, exponent>>
    BY <1>1 DEF Subtract
  <2> QED BY <2>1, <1>0 DEF RInv, Ended, NotBefore, Returned
<1>2. CASE Break
  <2>1. pc' = "unit" /\ UNCHANGED <<division, exponent>>
    BY <1>2 DEF Break
  <2> QED BY <2>1, <1>0 DEF RInv, Ended, NotBefore, Returned
<1>3. CASE Accumulate
  <2>0. pc' \in {"inner", "done"} /\ UNCHANGED division /\ exponent \in Int
    BY <1>0, <1>3 DEF Accumulate, IInv, Typed
  <2>1. /\ pc' = "done" <=> Promise!Enough(division, exponent)
        /\ Promise!ExactAt(division, exponent) <=> var1 = 0
    BY <1>0, <1>3, AccumulateCuts
  <2>2. CASE pc' = "done"
    <3>1. exponent' = exponent
      BY <1>3, <2>2 DEF Accumulate
    <3> QED BY <1>0, <2>0, <2>1, <2>2, <3>1 DEF RInv, Ended, NotBefore, Returned
  <2>3. CASE pc' = "inner"
    <3>1. exponent' = exponent - DECDPUN /\ ~(var1 = 0 /\ ExactEnds(division, exponent))
      BY <1>3, <2>3 DEF Accumulate
    <3>2. exponent' + DECDPUN = exponent
      BY <2>0, <3>1, Bases
    <3>3. NotBefore'
      BY <2>0, <2>1, <3>1, <3>2 DEF NotBefore, ExactEnds
    <3> QED BY <1>0, <2>3, <3>3 DEF RInv, Ended, Returned
  <2> QED BY <2>0, <2>2, <2>3
<1>4. CASE Conclude
  <2>1. pc = "done" /\ result' = Outcome
        /\ UNCHANGED <<division, var1, var2ulen, thisunit, acc, accunits, accdigits, exponent>>
    BY <1>4 DEF Conclude
  <2>2. Outcome' = Outcome
    BY <2>1 DEF Outcome, Quotient, LooseZeros, RemainderResult, Residue, Postshift,
                LowerExponent, NearestIsUp
  <2> QED BY <2>1, <2>2, <1>0 DEF RInv, Ended, NotBefore, Returned
<1>5. CASE UNCHANGED vars
  <2>1. Outcome' = Outcome
    BY <1>5 DEF vars, Outcome, Quotient, LooseZeros, RemainderResult, Residue, Postshift,
                LowerExponent, NearestIsUp
  <2> QED BY <2>1, <1>0, <1>5 DEF vars, RInv, Ended, NotBefore, Returned
<1> QED BY <1>1, <1>2, <1>3, <1>4, <1>5 DEF Next

\* What the loops leave.
LEMMA DoneCuts ==
  ASSUME IInv, pc \in {"done", "returned"}
  PROVE  /\ exponent \in Int
         /\ Promise!CutAt(division, exponent) = acc
         /\ Promise!ExactAt(division, exponent) <=> var1 = 0
         /\ Dividend(division) = acc * Divisor + var1 /\ var1 < Divisor
<1> DEFINE d == division
           e == exponent
<1>1. /\ d \in Divisions /\ IsLong(d) /\ var2ulen \in Nat /\ Units(d.rhs) <= var2ulen
      /\ Divisor \in Nat \ {0} /\ exponent \in Int /\ var1 \in Nat /\ acc \in Nat
      /\ e = FirstExponent(d) + Cut(d) - DECDPUN * (Var1Units(d) - var2ulen)
  BY DivisorFacts DEF IInv, Typed, Slides
<1>2. /\ Promise!CutAt(d, e) = Dividend(d) \div Divisor
      /\ Promise!ExactAt(d, e) <=> Dividend(d) % Divisor = 0
  <2> HIDE DEF e
  <2> QED BY <1>1, Cuts DEF Divisor
<1>3. Dividend(d) = acc * Divisor + var1 /\ var1 < Divisor
  BY DEF IInv, Balance, Bounded, Found
<1>4. Dividend(d) \div Divisor = acc /\ Dividend(d) % Divisor = var1
  <2>1. ASSUME NEW b \in Nat \ {0}, NEW q \in Nat, NEW r \in Nat, r < b,
               NEW x, x = q * b + r
        PROVE  x \div b = q /\ x % b = r
    BY <2>1
  <2> QED BY <1>1, <1>3, <2>1
<1> QED BY <1>1, <1>2, <1>3, <1>4

\* The zeros dropped from an exact quotient: as many as there are in its last
\* Unit, or as the ideal exponent asks for.
LEMMA ZerosDropped ==
  ASSUME IInv, pc \in {"done", "returned"}
  PROVE  LET l == LooseZeros
             room == (division.lexp - division.rexp) - exponent
         IN  /\ l \in Nat /\ l <= DECDPUN
             /\ var1 # 0 => l = 0
             /\ l > 0 => l <= room /\ acc % Power(Radix, l) = 0
             /\ var1 = 0 /\ acc % B # 0 /\ room > 0 /\ l < room =>
                  (acc \div Power(Radix, l)) % Radix # 0
<1> DEFINE lsu == acc % B
           zeros == {k \in 0 .. DECDPUN : lsu # 0 /\ lsu % Power(Radix, k) = 0}
           room == (division.lexp - division.rexp) - exponent
           most == CHOOSE k \in zeros : \A i \in zeros : i <= k
           l == LooseZeros
<1>1. acc \in Nat /\ var1 \in Nat /\ room \in Int /\ lsu \in 0 .. B - 1 /\ DECDPUN \in Nat \ {0}
      /\ B \in Nat \ {0, 1} /\ Radix \in Nat \ {0, 1}
  BY DivisorFacts, DoneCuts, Operands, Bases
<1>2. l = IF var1 # 0 \/ lsu = 0 \/ room <= 0 THEN 0 ELSE IF room < most THEN room ELSE most
  BY DEF LooseZeros, Least
<1>3. ASSUME NEW k \in 0 .. DECDPUN
      PROVE  /\ Power(Radix, k) \in Nat \ {0}
             /\ lsu % Power(Radix, k) = 0 <=> acc % Power(Radix, k) = 0
  <2> DEFINE f == Power(Radix, k)
             g == Power(Radix, DECDPUN - k)
             q == acc \div B
  <2>1. k \in Nat /\ DECDPUN - k \in Nat /\ k + (DECDPUN - k) = DECDPUN
    BY <1>1
  <2>2. B = f * g /\ f \in Nat \ {0} /\ g \in Nat \ {0}
    <3>1. Power(Radix, k + (DECDPUN - k)) = f * g
      BY <1>1, <2>1, PowerSum
    <3> QED BY <3>1, <2>1, <1>1, Bases, PowerType
  <2>3. acc = q * B + lsu /\ q \in Nat
    BY <1>1
  <2> HIDE DEF f, g, q, lsu
  <2>4. acc = (q * g) * f + lsu /\ q * g \in Nat
    BY <2>2, <2>3, <1>1
  <2>5. ASSUME NEW c \in Nat, NEW z \in Nat, NEW x \in Nat, x = c * f + z
        PROVE  z % f = 0 <=> x % f = 0
    <3> DEFINE i == z \div f
               r == z % f
    <3>1. z = i * f + r /\ i \in Int /\ r \in 0 .. f - 1
      BY <2>2
    <3> HIDE DEF i, r
    <3>2. x = (c + i) * f + r
      BY <2>2, <2>5, <3>1
    <3>3. ((c + i) * f + r) % f = r
      BY <2>2, <3>1, DivUnique
    <3> QED BY <3>2, <3>3 DEF r
  <2>6. lsu \in Nat
    BY <1>1
  <2> QED BY <2>2, <2>4, <2>5, <2>6, <1>1 DEF f
<1>4. lsu # 0 => most \in zeros /\ \A i \in zeros : i <= most
  <2> SUFFICES ASSUME lsu # 0 PROVE most \in zeros /\ \A i \in zeros : i <= most
    OBVIOUS
  <2> DEFINE T == {DECDPUN - k : k \in zeros}
  <2>1. 0 \in zeros
    <3>1. Power(Radix, 0) = 1
      BY PowerZero
    <3>2. \A z \in Nat : z % 1 = 0
      OBVIOUS
    <3> QED BY <3>1, <3>2, <1>1
  <2>2. zeros \subseteq 0 .. DECDPUN
    OBVIOUS
  <2> HIDE DEF zeros
  <2>3. T \subseteq Nat /\ T # {}
    BY <2>1, <2>2, <1>1
  <2>4. PICK t \in T : \A u \in T : t <= u
    <3> HIDE DEF T
    <3> QED BY <2>3, LeastMember
  <2>5. PICK k \in zeros : t = DECDPUN - k
    BY <2>4
  <2>6. \A i \in zeros : i <= k
    <3> TAKE i \in zeros
    <3>1. DECDPUN - k <= DECDPUN - i
      BY <2>4, <2>5
    <3> QED BY <3>1, <2>2, <1>1
  <2> QED BY <2>6
<1> HIDE DEF most
<1>5. CASE var1 # 0 \/ lsu = 0 \/ room <= 0
  <2>1. l = 0
    BY <1>2, <1>5
  <2> QED BY <2>1, <1>1, <1>5
<1>6. CASE ~(var1 # 0 \/ lsu = 0 \/ room <= 0)
  <2>1. most \in 0 .. DECDPUN /\ lsu % Power(Radix, most) = 0 /\ \A i \in zeros : i <= most
    BY <1>4, <1>6
  <2>2. l \in 0 .. DECDPUN /\ l <= room /\ l <= most
        /\ (l < room => l = most)
    BY <1>1, <1>2, <1>6, <2>1
  <2>3. acc % Power(Radix, l) = 0
    <3> DEFINE g == Power(Radix, most - l)
               f == Power(Radix, l)
    <3>1. l \in Nat /\ most - l \in Nat /\ l + (most - l) = most
      BY <2>1, <2>2
    <3>2. Power(Radix, l + (most - l)) = f * g /\ f \in Nat \ {0} /\ g \in Nat \ {0}
      <4> DEFINE x == most - l
      <4>1. Radix \in Nat \ {0} /\ l \in Nat /\ x \in Nat
        BY <3>1, <1>1
      <4> HIDE DEF l, x
      <4>2. Power(Radix, l + x) = Power(Radix, l) * Power(Radix, x)
        BY <4>1, PowerSum
      <4>3. Power(Radix, l) \in Nat \ {0} /\ Power(Radix, x) \in Nat \ {0}
        BY <4>1, PowerType
      <4> QED BY <4>2, <4>3 DEF x
    <3>3. acc % Power(Radix, most) = 0
      BY <1>3, <2>1
    <3>4. acc % (f * g) = 0
      BY <3>1, <3>2, <3>3
    <3> HIDE DEF f, g, l
    <3>5. acc % f = 0
      BY <3>2, <3>4, <1>1, NestedDiv
    <3> QED BY <3>5 DEF f
  <2>4. ASSUME l < room PROVE (acc \div Power(Radix, l)) % Radix # 0
    <3> DEFINE q == acc \div Power(Radix, l)
               f == Power(Radix, l)
    <3>1. l = most /\ l \in Nat
      BY <2>1, <2>2, <2>4
    <3> SUFFICES ASSUME q % Radix = 0 PROVE FALSE
      OBVIOUS
    <3>2. f \in Nat \ {0} /\ Power(Radix, l + 1) = Radix * f
      BY <3>1, <1>1, PowerType, PowerNext
    <3>3. acc % Power(Radix, l + 1) = 0
      <4>1. acc % f = 0
        BY <2>3
      <4>2. f * Radix = Radix * f /\ Radix \in Nat \ {0} /\ acc \in Nat
        BY <3>2, <1>1
      <4>3. (acc \div f) % Radix = 0
        OBVIOUS
      <4> HIDE DEF f, q
      <4>4. acc % (f * Radix) = 0
        BY <4>1, <4>2, <4>3, <3>2, NestedDiv
      <4> QED BY <4>2, <4>4, <3>2
    <3>4. CASE l = DECDPUN
      <4>1. acc % B = 0
        BY <2>3, <3>4, Bases
      <4> QED BY <4>1, <1>6
    <3>5. CASE l # DECDPUN
      <4>1. l + 1 \in 0 .. DECDPUN
        BY <2>2, <3>5, <1>1
      <4>2. lsu % Power(Radix, l + 1) = 0
        BY <4>1, <3>3, <1>3
      <4>3. l + 1 \in zeros
        BY <4>1, <4>2, <1>6
      <4> QED BY <4>3, <2>1, <3>1
    <3> QED BY <3>4, <3>5
  <2> HIDE DEF l
  <2> QED BY <1>6, <2>2, <2>3, <2>4 DEF l
<1> QED BY <1>5, <1>6

LEMMA DivideIsRight ==
  ASSUME RInv, pc = "returned", division.op = "Divide"
  PROVE  RightDivide
<1> DEFINE d == division
           e == exponent
           l == LooseZeros
           f == Power(Radix, l)
           ideal == d.lexp - d.rexp
           x == e + l
<1>1. IInv /\ d \in Divisions /\ acc \in Nat /\ var1 \in Nat
  BY DivisorFacts DEF RInv
<1>2. /\ e \in Int /\ Promise!CutAt(d, e) = acc /\ (Promise!ExactAt(d, e) <=> var1 = 0)
  BY <1>1, DoneCuts
<1>3. /\ l \in Nat /\ l <= DECDPUN
      /\ var1 # 0 => l = 0
      /\ l > 0 => l <= ideal - e /\ acc % f = 0
      /\ var1 = 0 /\ acc % B # 0 /\ ideal - e > 0 /\ l < ideal - e => (acc \div f) % Radix # 0
  BY <1>1, ZerosDropped
<1>4. result.coef = acc \div f /\ result.exp = x /\ (result.residue <=> var1 # 0)
  <2>1. result = Quotient
    BY DEF RInv, Returned, Outcome
  <2> HIDE DEF l
  <2> QED BY <2>1 DEF Quotient, NoResult, l
<1>5. d.lexp \in Int /\ d.rexp \in Int /\ d.digits \in Nat /\ ideal \in Int
  BY <1>1, Operands
<1>6. f \in Nat \ {0} /\ (l = 0 => f = 1)
  BY <1>3, Bases, PowerType, PowerZero
<1> HIDE DEF l, f, ideal, d
<1>7. Promise!CutAt(d, x) = acc \div f
      /\ (Promise!ExactAt(d, x) <=> var1 = 0 /\ acc % f = 0)
  BY <1>1, <1>2, <1>3, CutFurther DEF f, d
<1>8. acc % f = 0 \/ l > 0
  <2>1. \A z \in Nat : z % 1 = 0
    OBVIOUS
  <2> QED BY <2>1, <1>1, <1>3, <1>6
<1>9. Promise!ExactAt(d, x) <=> var1 = 0
  BY <1>3, <1>7, <1>8
<1>10. result.residue => result.coef >= Power(Radix, d.digits)
  <2> SUFFICES ASSUME var1 # 0 PROVE acc \div f >= Power(Radix, d.digits)
    BY <1>4
  <2>1. Promise!Enough(d, e)
    BY DEF RInv, Ended, d
  <2>2. acc >= Power(Radix, d.digits)
    BY <1>2, <2>1, SamePowers DEF Promise!Enough, d
  <2>3. acc \div 1 = acc
    BY <1>1
  <2> QED BY <1>3, <1>6, <2>2, <2>3
<1>11. ASSUME ~result.residue, ~Promise!ExactAt(d, ideal)
       PROVE  x <= ideal /\ (result.coef % Radix # 0 \/ ~Fits(result.coef))
  <2>1. var1 = 0 /\ Promise!ExactAt(d, e) /\ Promise!ExactAt(d, x)
    BY <1>2, <1>4, <1>9, <1>11 DEF d
  <2>2. ASSUME NEW y \in Int, y >= ideal, Promise!ExactAt(d, y) PROVE FALSE
    <3>1. y - ideal \in Nat /\ ideal + (y - ideal) = y
      BY <1>5, <2>2
    <3>2. Promise!ExactAt(d, ideal + (y - ideal)) => Promise!ExactAt(d, ideal)
      BY <1>1, <1>5, <3>1, CutFurther DEF d
    <3> QED BY <3>1, <3>2, <2>2, <1>11
  <2>3. x \in Int
    BY <1>2, <1>3
  <2>4. x < ideal
    BY <2>1, <2>2, <2>3, <1>5
  <2>5. e < ideal /\ l < ideal - e
    BY <2>4, <1>2, <1>3, <1>5
  <2>6. acc % B # 0
    <3> SUFFICES ASSUME acc % B = 0 PROVE FALSE
      OBVIOUS
    <3>1. e + DECDPUN \in Int
      BY <1>2, Bases
    <3>2. Promise!ExactAt(d, e + DECDPUN)
      BY <1>1, <1>2, <2>1, Bases, CutFurther DEF d
    <3>3. e + DECDPUN <= ideal
      BY <3>1, <3>2, <2>2, <1>5
    <3> QED BY <3>2, <3>3 DEF RInv, NotBefore, d, ideal
  <2>7. (acc \div f) % Radix # 0
    BY <1>3, <2>1, <2>5, <2>6, <1>2, <1>5
  <2> QED BY <1>4, <1>5, <2>3, <2>4, <2>7
<1>12. result.residue = ~Promise!ExactAt(d, x)
  <2>1. result.residue \in BOOLEAN
    <3>1. result = Quotient
      BY DEF RInv, Returned, Outcome
    <3> QED BY <3>1 DEF Quotient, NoResult
  <2> QED BY <2>1, <1>4, <1>9
<1> HIDE DEF x
<1>13. /\ result.coef = Promise!CutAt(d, result.exp)
       /\ result.residue = ~Promise!ExactAt(d, result.exp)
       /\ ~result.residue /\ ~Promise!ExactAt(d, ideal) =>
             result.exp <= ideal /\ (result.coef % Radix # 0 \/ ~Fits(result.coef))
  BY <1>4, <1>7, <1>11, <1>12
<1> QED BY <1>10, <1>13 DEF RightDivide, d, ideal

\* The remainder of the integer quotient, on the scale of the lower exponent.
LEMMA Scales ==
  ASSUME NEW d \in Divisions, d = division
  PROVE  LET x == d.lhs * Power(Radix, d.lexp - LowerExponent)
             y == d.rhs * Power(Radix, d.rexp - LowerExponent)
         IN  /\ x \in Nat \ {0} /\ y \in Nat \ {0}
             /\ d.lexp - LowerExponent \in Nat /\ d.rexp - LowerExponent \in Nat
             /\ IntegerQuotient = x \div y
             /\ \A q \in Int : Remainder(q) = x - q * y
             /\ Remainder(IntegerQuotient) = x % y
<1> DEFINE a == d.lexp - LowerExponent
           b == d.rexp - LowerExponent
           x == d.lhs * Power(Radix, a)
           y == d.rhs * Power(Radix, b)
<1>1. a \in Nat /\ b \in Nat /\ a - b = d.lexp - d.rexp - 0 /\ 0 \in Int
  BY Operands DEF LowerExponent, Least
<1>2. x \in Nat \ {0} /\ y \in Nat \ {0} /\ IntegerQuotient = x \div y
  BY <1>1, CutScaled DEF IntegerQuotient
<1>3. \A q \in Int : Remainder(q) = x - q * y
  <2> TAKE q \in Int
  <2>1. Remainder(q) = x - q * d.rhs * Power(Radix, b)
    BY DEF Remainder
  <2>2. Power(Radix, b) \in Nat /\ d.rhs \in Nat
    BY <1>1, Operands, Bases, PowerType
  <2>3. q * d.rhs * Power(Radix, b) = q * y
    BY <2>2
  <2> QED BY <2>1, <2>3
<1> HIDE DEF x, y
<1>4. x = (x \div y) * y + (x % y) /\ x \div y \in Int /\ x % y \in Nat
  BY <1>2
<1>5. Remainder(IntegerQuotient) = x % y
  <2> DEFINE p == (x \div y) * y
  <2>1. p \in Int
    BY <1>2, <1>4
  <2>2. Remainder(IntegerQuotient) = x - p
    BY <1>2, <1>3, <1>4
  <2> HIDE DEF p
  <2>3. x = p + (x % y)
    BY <1>4 DEF p
  <2> QED BY <2>1, <2>2, <2>3, <1>2, <1>4
<1> QED BY <1>1, <1>2, <1>3, <1>5 DEF x, y

\* An integer quotient is refused exactly when it has too many digits, and
\* what is not refused is exact, or has come to its units digit.
LEMMA IntegerQuotientFits ==
  ASSUME RInv, pc = "returned", division.op # "Divide"
  PROVE  /\ IntegerQuotient \in Nat
         /\ Most(accdigits, 1) + exponent > division.digits <=> ~Fits(IntegerQuotient)
         /\ Fits(IntegerQuotient) =>
              \/ exponent = 0 /\ IntegerQuotient = acc
              \/ /\ Remains(division.op) /\ var1 = 0
                 /\ Promise!ExactAt(division, 0)
<1> DEFINE d == division
           e == exponent
           p == d.digits
           q == IntegerQuotient
           f == Power(Radix, e)
<1>1. IInv /\ d \in Divisions /\ acc \in Nat /\ var1 \in Nat /\ p \in Nat \ {0}
  BY DivisorFacts, Operands DEF RInv
<1>2. /\ e \in Nat /\ Promise!CutAt(d, e) = acc /\ (Promise!ExactAt(d, e) <=> var1 = 0)
  BY <1>1, DoneCuts DEF IInv, Slides
<1>3. /\ q \in Nat /\ acc = q \div f
      /\ Promise!ExactAt(d, e) <=> Promise!ExactAt(d, 0) /\ q % f = 0
  <2>1. 0 + e = e /\ e \in Nat /\ 0 \in Int
    BY <1>2
  <2>2. /\ Promise!CutAt(d, 0) \in Nat
        /\ Promise!CutAt(d, 0 + e) = Promise!CutAt(d, 0) \div f
        /\ Promise!ExactAt(d, 0 + e) <=> Promise!ExactAt(d, 0) /\ Promise!CutAt(d, 0) % f = 0
    BY <1>1, <2>1, CutFurther
  <2> QED BY <1>2, <2>1, <2>2 DEF IntegerQuotient
<1>4. f \in Nat \ {0} /\ acc * f <= q /\ q < (acc + 1) * f
  <2>1. f \in Nat \ {0}
    BY <1>2, Bases, PowerType
  <2> HIDE DEF f, q
  <2> QED BY <2>1, <1>3
<1>5. /\ acc = 0 => accdigits = 0
      /\ acc # 0 => accdigits = Digits(acc)
  <2>1. /\ accunits = 0 => acc = 0 /\ accdigits = 0
        /\ accunits # 0 => acc # 0 /\ accdigits = Digits(acc)
    BY <1>1 DEF IInv, Counted
  <2> QED BY <2>1
<1>6. \/ acc >= Power(Radix, p)
      \/ var1 = 0 /\ Remains(d.op)
      \/ e = 0
  <2>1. Promise!Enough(d, e)
    BY DEF RInv, Ended
  <2> QED BY <1>2, <2>1, SamePowers DEF Promise!Enough, Remains
<1>7. Power(Radix, p) \in Nat \ {0}
  BY <1>1, Bases, PowerType
<1>8. acc = 0 => e = 0
  <2>1. var1 = 0 => acc # 0
    BY <1>1, <1>2, ExactNotZero
  <2> QED BY <1>6, <1>7, <2>1
<1> HIDE DEF f, q, d, p, e
<1>9. Most(accdigits, 1) + e > p <=> q >= Power(Radix, p)
  <2>1. CASE acc = 0
    <3>1. e = 0 /\ accdigits = 0
      BY <1>5, <1>8, <2>1
    <3>2. f = 1
      BY <3>1, PowerZero DEF f
    <3>3. q = 0
      BY <1>3, <1>4, <2>1, <3>2
    <3> QED BY <1>1, <1>7, <3>1, <3>3 DEF Most
  <2>2. CASE acc # 0
    <3> DEFINE k == Digits(acc)
    <3>1. k \in Nat \ {0} /\ Most(accdigits, 1) = k
      BY <1>1, <1>5, <2>2, DigitsBounds DEF Most
    <3>2. acc < Power(Radix, k) /\ Power(Radix, k - 1) <= acc /\ k - 1 \in Nat
      BY <1>1, <2>2, DigitsBounds
    <3>3. /\ Power(Radix, k + e) = Power(Radix, k) * f
          /\ Power(Radix, (k - 1) + e) = Power(Radix, k - 1) * f
          /\ Power(Radix, k) \in Nat /\ Power(Radix, k - 1) \in Nat
      <4> HIDE DEF k
      <4>1. ASSUME NEW n \in Nat PROVE Power(Radix, n + e) = Power(Radix, n) * f /\ Power(Radix, n) \in Nat
        BY <1>2, Bases, PowerSum, PowerType DEF f
      <4> QED BY <4>1, <3>1, <3>2
    <3> HIDE DEF k
    <3>4. q < Power(Radix, k + e)
      <4>1. (acc + 1) * f <= Power(Radix, k) * f
        BY <1>1, <1>4, <3>2, <3>3
      <4> QED BY <4>1, <1>1, <1>3, <1>4, <3>3
    <3>5. q >= Power(Radix, (k - 1) + e)
      <4>1. Power(Radix, k - 1) * f <= acc * f
        BY <1>1, <1>4, <3>2, <3>3
      <4> QED BY <4>1, <1>1, <1>3, <1>4, <3>3
    <3>6. CASE k + e > p
      <4>1. p <= (k - 1) + e /\ (k - 1) + e \in Nat
        BY <3>1, <3>6, <1>1, <1>2
      <4>2. Power(Radix, p) <= Power(Radix, (k - 1) + e)
        BY <4>1, <1>1, Bases, PowerMono
      <4>3. Power(Radix, (k - 1) + e) \in Nat
        BY <4>1, Bases, PowerType
      <4> QED BY <4>2, <4>3, <3>1, <3>5, <3>6, <1>3, <1>7
    <3>7. CASE ~(k + e > p)
      <4>1. k + e <= p /\ k + e \in Nat
        BY <3>1, <3>7, <1>1, <1>2
      <4>2. Power(Radix, k + e) <= Power(Radix, p)
        BY <4>1, <1>1, Bases, PowerMono
      <4>3. Power(Radix, k + e) \in Nat
        BY <4>1, Bases, PowerType
      <4> QED BY <4>2, <4>3, <3>1, <3>4, <3>7, <1>3, <1>7
    <3> QED BY <3>6, <3>7
  <2> QED BY <2>1, <2>2
<1>10. Fits(q) <=> q < Power(Radix, p)
  BY DEF Fits, p, d
<1>11. ASSUME q < Power(Radix, p)
       PROVE  \/ e = 0 /\ q = acc
              \/ Remains(d.op) /\ var1 = 0 /\ Promise!ExactAt(d, 0)
  <2>1. acc <= q
    <3>1. acc <= acc * f
      BY <1>1, <1>4
    <3>2. acc * f \in Nat
      BY <1>1, <1>4
    <3> QED BY <3>1, <3>2, <1>1, <1>3, <1>4
  <2>2. ~(acc >= Power(Radix, p))
    BY <2>1, <1>1, <1>3, <1>7, <1>11
  <2>3. e = 0 => q = acc
    <3>1. e = 0 => f = 1
      BY PowerZero DEF f
    <3>2. q \div 1 = q
      BY <1>3
    <3> QED BY <3>1, <3>2, <1>3
  <2> QED BY <2>2, <2>3, <1>2, <1>3, <1>6
<1> QED BY <1>3, <1>7, <1>9, <1>10, <1>11 DEF d, e, p, q

\* At the units digit, what is left in var1 is the remainder above padding.
LEMMA ResidueIs ==
  ASSUME IInv, pc \in {"done", "returned"}, exponent = 0
  PROVE  LET x == division.lhs * Power(Radix, division.lexp - LowerExponent)
             y == division.rhs * Power(Radix, division.rexp - LowerExponent)
         IN  Residue = x % y /\ (var1 = 0 <=> x % y = 0)
<1> DEFINE d == division
           a == d.lexp - LowerExponent
           b == d.rexp - LowerExponent
           x == d.lhs * Power(Radix, a)
           y == d.rhs * Power(Radix, b)
           k == Padding(d)
           t == DECDPUN * (var2ulen - Units(d.rhs))
           p == Postshift
           f == Power(Radix, p)
<1>1. /\ d \in Divisions /\ IsLong(d) /\ var2ulen \in Nat /\ Units(d.rhs) <= var2ulen
      /\ var1 \in Nat /\ acc \in Nat /\ d.lexp \in Int /\ d.rexp \in Int
      /\ d.lhs \in Nat \ {0} /\ d.rhs \in Nat \ {0} /\ Divisor \in Nat \ {0}
      /\ exponent = FirstExponent(d) + Cut(d) - DECDPUN * (Var1Units(d) - var2ulen)
  BY DivisorFacts, Operands DEF IInv, Slides
<1>2. Divisor = d.rhs * Power(Radix, t) /\ k - t = d.lexp - d.rexp - 0 /\ t \in Nat
  <2>1. /\ Var2(d, var2ulen) = d.rhs * Power(Radix, t)
        /\ k - t = d.lexp - d.rexp - exponent /\ t \in Nat
    BY <1>1, Cuts
  <2> QED BY <2>1 DEF Divisor
<1>3. Dividend(d) = d.lhs * Power(Radix, k) /\ k \in Nat
  BY <1>1, DividendIs, CutBounds
<1>4. InitPad(d) = k
  <2>1. Units(d.lhs) = D2U(Digits(d.lhs)) /\ Units(d.lhs) \in Nat /\ Var1Units(d) \in Nat
    BY <1>1, UnitsOfDigits, UnitsBounds, RoomInVar1
  <2>2. (Var1Units(d) - Units(d.lhs)) * DECDPUN = DECDPUN * (Var1Units(d) - Units(d.lhs))
    BY <2>1, Bases
  <2> QED BY <2>1, <2>2 DEF InitPad, Padding
<1>5. a \in Nat /\ b \in Nat /\ p \in Nat /\ k = a + p /\ t = b + p
  <2>1. p = Least(k + (0 - d.lexp) + d.rexp, k)
    BY <1>4 DEF Postshift
  <2> HIDE DEF d, k, t, p
  <2>3. LowerExponent = Least(d.lexp, d.rexp)
    BY DEF LowerExponent, d
  <2>4. d.lexp \in Int /\ d.rexp \in Int /\ k \in Nat /\ t \in Nat
        /\ k - t = d.lexp - d.rexp - 0
    BY <1>1, <1>2, <1>3
  <2> DEFINE L == d.lexp
             R == d.rexp
             low == LowerExponent
  <2>5. /\ L \in Int /\ R \in Int /\ k \in Nat /\ t \in Nat /\ k - t = L - R - 0
        /\ low = Least(L, R) /\ p = Least(k + (0 - L) + R, k)
    BY <2>1, <2>3, <2>4
  <2>6. a = L - low /\ b = R - low
    OBVIOUS
  <2> HIDE DEF L, R, low, a, b
  <2>7. L - low \in Nat /\ R - low \in Nat /\ p \in Nat
        /\ k = (L - low) + p /\ t = (R - low) + p
    <3>1. CASE L < R
      <4>1. low = L /\ p = k
        BY <2>5, <3>1 DEF Least
      <4> QED BY <2>5, <3>1, <4>1
    <3>2. CASE ~(L < R)
      <4>1. low = R /\ k + (0 - L) + R = t /\ t <= k
        BY <2>5, <3>2 DEF Least
      <4>2. p = t
        BY <2>5, <4>1 DEF Least
      <4> QED BY <2>5, <3>2, <4>1, <4>2
    <3> QED BY <3>1, <3>2
  <2> QED BY <2>6, <2>7
<1>6. x \in Nat \ {0} /\ y \in Nat \ {0}
  BY <1>1, Scales
<1> HIDE DEF a, b, k, t, p
<1>7. f \in Nat \ {0} /\ Power(Radix, k) = Power(Radix, a) * f /\ Power(Radix, t) = Power(Radix, b) * f
      /\ Power(Radix, a) \in Nat /\ Power(Radix, b) \in Nat
  <2>1. ASSUME NEW n \in Nat
        PROVE  Power(Radix, n + p) = Power(Radix, n) * f /\ Power(Radix, n) \in Nat \ {0}
    BY <1>5, Bases, PowerSum, PowerType
  <2> HIDE DEF f
  <2>2. f \in Nat \ {0}
    BY <1>5, Bases, PowerType DEF f
  <2> QED BY <2>1, <2>2, <1>5
<1> HIDE DEF f
<1>8. Dividend(d) = x * f /\ Divisor = y * f
  BY <1>1, <1>2, <1>3, <1>7
<1> HIDE DEF x, y
<1>9. var1 = (x % y) * f
  <2>1. Dividend(d) = acc * Divisor + var1 /\ var1 < Divisor
    BY DoneCuts
  <2>2. ASSUME NEW g \in Nat \ {0}, NEW q \in Nat, NEW r \in Nat, r < g, NEW z, z = q * g + r
        PROVE  z % g = r
    BY <2>2
  <2>3. Dividend(d) % Divisor = var1
    BY <1>1, <2>1, <2>2
  <2>4. (x * f) % (y * f) = (x % y) * f
    <3>1. x \in Int
      BY <1>6
    <3> QED BY <1>6, <1>7, <3>1, CommonFactor, Zenon
  <2> QED BY <2>3, <2>4, <1>8
<1>10. x % y \in Nat
  BY <1>6
<1>11. Residue = x % y /\ (var1 = 0 <=> x % y = 0)
  <2>1. ASSUME NEW r \in Nat PROVE (r * f) \div f = r /\ (r * f = 0 <=> r = 0)
    BY <1>7
  <2>2. Residue = var1 \div f
    BY DEF Residue, f, p
  <2> QED BY <2>1, <2>2, <1>9, <1>10
<1> QED BY <1>11 DEF x, y, a, b

\* The parity of the last Unit is that of the quotient.
LEMMA LastUnitParity == ASSUME NEW q \in Nat PROVE (q % B) % 2 = q % 2
<1>1. Radix \in Nat /\ Radix % 2 = 0 /\ DECDPUN - 1 \in Nat /\ (DECDPUN - 1) + 1 = DECDPUN
  BY QuotientAssumption, Bases
<1>2. B = Radix * Power(Radix, DECDPUN - 1) /\ Power(Radix, DECDPUN - 1) \in Nat
  <2>1. Power(Radix, (DECDPUN - 1) + 1) = Radix * Power(Radix, DECDPUN - 1)
    BY <1>1, PowerNext
  <2> QED BY <2>1, <1>1, Bases, PowerType
<1> DEFINE c == (Radix \div 2) * Power(Radix, DECDPUN - 1)
           i == q \div B
           r == q % B
<1>3. B = c * 2 /\ c \in Nat
  <2>1. Radix = (Radix \div 2) * 2 /\ Radix \div 2 \in Nat
    BY <1>1
  <2> DEFINE h == Radix \div 2
             g == Power(Radix, DECDPUN - 1)
  <2> HIDE DEF h, g
  <2>2. (h * 2) * g = (h * g) * 2 /\ h * g \in Nat
    BY <2>1, <1>2 DEF h, g
  <2> QED BY <2>1, <2>2, <1>2 DEF h, g
<1>4. q = i * B + r /\ i \in Nat /\ r \in Nat
  <2>1. ASSUME NEW g \in Nat \ {0}
        PROVE  q = (q \div g) * g + (q % g) /\ q \div g \in Nat /\ q % g \in Nat
    OBVIOUS
  <2>2. B \in Nat \ {0}
    BY Bases
  <2> QED BY <2>1, <2>2
<1> HIDE DEF c, i, r
<1>5. q = (i * c) * 2 + r /\ i * c \in Nat
  BY <1>3, <1>4
<1>6. ASSUME NEW j \in Nat, q = j * 2 + r PROVE r % 2 = q % 2
  BY <1>4, <1>6
<1> QED BY <1>5, <1>6 DEF r

LEMMA RemainderIsRight ==
  ASSUME RInv, pc = "returned", Remains(division.op)
  PROVE  RightRemainder
<1> DEFINE d == division
           q == IntegerQuotient
           x == d.lhs * Power(Radix, d.lexp - LowerExponent)
           y == d.rhs * Power(Radix, d.rexp - LowerExponent)
           m == x % y
           near == d.op = "RemainderNear"
           top == Power(Radix, d.digits)
           up == near /\ 2 * Remainder(q) + (q % 2) > Remainder(q) - Remainder(q + 1)
           odd == (acc % B) % 2
<1>0. IInv /\ d \in Divisions /\ acc \in Nat /\ var1 \in Nat
      /\ d.op # "Divide" /\ d.op # "DivideInteger"
  BY DivisorFacts DEF RInv, Remains, Promise!Remains
<1>1. /\ x \in Nat \ {0} /\ y \in Nat \ {0} /\ q = x \div y
      /\ \A i \in Int : Remainder(i) = x - i * y
      /\ Remainder(q) = m
      /\ y = d.rhs * Power(Radix, d.rexp - LowerExponent)
  BY <1>0, Scales
<1>2. /\ q \in Nat
      /\ Most(accdigits, 1) + exponent > d.digits <=> ~Fits(q)
      /\ Fits(q) => \/ exponent = 0 /\ q = acc
                    \/ var1 = 0 /\ Promise!ExactAt(d, 0)
  BY <1>0, IntegerQuotientFits
<1>3. Fits(q) <=> q < top
  BY DEF Fits
<1>4. Fits(q + 1) <=> q + 1 < top
  BY DEF Fits
<1>5. top \in Nat \ {0}
  BY <1>0, Operands, Bases, PowerType
<1>6. result = IF Most(accdigits, 1) + exponent > d.digits THEN Impossible ELSE RemainderResult
  BY <1>0 DEF RInv, Returned, Outcome
<1>7. exponent = 0 => Residue = m /\ (var1 = 0 <=> m = 0)
  BY <1>0, ResidueIs
<1>8. Promise!ExactAt(d, 0) <=> m = 0
  <2>1. d.lexp - LowerExponent \in Nat /\ d.rexp - LowerExponent \in Nat
        /\ (d.lexp - LowerExponent) - (d.rexp - LowerExponent) = d.lexp - d.rexp - 0
    BY <1>0, Operands DEF LowerExponent, Least
  <2>2. 0 \in Int
    OBVIOUS
  <2> QED BY <1>0, <2>1, <2>2, CutScaled
<1>9. q = acc => odd = q % 2
  BY <1>0, LastUnitParity
<1>10. RemainderResult =
         IF var1 # 0 /\ near /\ NearestIsUp(2 * Residue, y)
         THEN IF acc = top - 1 THEN Impossible
              ELSE [NoResult EXCEPT !.kind = "number", !.exp = LowerExponent,
                                    !.coef = y - (IF var1 = 0 THEN 0 ELSE Residue),
                                    !.inverted = TRUE]
         ELSE [NoResult EXCEPT !.kind = "number", !.exp = LowerExponent,
                               !.coef = IF var1 = 0 THEN 0 ELSE Residue]
  BY DEF RemainderResult, NoResult
<1>11. NearestIsUp(2 * Residue, y) <=> 2 * Residue > y \/ (2 * Residue = y /\ odd = 1)
  BY DEF NearestIsUp
<1>12. m \in Nat /\ m < y
  <2> HIDE DEF x, y
  <2> QED BY <1>1
<1> HIDE DEF x, y, odd, top
<1>13. Remainder(q + 1) = m - y
  <2>1. q + 1 \in Int /\ q \in Int
    BY <1>2
  <2>2. Remainder(q + 1) = x - (q + 1) * y /\ Remainder(q) = x - q * y
    BY <1>1, <2>1
  <2>3. (q + 1) * y = q * y + y /\ q * y \in Int
    BY <1>1, <2>1
  <2> HIDE DEF q, m
  <2> QED BY <2>2, <2>3, <1>1, <1>12
<1> HIDE DEF q, m
<1>14. up <=> near /\ 2 * m + (q % 2) > y
  <2>1. Remainder(q) - Remainder(q + 1) = y
    BY <1>1, <1>12, <1>13
  <2> QED BY <2>1, <1>1
<1>15. q % 2 \in {0, 1}
  BY <1>2
<1> HIDE DEF up, near
<1>16. CASE ~Fits(q)
  <2>1. result = Impossible
    BY <1>2, <1>6, <1>16
  <2>2. ~Fits(IF up THEN q + 1 ELSE q)
    BY <1>2, <1>3, <1>4, <1>5, <1>16
  <2> QED BY <2>1, <2>2 DEF RightRemainder, up, q, near, d
<1>17. CASE Fits(q)
  <2>1. result = RemainderResult /\ q < top
    BY <1>2, <1>3, <1>6, <1>17
  <2>2. CASE var1 = 0
    <3>1. m = 0
      BY <1>2, <1>7, <1>8, <1>17, <2>2
    <3>2. ~up
      BY <1>1, <1>14, <1>15, <3>1
    <3>3. result = [NoResult EXCEPT !.kind = "number", !.exp = LowerExponent, !.coef = 0]
      BY <1>10, <2>1, <2>2
    <3>4. /\ result.kind = "number" /\ result.exp = LowerExponent
          /\ result.inverted = FALSE /\ result.coef = Remainder(q)
      BY <3>1, <3>3, <1>1 DEF NoResult
    <3>5. up = FALSE
      BY <3>2 DEF up
    <3> QED BY <1>17, <3>4, <3>5 DEF RightRemainder, up, q, near, d
  <2>3. CASE var1 # 0
    <3>1. exponent = 0 /\ q = acc /\ Residue = m /\ m # 0
      BY <1>2, <1>7, <1>17, <2>3
    <3>2. NearestIsUp(2 * Residue, y) <=> 2 * m + (q % 2) > y
      <4>1. NearestIsUp(2 * m, y) <=> 2 * m > y \/ (2 * m = y /\ q % 2 = 1)
        BY <1>9, <1>11, <3>1
      <4>2. ASSUME NEW i \in Nat, NEW j \in Nat, NEW h \in {0, 1}
            PROVE  (2 * i > j \/ (2 * i = j /\ h = 1)) <=> 2 * i + h > j
        BY <4>2
      <4>3. 2 * m > y \/ (2 * m = y /\ q % 2 = 1) <=> 2 * m + (q % 2) > y
        BY <4>2, <1>1, <1>12, <1>15
      <4> QED BY <4>1, <4>3, <3>1
    <3>3. near /\ NearestIsUp(2 * Residue, y) <=> up
      BY <1>14, <3>2
    <3>4. CASE up
      <4>1. result = IF acc = top - 1 THEN Impossible
                     ELSE [NoResult EXCEPT !.kind = "number", !.exp = LowerExponent,
                                           !.coef = y - m, !.inverted = TRUE]
        BY <1>10, <2>1, <2>3, <3>1, <3>3, <3>4
      <4>2. Fits(q + 1) <=> acc # top - 1
        BY <1>2, <1>4, <1>5, <2>1, <3>1
      <4>3. CASE acc = top - 1
        <5>1. result = Impossible /\ ~Fits(IF up THEN q + 1 ELSE q)
          BY <4>1, <4>2, <4>3, <3>4
        <5> QED BY <5>1 DEF RightRemainder, up, q, near, d
      <4>4. CASE acc # top - 1
        <5>1. /\ result.kind = "number" /\ result.exp = LowerExponent
              /\ result.inverted = TRUE /\ result.coef = y - m
          BY <4>1, <4>4 DEF NoResult
        <5>2. y - m = -Remainder(q + 1)
          BY <1>1, <1>12, <1>13
        <5>3. Fits(IF up THEN q + 1 ELSE q) /\ up = TRUE
          BY <4>2, <4>4, <3>4 DEF up
        <5> QED BY <5>1, <5>2, <5>3, <3>4 DEF RightRemainder, up, q, near, d
      <4> QED BY <4>3, <4>4
    <3>5. CASE ~up
      <4>1. result = [NoResult EXCEPT !.kind = "number", !.exp = LowerExponent, !.coef = m]
        BY <1>10, <2>1, <2>3, <3>1, <3>3, <3>5
      <4>2. /\ result.kind = "number" /\ result.exp = LowerExponent
            /\ result.inverted = FALSE /\ result.coef = Remainder(q)
        BY <4>1, <1>1 DEF NoResult
      <4>3. up = FALSE
        BY <3>5 DEF up
      <4> QED BY <1>17, <4>2, <4>3 DEF RightRemainder, up, q, near, d
    <3> QED BY <3>4, <3>5
  <2> QED BY <2>2, <2>3
<1> QED BY <1>16, <1>17

LEMMA RInvRight == RInv => ResultIsRight
<1> SUFFICES ASSUME RInv, pc = "returned"
             PROVE  IF division.op = "Divide" THEN RightDivide
                    ELSE IF Remains(division.op) THEN RightRemainder
                    ELSE IF ~Fits(IntegerQuotient) THEN result = Impossible
                    ELSE /\ result.kind = "number"
                         /\ result.coef * Power(Radix, result.exp) = IntegerQuotient
  BY DEF ResultIsRight
<1>1. CASE division.op = "Divide"
  BY <1>1, DivideIsRight
<1>2. CASE Remains(division.op)
  <2>1. division.op # "Divide"
    BY <1>2 DEF Remains, Promise!Remains
  <2> QED BY <1>2, <2>1, RemainderIsRight
<1>3. CASE division.op # "Divide" /\ ~Remains(division.op)
  <2>1. division.op = "DivideInteger"
    <3>1. IInv
      BY DEF RInv
    <3> QED BY <1>3, <3>1, DivisorFacts, Operands DEF Remains, Promise!Remains
  <2>2. /\ Most(accdigits, 1) + exponent > division.digits <=> ~Fits(IntegerQuotient)
        /\ Fits(IntegerQuotient) => exponent = 0 /\ IntegerQuotient = acc
        /\ IntegerQuotient \in Nat
    BY <1>3, IntegerQuotientFits
  <2>3. result = IF Most(accdigits, 1) + exponent > division.digits THEN Impossible
                 ELSE [Quotient EXCEPT !.coef = acc, !.exp = exponent, !.residue = FALSE]
    BY <2>1 DEF RInv, Returned, Outcome
  <2>4. CASE ~Fits(IntegerQuotient)
    BY <1>3, <2>2, <2>3, <2>4
  <2>5. CASE Fits(IntegerQuotient)
    <3>1. result.kind = "number" /\ result.coef = acc /\ result.exp = 0 /\ IntegerQuotient = acc
      BY <2>2, <2>3, <2>5 DEF Quotient, NoResult
    <3>2. acc * Power(Radix, 0) = acc
      <4>1. acc \in Nat
        BY <2>2, <2>5
      <4> QED BY <4>1, PowerZero
    <3> QED BY <1>3, <2>5, <3>1, <3>2
  <2> QED BY <2>4, <2>5
<1> QED BY <1>1, <1>2, <1>3

\* What is handed on is right: the quotient cut at its exponent, the integer
\* quotient unless it has too many digits, the remainder.
THEOREM ResultIsRightAlways == Spec => []ResultIsRight
<1>1. Spec => []RInv
  BY InitRInv, NextRInv, PTL DEF Spec
<1> QED BY <1>1, RInvRight, PTL
=============================================================================
