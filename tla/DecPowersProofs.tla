-------------------------- MODULE DecPowersProofs ---------------------------
(***************************************************************************)
(* Powers and the number of digits, for every base and number.  The        *)
(* induction is over the members of a set, and that each set of naturals   *)
(* has a least member is what makes the order of the naturals well founded.*)
(***************************************************************************)
EXTENDS DecPowers, WellFoundedInduction, TLAPS

\* Every set of naturals that is not empty has a least element.
LEMMA LeastMember == ASSUME NEW T, T \subseteq Nat, T # {}
               PROVE  \E x \in T : \A y \in T : x <= y
<1> DEFINE R == OpToRel(<, Nat)
<1>1. R = {ss \in Nat \X Nat : ss[1] < ss[2]}
  BY DEF OpToRel
<1>2. IsWellFoundedOn(R, Nat)
  BY NatLessThanWellFounded
<1> HIDE DEF R
<1>3. PICK x \in T : \A y \in T : ~(<<y, x>> \in R)
  BY <1>2, WFMin
<1>4. \A y \in T : ~(y < x)
  <2> TAKE y \in T
  <2>1. y < x => <<y, x>> \in R
    BY <1>1
  <2> QED BY <2>1, <1>3
<1>5. \A y \in T : x <= y
  BY <1>4
<1> QED BY <1>5

\* Induction over the members of a set.
LEMMA Induction == ASSUME NEW T, 0 \in T, \A n \in Nat : n \in T => n + 1 \in T
                   PROVE  \A n \in Nat : n \in T
<1> DEFINE Others == {n \in Nat : n \notin T}
<1> SUFFICES ASSUME Others # {} PROVE FALSE
  OBVIOUS
<1>1. PICK m \in Others : \A y \in Others : m <= y
  <2> HIDE DEF Others
  <2>1. Others \subseteq Nat
    BY DEF Others
  <2> QED BY <2>1, LeastMember
<1>2. m # 0 /\ m - 1 \in Nat
  OBVIOUS
<1>3. m - 1 \in T
  BY <1>1, <1>2
<1> QED BY <1>2, <1>3

\* The recursive definition of the powers defines them.
LEMMA PowersExist ==
  ASSUME NEW b
  PROVE  \E p : p = [i \in Nat |-> IF i = 0 THEN 1 ELSE b * p[i - 1]]
<1> DEFINE Upto(n, g) == /\ g = [i \in 0 .. n |-> g[i]]
                         /\ \A i \in 0 .. n : g[i] = IF i = 0 THEN 1 ELSE b * g[i - 1]
           T == {n \in Nat : \E g : Upto(n, g)}
<1>1. 0 \in T
  <2>1. Upto(0, [i \in 0 .. 0 |-> 1])
    OBVIOUS
  <2> QED BY <2>1
<1>2. ASSUME NEW n \in Nat, n \in T PROVE n + 1 \in T
  <2>1. PICK g : Upto(n, g)
    BY <1>2
  <2> DEFINE h == [i \in 0 .. n + 1 |-> IF i = n + 1 THEN b * g[n] ELSE g[i]]
  <2>2. Upto(n + 1, h)
    <3>1. \A i \in 0 .. n + 1 : h[i] = IF i = n + 1 THEN b * g[n] ELSE g[i]
      OBVIOUS
    <3>2. ASSUME NEW i \in 0 .. n + 1 PROVE h[i] = IF i = 0 THEN 1 ELSE b * h[i - 1]
      <4>1. CASE i = n + 1
        BY <4>1, <3>1
      <4>2. CASE i \in 0 .. n
        <5>1. g[i] = IF i = 0 THEN 1 ELSE b * g[i - 1]
          BY <2>1, <4>2
        <5>2. i # 0 => i - 1 \in 0 .. n
          BY <4>2
        <5> QED BY <5>1, <5>2, <3>1, <4>2
      <4> QED BY <4>1, <4>2
    <3> QED BY <3>2
  <2>3. n + 1 \in Nat
    OBVIOUS
  <2> QED BY <2>2, <2>3
<1>3. \A n \in Nat : n \in T
  <2> HIDE DEF T
  <2> QED BY <1>1, <1>2, Induction
<1> DEFINE G(n) == CHOOSE g : Upto(n, g)
<1>4. \A n \in Nat : Upto(n, G(n))
  BY <1>3
<1> HIDE DEF G
<1>a. \A m \in Nat, i \in Nat :
        i <= m => G(m)[i] = IF i = 0 THEN 1 ELSE b * G(m)[i - 1]
  <2> TAKE m \in Nat, i \in Nat
  <2> HAVE i <= m
  <2>1. i \in 0 .. m
    OBVIOUS
  <2>2. \A j \in 0 .. m : G(m)[j] = IF j = 0 THEN 1 ELSE b * G(m)[j - 1]
    BY <1>4
  <2> HIDE DEF Upto
  <2> QED BY <2>1, <2>2
<1> HIDE DEF Upto
<1>5. ASSUME NEW m \in Nat PROVE G(m + 1)[m] = G(m)[m]
  <2> DEFINE S == {i \in Nat : i <= m => G(m)[i] = G(m + 1)[i]}
  <2>1. 0 \in S
    BY <1>a
  <2>2. ASSUME NEW n \in Nat, n \in S PROVE n + 1 \in S
    <3>1. SUFFICES ASSUME n + 1 <= m PROVE G(m)[n + 1] = G(m + 1)[n + 1]
      OBVIOUS
    <3>2. G(m)[n] = G(m + 1)[n]
      BY <2>2, <3>1
    <3>3. n + 1 \in Nat /\ n + 1 # 0 /\ (n + 1) - 1 = n /\ m + 1 \in Nat /\ n + 1 <= m + 1
      BY <3>1
    <3>4. G(m)[n + 1] = b * G(m)[n]
      BY <1>a, <3>1, <3>3
    <3>5. G(m + 1)[n + 1] = b * G(m + 1)[n]
      BY <1>a, <3>3
    <3> QED BY <3>2, <3>4, <3>5
  <2>3. \A n \in Nat : n \in S
    <3> HIDE DEF S
    <3> QED BY <2>1, <2>2, Induction
  <2> QED BY <2>3
<1> DEFINE p == [i \in Nat |-> G(i)[i]]
<1>6. ASSUME NEW i \in Nat PROVE p[i] = IF i = 0 THEN 1 ELSE b * p[i - 1]
  <2>1. G(i)[i] = IF i = 0 THEN 1 ELSE b * G(i)[i - 1]
    BY <1>a
  <2>2. CASE i = 0
    BY <2>1, <2>2
  <2>3. CASE i # 0
    <3>1. i - 1 \in Nat /\ (i - 1) + 1 = i
      BY <2>3
    <3>2. G(i)[i - 1] = G(i - 1)[i - 1]
      BY <1>5, <3>1
    <3> QED BY <3>1, <3>2, <2>1, <2>3
  <2> QED BY <2>2, <2>3
<1>7. p = [i \in Nat |-> IF i = 0 THEN 1 ELSE b * p[i - 1]]
  <2> HIDE DEF G
  <2>1. p = [i \in Nat |-> p[i]]
    OBVIOUS
  <2> HIDE DEF p
  <2> QED BY <2>1, <1>6
<1> QED BY <1>7

LEMMA PowerStep ==
  ASSUME NEW b, NEW n \in Nat
  PROVE  Power(b, n) = IF n = 0 THEN 1 ELSE b * Power(b, n - 1)
<1> DEFINE p == CHOOSE f : f = [i \in Nat |-> IF i = 0 THEN 1 ELSE b * f[i - 1]]
<1>1. p = [i \in Nat |-> IF i = 0 THEN 1 ELSE b * p[i - 1]]
  BY PowersExist
<1>2. \A k : Power(b, k) = p[k]
  BY DEF Power
<1> HIDE DEF p
<1>3. p[n] = IF n = 0 THEN 1 ELSE b * p[n - 1]
  BY <1>1
<1> QED BY <1>2, <1>3

\* The laws that the proofs about long numbers need.
LEMMA PowerZero == ASSUME NEW b PROVE Power(b, 0) = 1
BY PowerStep

LEMMA PowerNext == ASSUME NEW b, NEW n \in Nat PROVE Power(b, n + 1) = b * Power(b, n)
<1>1. n + 1 \in Nat /\ n + 1 # 0 /\ (n + 1) - 1 = n
  OBVIOUS
<1> QED BY <1>1, PowerStep

LEMMA PowerType == ASSUME NEW b \in Nat \ {0}, NEW n \in Nat PROVE Power(b, n) \in Nat \ {0}
<1> DEFINE T == {i \in Nat : Power(b, i) \in Nat \ {0}}
<1>1. 0 \in T
  BY PowerZero
<1>2. ASSUME NEW i \in Nat, i \in T PROVE i + 1 \in T
  BY <1>2, PowerNext
<1> HIDE DEF T
<1>3. \A i \in Nat : i \in T
  BY <1>1, <1>2, Induction
<1> QED BY <1>3 DEF T

\* The powers of ten as the code's routines have them.
LEMMA TenToIs == ASSUME NEW n \in Nat PROVE TenTo[n] = Power(10, n)
<1> DEFINE q == CHOOSE g : g = [i \in Nat |-> IF i = 0 THEN 1 ELSE 10 * g[i - 1]]
<1>1. TenTo = q
  BY DEF TenTo
<1>2. Power(10, n) = q[n]
  BY DEF Power
<1> QED BY <1>1, <1>2

LEMMA PowerOne == ASSUME NEW b \in Nat \ {0} PROVE Power(b, 1) = b
<1>1. Power(b, 0 + 1) = b * Power(b, 0)
  BY PowerNext
<1> QED BY <1>1, PowerZero

LEMMA PowerSum ==
  ASSUME NEW b \in Nat \ {0}, NEW m \in Nat, NEW n \in Nat
  PROVE  Power(b, m + n) = Power(b, m) * Power(b, n)
<1> DEFINE T == {i \in Nat : Power(b, m + i) = Power(b, m) * Power(b, i)}
<1>0. \A i \in Nat : Power(b, i) \in Nat \ {0}
  BY PowerType
<1>1. 0 \in T
  BY <1>0, PowerZero
<1>2. ASSUME NEW i \in Nat, i \in T PROVE i + 1 \in T
  <2>1. Power(b, (m + i) + 1) = b * Power(b, m + i)
    BY PowerNext
  <2>2. Power(b, i + 1) = b * Power(b, i)
    BY PowerNext
  <2>3. b * (Power(b, m) * Power(b, i)) = Power(b, m) * (b * Power(b, i))
    BY <1>0
  <2>4. m + (i + 1) = (m + i) + 1
    OBVIOUS
  <2> QED BY <1>2, <2>1, <2>2, <2>3, <2>4
<1> HIDE DEF T
<1>3. \A i \in Nat : i \in T
  BY <1>1, <1>2, Induction
<1> QED BY <1>3 DEF T

LEMMA PowerMono ==
  ASSUME NEW b \in Nat \ {0}, NEW m \in Nat, NEW n \in Nat, m <= n
  PROVE  Power(b, m) <= Power(b, n)
<1>1. n - m \in Nat /\ n = m + (n - m)
  OBVIOUS
<1>2. Power(b, n) = Power(b, m) * Power(b, n - m)
  BY <1>1, PowerSum
<1>3. Power(b, m) \in Nat \ {0} /\ Power(b, n - m) \in Nat \ {0}
  BY <1>1, PowerType
<1> DEFINE x == Power(b, m)
           y == Power(b, n - m)
<1>4. x <= x * y
  <2> HIDE DEF x, y
  <2>1. ASSUME NEW u \in Nat \ {0}, NEW w \in Nat \ {0} PROVE u <= u * w
    OBVIOUS
  <2> QED BY <2>1, <1>3 DEF x, y
<1> QED BY <1>2, <1>4

\* A step further is a factor of the base.
LEMMA PowerGap ==
  ASSUME NEW b \in Nat \ {0}, NEW m \in Nat, NEW n \in Nat, m < n
  PROVE  b * Power(b, m) <= Power(b, n)
<1>1. m + 1 \in Nat /\ m + 1 <= n
  OBVIOUS
<1> QED BY <1>1, PowerNext, PowerMono

LEMMA PowerGrows ==
  ASSUME NEW b \in Nat \ {0, 1}, NEW n \in Nat
  PROVE  n < Power(b, n)
<1> DEFINE T == {i \in Nat : i < Power(b, i)}
<1>1. 0 \in T
  BY PowerZero
<1>2. ASSUME NEW i \in Nat, i \in T PROVE i + 1 \in T
  <2>1. Power(b, i + 1) = b * Power(b, i) /\ Power(b, i) \in Nat \ {0}
    BY PowerNext, PowerType
  <2>2. \A u \in Nat \ {0} : 2 * u <= b * u
    OBVIOUS
  <2>3. 2 * Power(b, i) <= b * Power(b, i)
    BY <2>1, <2>2
  <2>4. i < Power(b, i)
    BY <1>2
  <2>5. b * Power(b, i) \in Nat
    BY <2>1
  <2> QED BY <2>1, <2>3, <2>4, <2>5
<1> HIDE DEF T
<1>3. \A i \in Nat : i \in T
  BY <1>1, <1>2, Induction
<1> QED BY <1>3 DEF T

LEMMA PowerPower ==
  ASSUME NEW b \in Nat \ {0}, NEW k \in Nat, NEW n \in Nat
  PROVE  Power(Power(b, k), n) = Power(b, k * n)
<1> DEFINE T == {i \in Nat : Power(Power(b, k), i) = Power(b, k * i)}
<1>1. 0 \in T
  <2>1. k * 0 = 0
    OBVIOUS
  <2> QED BY <2>1, PowerZero
<1>2. ASSUME NEW i \in Nat, i \in T PROVE i + 1 \in T
  <2>1. Power(Power(b, k), i + 1) = Power(b, k) * Power(Power(b, k), i)
    BY PowerNext
  <2>2. k * i \in Nat /\ k * (i + 1) = k + k * i
    OBVIOUS
  <2>3. Power(b, k + k * i) = Power(b, k) * Power(b, k * i)
    BY <2>2, PowerSum
  <2> QED BY <1>2, <2>1, <2>2, <2>3
<1> HIDE DEF T
<1>3. \A i \in Nat : i \in T
  BY <1>1, <1>2, Induction
<1> QED BY <1>3 DEF T

-----------------------------------------------------------------------------
\* Induction from all the smaller members.
LEMMA Descent == ASSUME NEW T, \A n \in Nat : (\A m \in 0 .. n - 1 : m \in T) => n \in T
                 PROVE  \A n \in Nat : n \in T
<1> DEFINE Others == {n \in Nat : n \notin T}
<1> SUFFICES ASSUME Others # {} PROVE FALSE
  OBVIOUS
<1>1. PICK m \in Others : \A y \in Others : m <= y
  <2> HIDE DEF Others
  <2>1. Others \subseteq Nat
    BY DEF Others
  <2> QED BY <2>1, LeastMember
<1>2. \A k \in 0 .. m - 1 : k \in T
  BY <1>1
<1> QED BY <1>2

\* The recursive definition of the number of digits defines it.
LEMMA PlacesExist ==
  ASSUME NEW b \in Nat \ {0, 1}
  PROVE  \E p : p = [y \in Nat |-> IF y < b THEN 1 ELSE 1 + p[y \div b]]
<1> DEFINE Upto(n, g) == /\ g = [i \in 0 .. n |-> g[i]]
                         /\ \A i \in 0 .. n : g[i] = IF i < b THEN 1 ELSE 1 + g[i \div b]
           T == {n \in Nat : \E g : Upto(n, g)}
<1>0. ASSUME NEW i \in Nat, ~(i < b) PROVE i \div b \in Nat /\ i \div b < i
  <2>1. i \div b \in Nat
    OBVIOUS
  <2>2. i < i * b
    <3>1. i # 0
      BY <1>0
    <3> QED BY <3>1
  <2> QED BY <2>1, <2>2
<1>1. 0 \in T
  <2>1. Upto(0, [i \in 0 .. 0 |-> 1])
    OBVIOUS
  <2> QED BY <2>1
<1>2. ASSUME NEW n \in Nat, n \in T PROVE n + 1 \in T
  <2>1. PICK g : Upto(n, g)
    BY <1>2
  <2> DEFINE h == [i \in 0 .. n + 1 |->
                     IF i # n + 1 THEN g[i] ELSE IF i < b THEN 1 ELSE 1 + g[i \div b]]
  <2>2. Upto(n + 1, h)
    <3>1. \A i \in 0 .. n + 1 : h[i] = IF i # n + 1 THEN g[i]
                                       ELSE IF i < b THEN 1 ELSE 1 + g[i \div b]
      OBVIOUS
    <3>2. ASSUME NEW i \in 0 .. n + 1 PROVE h[i] = IF i < b THEN 1 ELSE 1 + h[i \div b]
      <4>0. i \in Nat /\ i <= n + 1
        OBVIOUS
      <4>1. ASSUME ~(i < b) PROVE i \div b \in 0 .. n + 1 /\ i \div b # n + 1
        <5> DEFINE k == i \div b
        <5>1. k \in Nat /\ k < i
          BY <4>0, <4>1, <1>0
        <5> HIDE DEF k
        <5>2. k \in 0 .. n + 1 /\ k # n + 1
          BY <5>1, <4>0
        <5> QED BY <5>2 DEF k
      <4> HIDE DEF h
      <4>2. ASSUME ~(i < b) PROVE h[i \div b] = g[i \div b]
        BY <4>1, <4>2, <3>1
      <4>3. CASE i = n + 1
        <5>1. h[i] = IF i < b THEN 1 ELSE 1 + g[i \div b]
          BY <4>3, <3>1
        <5> QED BY <5>1, <4>2
      <4>4. CASE i \in 0 .. n
        <5>1. g[i] = IF i < b THEN 1 ELSE 1 + g[i \div b]
          BY <2>1, <4>4
        <5>2. h[i] = g[i]
          BY <3>1, <4>4
        <5> QED BY <5>1, <5>2, <4>2
      <4> QED BY <4>3, <4>4
    <3> QED BY <3>2
  <2>3. n + 1 \in Nat
    OBVIOUS
  <2> QED BY <2>2, <2>3
<1>3. \A n \in Nat : n \in T
  <2> HIDE DEF T
  <2> QED BY <1>1, <1>2, Induction
<1> DEFINE G(n) == CHOOSE g : Upto(n, g)
<1>4. \A n \in Nat : Upto(n, G(n))
  BY <1>3
<1> HIDE DEF G
<1>a. \A m \in Nat, i \in Nat :
        i <= m => G(m)[i] = IF i < b THEN 1 ELSE 1 + G(m)[i \div b]
  <2> TAKE m \in Nat, i \in Nat
  <2> HAVE i <= m
  <2>1. i \in 0 .. m
    OBVIOUS
  <2>2. \A j \in 0 .. m : G(m)[j] = IF j < b THEN 1 ELSE 1 + G(m)[j \div b]
    BY <1>4
  <2> HIDE DEF Upto
  <2> QED BY <2>1, <2>2
<1> HIDE DEF Upto
<1>5. ASSUME NEW m \in Nat, NEW l \in Nat, NEW i \in Nat, i <= m, i <= l
      PROVE  G(m)[i] = G(l)[i]
  <2> DEFINE S == {k \in Nat : k <= m /\ k <= l => G(m)[k] = G(l)[k]}
  <2>1. ASSUME NEW n \in Nat, \A k \in 0 .. n - 1 : k \in S PROVE n \in S
    <3>1. SUFFICES ASSUME n <= m, n <= l PROVE G(m)[n] = G(l)[n]
      OBVIOUS
    <3>2. G(m)[n] = IF n < b THEN 1 ELSE 1 + G(m)[n \div b]
      BY <1>a, <3>1
    <3>3. G(l)[n] = IF n < b THEN 1 ELSE 1 + G(l)[n \div b]
      BY <1>a, <3>1
    <3>4. ASSUME ~(n < b) PROVE G(m)[n \div b] = G(l)[n \div b]
      <4> DEFINE k == n \div b
      <4>0. k \in Nat /\ k < n
        BY <1>0, <3>4
      <4> HIDE DEF k
      <4>1. k \in 0 .. n - 1
        BY <4>0
      <4>2. k \in S
        BY <4>1, <2>1
      <4>3. k <= m /\ k <= l
        BY <4>0, <3>1
      <4>4. G(m)[k] = G(l)[k]
        BY <4>2, <4>3
      <4> QED BY <4>4 DEF k
    <3> QED BY <3>2, <3>3, <3>4
  <2>2. \A k \in Nat : k \in S
    <3> HIDE DEF S
    <3> QED BY <2>1, Descent
  <2> QED BY <2>2, <1>5
<1> DEFINE p == [i \in Nat |-> G(i)[i]]
<1>6. ASSUME NEW i \in Nat PROVE p[i] = IF i < b THEN 1 ELSE 1 + p[i \div b]
  <2>1. G(i)[i] = IF i < b THEN 1 ELSE 1 + G(i)[i \div b]
    BY <1>a
  <2>2. CASE i < b
    BY <2>1, <2>2
  <2>3. CASE ~(i < b)
    <3>1. i \div b \in Nat /\ i \div b < i
      BY <1>0, <2>3
    <3>2. i \div b \in Nat /\ i \div b <= i
      BY <3>1
    <3>3. G(i)[i \div b] = G(i \div b)[i \div b]
      BY <1>5, <3>2
    <3> QED BY <3>2, <3>3, <2>1, <2>3
  <2> QED BY <2>2, <2>3
<1>7. p = [y \in Nat |-> IF y < b THEN 1 ELSE 1 + p[y \div b]]
  <2>1. p = [i \in Nat |-> p[i]]
    OBVIOUS
  <2> HIDE DEF p
  <2> QED BY <2>1, <1>6
<1> QED BY <1>7

LEMMA PlacesStep ==
  ASSUME NEW b \in Nat \ {0, 1}, NEW x \in Nat
  PROVE  Places(x, b) = IF x < b THEN 1 ELSE 1 + Places(x \div b, b)
<1> DEFINE p == CHOOSE f : f = [y \in Nat |-> IF y < b THEN 1 ELSE 1 + f[y \div b]]
<1>1. p = [y \in Nat |-> IF y < b THEN 1 ELSE 1 + p[y \div b]]
  BY PlacesExist
<1>2. \A k : Places(k, b) = p[k]
  BY DEF Places
<1> HIDE DEF p
<1>3. p[x] = IF x < b THEN 1 ELSE 1 + p[x \div b]
  BY <1>1
<1> QED BY <1>2, <1>3

\* The number of digits, between the powers that bound the number.
LEMMA PlacesBounds ==
  ASSUME NEW b \in Nat \ {0, 1}, NEW x \in Nat
  PROVE  /\ Places(x, b) \in Nat \ {0}
         /\ x < Power(b, Places(x, b))
         /\ x # 0 => x >= Power(b, Places(x, b) - 1)
<1> DEFINE T == {y \in Nat : /\ Places(y, b) \in Nat \ {0}
                             /\ y < Power(b, Places(y, b))
                             /\ y # 0 => y >= Power(b, Places(y, b) - 1)}
<1>1. ASSUME NEW n \in Nat, \A m \in 0 .. n - 1 : m \in T PROVE n \in T
  <2>1. CASE n < b
    <3>1. Places(n, b) = 1
      BY <2>1, PlacesStep
    <3> QED BY <3>1, <2>1, PowerOne, PowerZero
  <2>2. CASE ~(n < b)
    <3> DEFINE q == n \div b
               k == Places(q, b)
    <3>1. q \in 0 .. n - 1 /\ q # 0
      BY <2>2
    <3>2. q \in T
      BY <3>1, <1>1
    <3>3. k \in Nat \ {0} /\ q < Power(b, k) /\ q >= Power(b, k - 1)
      BY <3>1, <3>2
    <3>4. Places(n, b) = 1 + k
      BY <2>2, PlacesStep
    <3>5. q * b <= n /\ n < (q + 1) * b
      OBVIOUS
    <3>6. k - 1 \in Nat /\ k = (k - 1) + 1 /\ 1 + k = k + 1 /\ (1 + k) - 1 = k
      BY <3>3
    <3>7. /\ Power(b, k) = b * Power(b, k - 1)
          /\ Power(b, k + 1) = b * Power(b, k)
          /\ Power(b, k) \in Nat \ {0}
          /\ Power(b, k - 1) \in Nat \ {0}
      BY <3>3, <3>6, PowerNext, PowerType
    <3> HIDE DEF q, k
    <3>8. n < b * Power(b, k)
      <4>1. q + 1 <= Power(b, k)
        BY <3>1, <3>3, <3>7
      <4>2. (q + 1) * b <= Power(b, k) * b
        BY <4>1, <3>1, <3>7
      <4> QED BY <4>2, <3>5, <3>1, <3>7
    <3>9. n >= b * Power(b, k - 1)
      <4>1. Power(b, k - 1) * b <= q * b
        BY <3>1, <3>3, <3>7
      <4> QED BY <4>1, <3>5, <3>1, <3>7
    <3> QED BY <3>3, <3>4, <3>6, <3>7, <3>8, <3>9
  <2> QED BY <2>1, <2>2
<1>2. \A n \in Nat : n \in T
  <2> HIDE DEF T
  <2> QED BY <1>1, Descent
<1> QED BY <1>2

LEMMA PlacesAtMost ==
  ASSUME NEW b \in Nat \ {0, 1}, NEW x \in Nat, NEW m \in Nat \ {0}, x < Power(b, m)
  PROVE  Places(x, b) <= m
<1> DEFINE n == Places(x, b)
<1>1. n \in Nat \ {0} /\ (x # 0 => x >= Power(b, n - 1))
  BY PlacesBounds
<1>2. CASE x = 0
  BY <1>2, PlacesStep
<1>3. CASE x # 0
  <2> SUFFICES ASSUME m < n PROVE FALSE
    BY <1>1
  <2>1. n - 1 \in Nat /\ m <= n - 1
    BY <1>1
  <2>2. Power(b, m) <= Power(b, n - 1)
    BY <2>1, PowerMono
  <2> HIDE DEF n
  <2> QED BY <2>1, <2>2, <1>1, <1>3, PowerType
<1> QED BY <1>2, <1>3

LEMMA PlacesAtLeast ==
  ASSUME NEW b \in Nat \ {0, 1}, NEW x \in Nat, NEW m \in Nat, x >= Power(b, m)
  PROVE  Places(x, b) > m
<1> DEFINE n == Places(x, b)
<1>1. n \in Nat \ {0} /\ x < Power(b, n)
  BY PlacesBounds
<1> SUFFICES ASSUME n <= m PROVE FALSE
  BY <1>1
<1>2. Power(b, n) <= Power(b, m)
  BY <1>1, PowerMono
<1> HIDE DEF n
<1> QED BY <1>1, <1>2, PowerType

LEMMA PlacesUnique ==
  ASSUME NEW b \in Nat \ {0, 1}, NEW x \in Nat, NEW m \in Nat,
         Power(b, m) <= x, x < Power(b, m + 1)
  PROVE  Places(x, b) = m + 1
<1>1. m + 1 \in Nat \ {0}
  OBVIOUS
<1>2. Places(x, b) <= m + 1
  BY <1>1, PlacesAtMost
<1>3. Places(x, b) > m
  BY PlacesAtLeast
<1>4. Places(x, b) \in Nat
  BY PlacesBounds
<1> QED BY <1>2, <1>3, <1>4

\* Digits dropped from the end are digits less.
LEMMA PlacesShift ==
  ASSUME NEW b \in Nat \ {0, 1}, NEW x \in Nat, NEW t \in Nat, x >= Power(b, t)
  PROVE  /\ x \div Power(b, t) \in Nat \ {0}
         /\ Places(x, b) = t + Places(x \div Power(b, t), b)
<1> DEFINE f == Power(b, t)
           q == x \div f
           m == Places(q, b)
<1>1. f \in Nat \ {0} /\ x >= f
  BY PowerType
<1> HIDE DEF f
<1>2. q \in Nat /\ q * f <= x /\ x < (q + 1) * f
  BY <1>1
<1> HIDE DEF q
<1>3. q # 0
  BY <1>1, <1>2
<1>4. m \in Nat \ {0} /\ q < Power(b, m) /\ q >= Power(b, m - 1)
  BY <1>2, <1>3, PlacesBounds
<1>5. m - 1 \in Nat
  BY <1>4
<1>6. Power(b, m) \in Nat \ {0} /\ Power(b, m - 1) \in Nat \ {0}
  BY <1>4, <1>5, PowerType
<1>7. Power(b, m + t) = Power(b, m) * f /\ Power(b, (m - 1) + t) = Power(b, m - 1) * f
  BY <1>4, <1>5, PowerSum DEF f
<1> HIDE DEF m
<1>8. Power(b, (m - 1) + t) <= x
  <2>1. Power(b, m - 1) * f <= q * f
    BY <1>1, <1>2, <1>4, <1>6
  <2> QED BY <2>1, <1>1, <1>2, <1>6, <1>7
<1>9. x < Power(b, ((m - 1) + t) + 1)
  <2>1. (q + 1) * f <= Power(b, m) * f
    BY <1>1, <1>2, <1>4, <1>6
  <2>2. ((m - 1) + t) + 1 = m + t
    BY <1>4
  <2> QED BY <2>1, <2>2, <1>1, <1>2, <1>6, <1>7
<1>10. Places(x, b) = ((m - 1) + t) + 1
  BY <1>5, <1>8, <1>9, PlacesUnique
<1>11. Places(x, b) = t + m
  BY <1>10, <1>4
<1> QED BY <1>11, <1>2, <1>3 DEF q, f, m

\* Digits taken k at a time.
LEMMA PlacesPacked ==
  ASSUME NEW b \in Nat \ {0, 1}, NEW k \in Nat \ {0}, NEW x \in Nat \ {0}
  PROVE  Places(x, Power(b, k)) = (Places(x, b) + k - 1) \div k
<1> DEFINE n == Places(x, b)
           u == (n + k - 1) \div k
           base == Power(b, k)
<1>1. n \in Nat \ {0} /\ x < Power(b, n) /\ x >= Power(b, n - 1)
  BY PlacesBounds
<1> HIDE DEF n
<1>2. u \in Nat /\ u * k <= n + k - 1 /\ n + k - 1 < (u + 1) * k
  BY <1>1
<1> HIDE DEF u
<1>3. u # 0
  BY <1>1, <1>2
<1>4. u - 1 \in Nat /\ k * (u - 1) \in Nat /\ k * (u - 1) <= n - 1 /\ n - 1 \in Nat
      /\ k * u \in Nat /\ n <= k * u /\ u = (u - 1) + 1
  BY <1>1, <1>2, <1>3
<1>5. base \in Nat \ {0, 1}
  <2>1. k < Power(b, k)
    BY PowerGrows
  <2> QED BY <2>1, PowerType
<1>6. Power(base, u - 1) = Power(b, k * (u - 1)) /\ Power(base, u) = Power(b, k * u)
  <2>1. ASSUME NEW i \in Nat PROVE Power(base, i) = Power(b, k * i)
    BY PowerPower
  <2> HIDE DEF base
  <2> QED BY <1>2, <1>4, <2>1
<1> HIDE DEF base
<1>7. Power(base, u - 1) <= x
  <2>1. Power(b, k * (u - 1)) <= Power(b, n - 1)
    BY <1>4, PowerMono
  <2>2. Power(b, k * (u - 1)) \in Nat /\ Power(b, n - 1) \in Nat
    BY <1>4, PowerType
  <2> QED BY <2>1, <2>2, <1>1, <1>6
<1>8. x < Power(base, (u - 1) + 1)
  <2>1. Power(b, n) <= Power(b, k * u)
    BY <1>1, <1>4, PowerMono
  <2>2. Power(b, n) \in Nat /\ Power(b, k * u) \in Nat
    BY <1>1, <1>4, PowerType
  <2>3. x < Power(base, u)
    BY <2>1, <2>2, <1>1, <1>6
  <2> QED BY <2>3, <1>4
<1>9. Places(x, base) = (u - 1) + 1
  BY <1>4, <1>5, <1>7, <1>8, PlacesUnique
<1> QED BY <1>4, <1>9 DEF n, u, base
-----------------------------------------------------------------------------
\* Quotients and remainders.
LEMMA DivMod ==
  ASSUME NEW a \in Int, NEW b \in Nat \ {0}
  PROVE  a = (a \div b) * b + (a % b) /\ a % b \in 0 .. b - 1 /\ a \div b \in Int
OBVIOUS

LEMMA DivUnique ==
  ASSUME NEW b \in Nat \ {0}, NEW q \in Int, NEW r \in 0 .. b - 1
  PROVE  (q * b + r) \div b = q /\ (q * b + r) % b = r
OBVIOUS

\* A common factor is no matter for the quotient.
LEMMA CommonFactor ==
  ASSUME NEW x \in Int, NEW y \in Nat \ {0}, NEW f \in Nat \ {0}
  PROVE  (x * f) \div (y * f) = x \div y /\ (x * f) % (y * f) = (x % y) * f
<1> DEFINE q == x \div y
           r == x % y
<1>1. x = q * y + r /\ q \in Int /\ r \in 0 .. y - 1
  BY DivMod
<1> HIDE DEF q, r
<1>2. x * f = q * (y * f) + r * f
  BY <1>1
<1>3. y * f \in Nat \ {0} /\ r * f \in 0 .. (y * f) - 1
  <2>1. (r + 1) * f <= y * f
    BY <1>1
  <2> QED BY <1>1, <2>1
<1> DEFINE g == y * f
           t == r * f
<1> HIDE DEF g, t
<1>4. x * f = q * g + t /\ g \in Nat \ {0} /\ t \in 0 .. g - 1
  BY <1>2, <1>3 DEF g, t
<1>5. (x * f) \div g = q /\ (x * f) % g = t
  BY <1>1, <1>4, DivUnique
<1> QED BY <1>5 DEF g, t, q, r

\* Dividing twice is dividing by the product.
LEMMA NestedDiv ==
  ASSUME NEW x \in Nat, NEW y \in Nat \ {0}, NEW f \in Nat \ {0}
  PROVE  /\ x \div (y * f) = (x \div y) \div f
         /\ x % (y * f) = 0 <=> x % y = 0 /\ (x \div y) % f = 0
<1> DEFINE q == x \div y
           r == x % y
           p == q \div f
           o == q % f
           g == y * f
           t == o * y + r
<1>1. x = q * y + r /\ q \in Nat /\ r \in 0 .. y - 1
  OBVIOUS
<1> HIDE DEF q, r
<1>2. q = p * f + o /\ p \in Nat /\ o \in 0 .. f - 1
  BY <1>1
<1> HIDE DEF p, o
<1>3. g \in Nat \ {0} /\ t \in Nat
  BY <1>1, <1>2
<1>4. t < g
  <2>1. (o + 1) * y <= f * y
    BY <1>2
  <2> QED BY <2>1, <1>1, <1>2
<1>5. x = p * g + t
  <2>1. (p * f + o) * y = p * (y * f) + o * y
    BY <1>2
  <2> QED BY <2>1, <1>1, <1>2
<1>6. t = 0 <=> r = 0 /\ o = 0
  <2>1. o * y \in Nat /\ (o * y = 0 <=> o = 0)
    BY <1>2
  <2> QED BY <2>1, <1>1
<1> HIDE DEF g, t
<1>7. t \in 0 .. g - 1
  BY <1>3, <1>4
<1>8. (p * g + t) \div g = p /\ (p * g + t) % g = t
  BY <1>2, <1>3, <1>7, DivUnique
<1> QED BY <1>5, <1>6, <1>8 DEF g, p, o, q, r
=============================================================================
