------------------------- MODULE DecFloatCallsProofs --------------------------
(***************************************************************************)
(* Whatever a program has computed before, a call returns what its         *)
(* operation promises: comparisons, operations on digits, and all calls.   *)
(***************************************************************************)
EXTENDS DecFloatCorrectProofs

LEMMA Negation ==
  /\ \A k \in Int : -k = 0 - k
  /\ -0 = 0
<1>1. \A k \in Int : -k = 0 - k
  OBVIOUS
<1>2. ASSUME NEW k \in Int PROVE -k = 0 <=> k = 0
  BY <1>1
<1>3. 0 \in Int /\ 0 = 0
  OBVIOUS
<1>4. -0 = 0
  BY <1>2, <1>3, Zenon
<1> QED BY <1>1, <1>4

LEMMA SignAnswersExactly ==
  ASSUME NEW n \in Sign3
  PROVE  LET ref == Ref!Exactly(Ref!RefUnity(n)) IN Answers(Small(n), ref) /\ Pair(ref)
<1>1. n \in Int /\ n < Power(10, DECPMAX) /\ -n < Power(10, DECPMAX)
  BY FullPower DEF Sign3
<1>2. AsNumber(decFloatFromInt32(n)) = Ref!RefUnity(n)
  BY <1>1, SmallIs
<1> DEFINE df == decFloatFromInt32(n)
           unity == Ref!RefUnity(n)
<1>3. Small(n) = Quietly(df)
  BY DEF Small
<1> HIDE DEF df, unity
<1>4. Quietly(df).n = df /\ Quietly(df).status = {}
  BY DEF Quietly, Returns
<1>5. Ref!Exactly(unity).n = unity /\ Ref!Exactly(unity).status = {}
  BY DEF Ref!Exactly
<1>6. Answers(Quietly(df), Ref!Exactly(unity))
  BY <1>2, <1>4, <1>5 DEF Answers, df, unity
<1> QED BY <1>3, <1>6, ReferenceParts DEF unity

LEMMA CompareRight ==
  ASSUME NEW l \in decFloat, NEW r \in decFloat, NEW s \in Setting
  PROVE  Right("Compare", l, r, s.round, decFloatCompare(l, r, s))
<1> DEFINE out == decFloatCompare(l, r, s)
           c == decNumCompare(l, r, FALSE)
           ref == Ref!Reference("Compare", AsNumber(l), AsNumber(r), FormatOf(s.round))
<1>1. "Compare" \in Ordinary \cap Ref!Determined /\ ~Ref!Unary("Compare")
  BY DEF Ordinary, Ref!Promised, Ref!Determined, Ref!Logicals, Ref!Unary
<1>2. AnyNaN(l, r) => out = decNaNs(l, r)
  BY DEF decFloatCompare
<1>3. ~AnyNaN(l, r) => Answers(out, ref) /\ Pair(ref)
  <2> SUFFICES ASSUME ~AnyNaN(l, r) PROVE Answers(out, ref) /\ Pair(ref)
    OBVIOUS
  <2>1. out = Small(c)
    BY DEF decFloatCompare
  <2>2. ref = Ref!Exactly(Ref!RefUnity(Ref!RefCompare(AsNumber(l), AsNumber(r))))
    BY DEF Ref!Reference, Ref!Logicals
  <2>3. Ref!RefCompare(AsNumber(l), AsNumber(r)) = c /\ c \in Sign3
    BY ComparesRight, CompareIs
  <2> HIDE DEF out, ref, c
  <2> QED BY <2>1, <2>2, <2>3, SignAnswersExactly
<1> HIDE DEF out
<1>4. Right("Compare", l, r, s.round, out)
  BY <1>1, <1>2, <1>3, BinaryRight
<1> QED BY <1>4 DEF out

LEMMA CompareSignalRight ==
  ASSUME NEW l \in decFloat, NEW r \in decFloat, NEW s \in Setting
  PROVE  Right("CompareSignal", l, r, s.round, decFloatCompareSignal(l, r, s))
<1> DEFINE op == "CompareSignal"
           out == decFloatCompareSignal(l, r, s)
           c == decNumCompare(l, r, FALSE)
           ref == Ref!Reference(op, AsNumber(l), AsNumber(r), FormatOf(s.round))
<1>1. op \in Ordinary \cap Ref!Determined /\ ~Ref!Unary(op) /\ RightOperand(op, l, r) = r
  BY DEF Ordinary, Ref!Promised, Ref!Determined, Ref!Logicals, Ref!Unary, RightOperand
<1>2. CASE AnyNaN(l, r)
  <2>1. out = Flagging(decNaNs(l, r), {"Invalid_operation"})
    BY <1>2 DEF decFloatCompareSignal
  <2>2. /\ out.n = decNaNs(l, r).n
        /\ out.status = decNaNs(l, r).status \cup {"Invalid_operation"}
    BY <2>1 DEF Flagging, Returns
  <2> HIDE DEF out
  <2> QED BY <1>1, <1>2, <2>2, NaNRight DEF out
<1>3. CASE ~AnyNaN(l, r)
  <2>1. out = Small(c)
    BY <1>3 DEF decFloatCompareSignal
  <2>2. ref = Ref!Exactly(Ref!RefUnity(Ref!RefCompare(AsNumber(l), AsNumber(r))))
    BY DEF Ref!Reference, Ref!Logicals
  <2>3. Ref!RefCompare(AsNumber(l), AsNumber(r)) = c /\ c \in Sign3
    BY <1>3, ComparesRight, CompareIs
  <2> HIDE DEF out, ref, c
  <2>4. Answers(out, ref) /\ Pair(ref)
    BY <2>1, <2>2, <2>3, SignAnswersExactly
  <2>5. ref = Ref!Reference(op, AsNumber(l), AsNumber(RightOperand(op, l, r)), FormatOf(s.round))
    BY <1>1 DEF ref
  <2> HIDE DEF op
  <2> QED BY <1>1, <1>3, <2>4, <2>5, OrdinaryRight DEF out, op
<1> QED BY <1>2, <1>3

-----------------------------------------------------------------------------
(***************************************************************************)
(* The total order.                                                        *)
(***************************************************************************)
LEMMA SignumReverses == ASSUME NEW x \in Int, NEW y \in Int PROVE Signum(y - x) = -Signum(x - y)
<1>1. CASE x < y
  BY <1>1 DEF Signum
<1>2. CASE x > y
  BY <1>2 DEF Signum
<1>3. CASE x = y
  BY <1>3, Negation DEF Signum
<1> QED BY <1>1, <1>2, <1>3

LEMMA MagnitudeSigns ==
  ASSUME NEW lc, NEW rc, NEW k, NEW tot
  PROVE  CompareMagnitude(lc, rc, k, tot) \in Sign3
<1>1. \A x : Signum(x) \in Sign3
  BY DEF Signum, Sign3
<1> QED BY <1>1 DEF CompareMagnitude, Sign3

\* Equal numbers are ordered by sign and exponent.
LEMMA TotalRefines ==
  ASSUME NEW l \in decFloat, NEW r \in decFloat, ~AnyNaN(l, r)
  PROVE  LET c == decNumCompare(l, r, FALSE)
             t == decNumCompare(l, r, TRUE)
         IN  /\ c # 0 => t = c
             /\ c = 0 => t = IF l.neg # r.neg THEN IF l.neg THEN -1 ELSE 1
                             ELSE IF l.neg THEN Signum(r.exp - l.exp)
                             ELSE Signum(l.exp - r.exp)
<1> DEFINE c == decNumCompare(l, r, FALSE)
           t == decNumCompare(l, r, TRUE)
           sc == CompareSameSign(l, r, FALSE)
           st == CompareSameSign(l, r, TRUE)
           mc == CompareMagnitude(l.coef, r.coef, l.exp - r.exp, FALSE)
           mt == CompareMagnitude(l.coef, r.coef, l.exp - r.exp, TRUE)
           k == l.exp - r.exp
<1>1. /\ l.kind \in {"fin", "inf"} /\ r.kind \in {"fin", "inf"}
      /\ l.neg \in BOOLEAN /\ r.neg \in BOOLEAN /\ l.exp \in Int /\ r.exp \in Int
      /\ l.kind = "inf" => l.exp = 0
      /\ r.kind = "inf" => r.exp = 0
  BY DatumParts, Format DEF AnyNaN, DFISNAN
<1>2. mt = IF mc = 0 THEN Signum(k) ELSE mc
  BY DEF CompareMagnitude
<1>3. /\ mc \in Sign3 /\ Signum(k) \in Sign3 /\ Signum(r.exp - l.exp) = -Signum(k)
      /\ -0 = 0
  <2>1. mc \in Sign3
    BY MagnitudeSigns
  <2>2. Signum(k) \in Sign3
    BY DEF Signum, Sign3
  <2>3. Signum(r.exp - l.exp) = -Signum(k)
    BY <1>1, SignumReverses
  <2> QED BY <2>1, <2>2, <2>3, Negation
<1> HIDE DEF mc, mt
<1>4. sc = IF l.kind = "inf" THEN IF r.kind = "inf" THEN 0 ELSE 1
           ELSE IF r.kind = "inf" THEN -1
           ELSE IF l.coef = 0 THEN IF r.coef = 0 THEN 0 ELSE -1
           ELSE IF r.coef = 0 THEN 1 ELSE mc
  BY DEF CompareSameSign, DFISINF, mc
<1>5. st = IF l.kind = "inf" THEN IF r.kind = "inf" THEN 0 ELSE 1
           ELSE IF r.kind = "inf" THEN -1
           ELSE IF l.coef = 0 THEN IF r.coef = 0 THEN Signum(k) ELSE -1
           ELSE IF r.coef = 0 THEN 1 ELSE mt
  BY DEF CompareSameSign, DFISINF, mt
<1>6. l.kind = "inf" /\ r.kind = "inf" => Signum(k) = 0
  BY <1>1 DEF Signum
<1> HIDE DEF sc, st, k
<1>7. st = (IF sc = 0 THEN Signum(k) ELSE sc) /\ sc \in Sign3
  BY <1>1, <1>2, <1>3, <1>4, <1>5, <1>6 DEF Sign3
<1>8. c = IF l.neg # r.neg
          THEN IF l.kind = "fin" /\ l.coef = 0 /\ r.kind = "fin" /\ r.coef = 0 THEN 0
               ELSE IF l.neg THEN -1 ELSE 1
          ELSE IF l.neg THEN -sc ELSE sc
  BY DEF decNumCompare, DiffSign, DFISZERO, sc
<1>9. t = IF l.neg # r.neg THEN IF l.neg THEN -1 ELSE 1
          ELSE IF l.neg THEN -st ELSE st
  BY DEF decNumCompare, DiffSign, st
<1> HIDE DEF c, t
<1> DEFINE g == Signum(k)
           h == Signum(r.exp - l.exp)
<1>10. g \in Sign3 /\ h = -g /\ st = IF sc = 0 THEN g ELSE sc
  BY <1>3, <1>7
<1> HIDE DEF g, h
<1>11. /\ c # 0 => t = c
       /\ c = 0 => t = IF l.neg # r.neg THEN IF l.neg THEN -1 ELSE 1
                       ELSE IF l.neg THEN h ELSE g
  <2>1. CASE l.neg # r.neg
    BY <1>8, <1>9, <2>1
  <2>2. CASE l.neg = r.neg
    <3>1. c = (IF l.neg THEN -sc ELSE sc) /\ t = IF l.neg THEN -st ELSE st
      BY <1>8, <1>9, <2>2
    <3> QED BY <1>7, <1>10, <2>2, <3>1 DEF Sign3
  <2> QED BY <2>1, <2>2
<1> QED BY <1>11 DEF c, t, g, h, k

LEMMA MagnitudeReverses ==
  ASSUME NEW lc \in Nat, NEW rc \in Nat, NEW k \in Int
  PROVE  CompareMagnitude(rc, lc, -k, FALSE) = -CompareMagnitude(lc, rc, k, FALSE)
<1>0. DECPMAX \in Nat \ {0} /\ Power(10, 0) = 1
  BY Format, PowerZero
<1>1. \A x, y \in Int : Signum(y - x) = -Signum(x - y)
  BY SignumReverses
<1> DEFINE Goal == CompareMagnitude(rc, lc, -k, FALSE) = -CompareMagnitude(lc, rc, k, FALSE)
<1>2. CASE k >= DECPMAX \/ k <= -DECPMAX
  BY <1>0, <1>2 DEF CompareMagnitude
<1>3. CASE k \in 1 .. DECPMAX - 1
  <2> DEFINE f == Power(10, k)
  <2>1. f \in Nat
    BY <1>3, <1>0, TenPower
  <2>2. CompareMagnitude(lc, rc, k, FALSE) = Signum(lc * f - rc)
    BY <1>0, <1>3 DEF CompareMagnitude
  <2>3. CompareMagnitude(rc, lc, -k, FALSE) = Signum(rc - lc * f)
    <3>1. ~(-k >= DECPMAX) /\ ~(-k <= -DECPMAX) /\ ~(-k >= 0) /\ -(-k) = k
      BY <1>0, <1>3
    <3> QED BY <3>1 DEF CompareMagnitude
  <2> HIDE DEF f
  <2> DEFINE x == lc * f
  <2>4. x \in Int
    BY <2>1
  <2> HIDE DEF x
  <2>5. Signum(rc - x) = -Signum(x - rc)
    BY <1>1, <2>4
  <2> QED BY <2>2, <2>3, <2>5 DEF x
<1>4. CASE -k \in 1 .. DECPMAX - 1
  <2> DEFINE f == Power(10, -k)
  <2>1. f \in Nat
    BY <1>4, <1>0, TenPower
  <2>2. CompareMagnitude(lc, rc, k, FALSE) = Signum(lc - rc * f)
    <3>1. ~(k >= DECPMAX) /\ ~(k <= -DECPMAX) /\ ~(k >= 0)
      BY <1>0, <1>4
    <3> QED BY <3>1 DEF CompareMagnitude
  <2>3. CompareMagnitude(rc, lc, -k, FALSE) = Signum(rc * f - lc)
    <3>1. ~(-k >= DECPMAX) /\ ~(-k <= -DECPMAX) /\ -k >= 0
      BY <1>0, <1>4
    <3> QED BY <3>1 DEF CompareMagnitude
  <2> HIDE DEF f
  <2> DEFINE x == rc * f
  <2>4. x \in Int
    BY <2>1
  <2> HIDE DEF x
  <2>5. Signum(x - lc) = -Signum(lc - x)
    BY <1>1, <2>4
  <2> QED BY <2>2, <2>3, <2>5 DEF x
<1>5. CASE k = 0
  <2>1. ASSUME NEW a \in Nat, NEW b \in Nat
        PROVE  CompareMagnitude(a, b, 0, FALSE) = Signum(a - b)
    <3>1. ~(0 >= DECPMAX) /\ ~(0 <= -DECPMAX) /\ 0 >= 0 /\ a * Power(10, 0) = a
      BY <1>0
    <3> QED BY <3>1 DEF CompareMagnitude
  <2>2. -k = 0
    BY <1>5, Negation
  <2>3. Signum(rc - lc) = -Signum(lc - rc)
    BY <1>1
  <2> QED BY <1>5, <2>1, <2>2, <2>3
<1>6. k >= DECPMAX \/ k <= -DECPMAX \/ k \in 1 .. DECPMAX - 1 \/ -k \in 1 .. DECPMAX - 1 \/ k = 0
  <2> DEFINE m == -k
  <2>1. m = 0 - k /\ -DECPMAX = 0 - DECPMAX
    BY <1>0, Negation
  <2> HIDE DEF m
  <2>2. k >= DECPMAX \/ k <= 0 - DECPMAX \/ k \in 1 .. DECPMAX - 1 \/ m \in 1 .. DECPMAX - 1 \/ k = 0
    BY <1>0, <2>1
  <2> QED BY <2>1, <2>2 DEF m
<1> QED BY <1>2, <1>3, <1>4, <1>5, <1>6

LEMMA CompareReverses ==
  ASSUME NEW l \in decFloat, NEW r \in decFloat, ~AnyNaN(l, r)
  PROVE  decNumCompare(r, l, FALSE) = -decNumCompare(l, r, FALSE)
<1> DEFINE c == decNumCompare(l, r, FALSE)
           d == decNumCompare(r, l, FALSE)
           sc == CompareSameSign(l, r, FALSE)
           sd == CompareSameSign(r, l, FALSE)
           mc == CompareMagnitude(l.coef, r.coef, l.exp - r.exp, FALSE)
           md == CompareMagnitude(r.coef, l.coef, r.exp - l.exp, FALSE)
<1>1. /\ l.kind \in {"fin", "inf"} /\ r.kind \in {"fin", "inf"}
      /\ l.neg \in BOOLEAN /\ r.neg \in BOOLEAN /\ l.exp \in Int /\ r.exp \in Int
      /\ l.coef \in Nat /\ r.coef \in Nat
  BY DatumParts, Format, FullPower DEF AnyNaN, DFISNAN
<1>2. md = -mc
  <2>1. r.exp - l.exp = -(l.exp - r.exp) /\ l.exp - r.exp \in Int
    BY <1>1
  <2> QED BY <1>1, <2>1, MagnitudeReverses
<1>3. mc \in Sign3
  BY MagnitudeSigns
<1> HIDE DEF mc, md
<1>4. sc = IF l.kind = "inf" THEN IF r.kind = "inf" THEN 0 ELSE 1
           ELSE IF r.kind = "inf" THEN -1
           ELSE IF l.coef = 0 THEN IF r.coef = 0 THEN 0 ELSE -1
           ELSE IF r.coef = 0 THEN 1 ELSE mc
  BY DEF CompareSameSign, DFISINF, mc
<1>5. sd = IF r.kind = "inf" THEN IF l.kind = "inf" THEN 0 ELSE 1
           ELSE IF l.kind = "inf" THEN -1
           ELSE IF r.coef = 0 THEN IF l.coef = 0 THEN 0 ELSE -1
           ELSE IF l.coef = 0 THEN 1 ELSE md
  BY DEF CompareSameSign, DFISINF, md
<1> HIDE DEF sc, sd
<1>6. sd = -sc /\ sc \in Sign3
  BY <1>1, <1>2, <1>3, <1>4, <1>5 DEF Sign3
<1>8. c = IF l.neg # r.neg
          THEN IF l.kind = "fin" /\ l.coef = 0 /\ r.kind = "fin" /\ r.coef = 0 THEN 0
               ELSE IF l.neg THEN -1 ELSE 1
          ELSE IF l.neg THEN -sc ELSE sc
  BY DEF decNumCompare, DiffSign, DFISZERO, sc
<1>9. d = IF r.neg # l.neg
          THEN IF r.kind = "fin" /\ r.coef = 0 /\ l.kind = "fin" /\ l.coef = 0 THEN 0
               ELSE IF r.neg THEN -1 ELSE 1
          ELSE IF r.neg THEN -sd ELSE sd
  BY DEF decNumCompare, DiffSign, DFISZERO, sd
<1> HIDE DEF c, d
<1>10. d = -c
  <2>1. ASSUME l.neg, ~r.neg PROVE d = -c
    BY <1>8, <1>9, <2>1, Negation
  <2>2. ASSUME ~l.neg, r.neg PROVE d = -c
    BY <1>8, <1>9, <2>2, Negation
  <2>3. ASSUME l.neg, r.neg PROVE d = -c
    BY <1>6, <1>8, <1>9, <2>3, Negation DEF Sign3
  <2>4. ASSUME ~l.neg, ~r.neg PROVE d = -c
    BY <1>6, <1>8, <1>9, <2>4, Negation DEF Sign3
  <2> QED BY <1>1, <2>1, <2>2, <2>3, <2>4
<1> QED BY <1>10 DEF c, d

\* The strict order of the reference, both ways.
LEMMA BelowIs ==
  ASSUME NEW l \in decFloat, NEW r \in decFloat, ~AnyNaN(l, r)
  PROVE  LET t == decNumCompare(l, r, TRUE)
         IN  /\ t \in Sign3
             /\ Ref!RefBelow(AsNumber(l), AsNumber(r)) <=> t = -1
             /\ Ref!RefBelow(AsNumber(r), AsNumber(l)) <=> t = 1
             /\ l.neg # r.neg => t = IF l.neg THEN -1 ELSE 1
<1> DEFINE x == AsNumber(l)
           y == AsNumber(r)
           c == decNumCompare(l, r, FALSE)
           t == decNumCompare(l, r, TRUE)
           d == Ref!RefCompare(y, x)
<1>1. /\ x.neg = l.neg /\ x.exp = l.exp /\ y.neg = r.neg /\ y.exp = r.exp
      /\ l.neg \in BOOLEAN /\ r.neg \in BOOLEAN /\ l.exp \in Int /\ r.exp \in Int
  BY AsNumberFields, DatumParts, Format
<1>2. Ref!RefCompare(x, y) = c /\ c \in Sign3 /\ t \in Sign3
  BY ComparesRight, CompareIs
<1>3. d = -c
  <2>1. ~AnyNaN(r, l)
    BY DEF AnyNaN
  <2> QED BY <2>1, ComparesRight, CompareReverses
<1>4. /\ c # 0 => t = c
      /\ c = 0 => t = IF l.neg # r.neg THEN IF l.neg THEN -1 ELSE 1
                      ELSE IF l.neg THEN Signum(r.exp - l.exp)
                      ELSE Signum(l.exp - r.exp)
  BY TotalRefines
<1>5. l.neg # r.neg => t = IF l.neg THEN -1 ELSE 1
  BY DEF decNumCompare, DiffSign
<1> HIDE DEF x, y, c, t, d
<1>6. Ref!RefBelow(x, y) <=>
        \/ c = -1
        \/ c = 0 /\ l.neg /\ ~r.neg
        \/ c = 0 /\ l.neg = r.neg /\ (IF l.neg THEN l.exp > r.exp ELSE l.exp < r.exp)
  <2>1. c < 0 <=> c = -1
    BY <1>2 DEF Sign3
  <2> QED BY <1>1, <1>2, <2>1 DEF Ref!RefBelow
<1>7. Ref!RefBelow(y, x) <=>
        \/ c = 1
        \/ c = 0 /\ r.neg /\ ~l.neg
        \/ c = 0 /\ l.neg = r.neg /\ (IF r.neg THEN r.exp > l.exp ELSE r.exp < l.exp)
  <2>1. (d < 0 <=> c = 1) /\ (d = 0 <=> c = 0)
    BY <1>2, <1>3, Negation DEF Sign3
  <2> QED BY <1>1, <2>1 DEF Ref!RefBelow, d
<1>8. /\ Signum(r.exp - l.exp) = IF r.exp < l.exp THEN -1 ELSE IF r.exp > l.exp THEN 1 ELSE 0
      /\ Signum(l.exp - r.exp) = IF l.exp < r.exp THEN -1 ELSE IF l.exp > r.exp THEN 1 ELSE 0
  BY <1>1 DEF Signum
<1> DEFINE Both == (Ref!RefBelow(x, y) <=> t = -1) /\ (Ref!RefBelow(y, x) <=> t = 1)
<1>9. Both
  <2>1. ASSUME c # 0 PROVE Both
    BY <1>2, <1>4, <1>6, <1>7, <2>1 DEF Sign3
  <2>2. ASSUME c = 0, l.neg # r.neg PROVE Both
    BY <1>1, <1>5, <1>6, <1>7, <2>2
  <2>3. ASSUME c = 0, l.neg = r.neg PROVE Both
    <3>1. t = IF l.neg THEN Signum(r.exp - l.exp) ELSE Signum(l.exp - r.exp)
      BY <1>4, <2>3
    <3>2. ASSUME l.neg PROVE Both
      <4>1. /\ t = IF r.exp < l.exp THEN -1 ELSE IF r.exp > l.exp THEN 1 ELSE 0
            /\ Ref!RefBelow(x, y) <=> l.exp > r.exp
            /\ Ref!RefBelow(y, x) <=> r.exp > l.exp
        BY <1>6, <1>7, <1>8, <2>3, <3>1, <3>2
      <4> QED BY <1>1, <4>1
    <3>3. ASSUME ~l.neg PROVE Both
      <4>1. /\ t = IF l.exp < r.exp THEN -1 ELSE IF l.exp > r.exp THEN 1 ELSE 0
            /\ Ref!RefBelow(x, y) <=> l.exp < r.exp
            /\ Ref!RefBelow(y, x) <=> r.exp < l.exp
        BY <1>6, <1>7, <1>8, <2>3, <3>1, <3>3
      <4> QED BY <1>1, <4>1
    <3> HIDE DEF Both
    <3> QED BY <3>2, <3>3
  <2> HIDE DEF Both
  <2> QED BY <2>1, <2>2, <2>3
<1> QED BY <1>2, <1>5, <1>9 DEF x, y, t

\* The place of a datum among those of its sign.
TotalRank(kind) == CASE kind = "snan" -> 1 [] kind = "nan" -> 2 [] OTHER -> 0

TotalIs(l, r, foot) ==
  IF AnyNaN(l, r) THEN CompareTotalNaN(l, r, foot) ELSE decNumCompare(l, r, TRUE)

\* Payloads that differ in the last word only are told apart by their difference,
\* whatever there is in the foot of the buffers.
LEMMA PayloadsInOrder ==
  ASSUME NEW l, NEW r, NEW foot, l.coef \in Nat, r.coef \in Nat,
         l.coef \div Power(10, WORD) = r.coef \div Power(10, WORD)
  PROVE  ComparePayload(l, r, foot) =
           IF l.neg THEN Signum(r.coef - l.coef) ELSE Signum(l.coef - r.coef)
<1> DEFINE i == l.coef
           j == r.coef
<1>1. PayloadDifference(i, j, foot) = i - j
  BY DEF PayloadDifference
<1>2. -Signum(i - j) = Signum(j - i)
  <2> HIDE DEF i, j
  <2> SUFFICES ASSUME i \in Nat, j \in Nat PROVE -Signum(i - j) = Signum(j - i)
    BY DEF i, j
  <2> QED BY DEF Signum
<1> QED BY <1>1, <1>2 DEF ComparePayload

LEMMA TotalRight ==
  ASSUME NEW l \in decFloat, NEW r \in decFloat, NEW foot,
         ~PayloadsMisread("CompareTotal", l, r)
  PROVE  /\ Ref!RefTotal(AsNumber(l), AsNumber(r)) = TotalIs(l, r, foot)
         /\ TotalIs(l, r, foot) \in Sign3
<1> DEFINE x == AsNumber(l)
           y == AsNumber(r)
           i == TotalRank(l.kind)
           j == TotalRank(r.kind)
           out == TotalIs(l, r, foot)
           ref == Ref!RefTotal(x, y)
           beyond == i < j \/ (i = j /\ i > 0 /\ l.coef < r.coef)
           lr == Ref!RefBelow(x, y)
           rl == Ref!RefBelow(y, x)
           same == /\ l.neg = r.neg /\ i = j
                   /\ IF i > 0 THEN l.coef = r.coef ELSE ~lr /\ ~rl
           below == IF l.neg # r.neg THEN l.neg
                    ELSE IF i > 0 \/ j > 0 THEN beyond # l.neg ELSE lr
<1>1. /\ x.kind = l.kind /\ x.neg = l.neg /\ x.coef = l.coef
      /\ y.kind = r.kind /\ y.neg = r.neg /\ y.coef = r.coef
      /\ l.neg \in BOOLEAN /\ r.neg \in BOOLEAN /\ l.coef \in Nat /\ r.coef \in Nat
  BY AsNumberFields, DatumParts, FullPower
<1>2. /\ i \in {0, 1, 2} /\ j \in {0, 1, 2}
      /\ AnyNaN(l, r) <=> i > 0 \/ j > 0
  BY DEF TotalRank, AnyNaN, DFISNAN
<1> HIDE DEF x, y
<1>3. ref = IF same THEN 0 ELSE IF below THEN -1 ELSE 1
  <2>1. TotalRank(x.kind) = i /\ TotalRank(y.kind) = j
    BY <1>1
  <2> HIDE DEF i, j
  <2> QED BY <1>1, <1>2, <2>1 DEF Ref!RefTotal, TotalRank
<1> HIDE DEF lr, rl, ref
<1>4. CASE AnyNaN(l, r)
  <2> DEFINE a == IF l.neg THEN -i ELSE i
             b == IF r.neg THEN -j ELSE j
  <2>1. NaNRank(l) = a /\ NaNRank(r) = b
    BY DEF NaNRank, TotalRank
  <2>2. out = IF a # b THEN Signum(a - b)
              ELSE IF l.neg THEN Signum(r.coef - l.coef) ELSE Signum(l.coef - r.coef)
    <3>1. CASE a = b
      <4>1. DFISNAN(l) /\ l.kind = r.kind /\ l.neg = r.neg
        BY <1>1, <1>4, <3>1 DEF AnyNaN, DFISNAN, TotalRank
      <4>2. l.coef \div Power(10, WORD) = r.coef \div Power(10, WORD)
        BY <4>1 DEF PayloadsMisread
      <4>3. ComparePayload(l, r, foot) =
              IF l.neg THEN Signum(r.coef - l.coef) ELSE Signum(l.coef - r.coef)
        BY <1>1, <4>2, PayloadsInOrder
      <4> HIDE DEF a, b
      <4> QED BY <1>4, <2>1, <3>1, <4>3 DEF TotalIs, CompareTotalNaN
    <3>2. CASE a # b
      <4> HIDE DEF a, b
      <4> QED BY <1>4, <2>1, <3>2 DEF TotalIs, CompareTotalNaN
    <3> QED BY <3>1, <3>2
  <2>3. /\ Signum(a - b) = IF a < b THEN -1 ELSE IF a > b THEN 1 ELSE 0
        /\ Signum(r.coef - l.coef) = IF r.coef < l.coef THEN -1 ELSE IF r.coef > l.coef THEN 1 ELSE 0
        /\ Signum(l.coef - r.coef) = IF l.coef < r.coef THEN -1 ELSE IF l.coef > r.coef THEN 1 ELSE 0
        /\ a = (IF l.neg THEN 0 - i ELSE i) /\ b = (IF r.neg THEN 0 - j ELSE j)
    BY <1>1, <1>2, Negation DEF Signum
  <2> HIDE DEF a, b, i, j, out
  <2>4. i > 0 \/ j > 0
    BY <1>2, <1>4
  <2> DEFINE lt == l.coef < r.coef
             gt == l.coef > r.coef
             payloads == IF l.neg THEN IF gt THEN -1 ELSE IF lt THEN 1 ELSE 0
                         ELSE IF lt THEN -1 ELSE IF gt THEN 1 ELSE 0
  <2>a. /\ l.coef = r.coef <=> ~lt /\ ~gt
        /\ ~(lt /\ gt)
        /\ l.neg = r.neg /\ a = b => out = payloads
    BY <1>1, <2>2, <2>3
  <2>b. ref = IF l.neg # r.neg THEN IF l.neg THEN -1 ELSE 1
              ELSE IF i = j THEN payloads
              ELSE IF l.neg THEN IF i < j THEN 1 ELSE -1
              ELSE IF i < j THEN -1 ELSE 1
    <3> HIDE DEF lt, gt, payloads
    <3>1. l.neg # r.neg => ref = IF l.neg THEN -1 ELSE 1
      BY <1>3
    <3>2. ASSUME l.neg = r.neg, i = j PROVE ref = payloads
      <4>1. i > 0
        BY <1>2, <2>4, <3>2
      <4>2. same <=> ~lt /\ ~gt
        BY <2>a, <3>2, <4>1
      <4>3. beyond <=> lt
        BY <1>2, <3>2, <4>1 DEF lt
      <4>4. ASSUME l.neg PROVE ref = payloads
        BY <1>3, <2>a, <3>2, <4>1, <4>2, <4>3, <4>4 DEF payloads
      <4>5. ASSUME ~l.neg PROVE ref = payloads
        BY <1>1, <1>3, <2>a, <3>2, <4>1, <4>2, <4>3, <4>5 DEF payloads
      <4> QED BY <4>4, <4>5
    <3>3. ASSUME l.neg = r.neg, i # j
          PROVE  ref = IF l.neg THEN IF i < j THEN 1 ELSE -1 ELSE IF i < j THEN -1 ELSE 1
      <4>1. beyond <=> i < j
        BY <1>2, <3>3
      <4>2. ~same
        BY <3>3
      <4> DEFINE side == IF l.neg THEN IF i < j THEN 1 ELSE -1 ELSE IF i < j THEN -1 ELSE 1
      <4>3. ASSUME l.neg PROVE ref = side
        <5>1. below <=> ~(i < j)
          BY <2>4, <3>3, <4>1, <4>3
        <5> HIDE DEF below, same
        <5> QED BY <1>3, <4>2, <4>3, <5>1
      <4>4. ASSUME ~l.neg PROVE ref = side
        <5>1. below <=> i < j
          BY <1>1, <2>4, <3>3, <4>1, <4>4
        <5> HIDE DEF below, same
        <5> QED BY <1>3, <4>2, <4>4, <5>1
      <4> QED BY <4>3, <4>4
    <3> QED BY <3>1, <3>2, <3>3
  <2> HIDE DEF same, below, beyond, lt, gt
  <2>c. payloads \in Sign3
    BY DEF Sign3
  <2> HIDE DEF payloads
  <2>5. ASSUME l.neg, r.neg PROVE ref = out /\ out \in Sign3
    BY <1>1, <1>2, <2>2, <2>3, <2>4, <2>5, <2>a, <2>b, <2>c DEF Sign3
  <2>6. ASSUME l.neg, ~r.neg PROVE ref = out /\ out \in Sign3
    <3>1. a < b /\ a # b
      BY <1>2, <2>3, <2>4, <2>6
    <3>2. out = -1
      BY <2>2, <2>3, <3>1
    <3>3. ref = -1
      BY <2>b, <2>6
    <3> QED BY <3>2, <3>3 DEF Sign3
  <2>7. ASSUME ~l.neg, r.neg PROVE ref = out /\ out \in Sign3
    <3>1. ~(a < b) /\ a > b /\ a # b
      BY <1>2, <2>3, <2>4, <2>7
    <3>2. out = 1
      BY <2>2, <2>3, <3>1
    <3>3. ref = 1
      BY <2>b, <2>7
    <3> QED BY <3>2, <3>3 DEF Sign3
  <2>8. ASSUME ~l.neg, ~r.neg PROVE ref = out /\ out \in Sign3
    BY <1>1, <1>2, <2>2, <2>3, <2>4, <2>8, <2>a, <2>b, <2>c DEF Sign3
  <2>9. ref = out /\ out \in Sign3
    BY <1>1, <2>5, <2>6, <2>7, <2>8
  <2> QED BY <2>9 DEF ref, out, x, y
<1>5. CASE ~AnyNaN(l, r)
  <2>1. /\ out \in Sign3
        /\ lr <=> out = -1
        /\ rl <=> out = 1
        /\ l.neg # r.neg => out = IF l.neg THEN -1 ELSE 1
    BY <1>5, BelowIs DEF TotalIs, lr, rl, x, y
  <2>2. i = 0 /\ j = 0
    BY <1>2, <1>5
  <2> HIDE DEF i, j, out
  <2>3. ref = out
    BY <1>1, <1>3, <2>1, <2>2 DEF Sign3
  <2> QED BY <2>1, <2>3 DEF ref, out, x, y
<1> QED BY <1>4, <1>5

\* An operation with a place for NaNs.
LEMMA TotalsDetermined ==
  ASSUME NEW op \in {"CompareTotal", "CompareTotalMag"}, NEW l, NEW r
  PROVE  /\ op \in Ref!Determined /\ RightOperand(op, l, r) = r
         /\ ~Ref!NaNDecides(op, AsNumber(l), AsNumber(r))
<1>1. op \in Ref!Determined
  BY DEF Ref!Determined
<1>2. RightOperand(op, l, r) = r
  BY DEF RightOperand, Ref!Unary
<1>3. ~Ref!NaNDecides(op, AsNumber(l), AsNumber(r))
  BY DEF Ref!NaNDecides
<1> QED BY <1>1, <1>2, <1>3

LEMMA TotalAnswers ==
  ASSUME NEW l \in decFloat, NEW r \in decFloat, NEW foot,
         ~PayloadsMisread("CompareTotal", l, r)
  PROVE  LET ref == Ref!Exactly(Ref!RefUnity(Ref!RefTotal(AsNumber(l), AsNumber(r))))
         IN  Answers(decFloatCompareTotal(l, r, foot), ref) /\ Pair(ref)
<1> DEFINE n == TotalIs(l, r, foot)
           t == Ref!RefTotal(AsNumber(l), AsNumber(r))
<1>1. t = n /\ n \in Sign3
  BY TotalRight
<1>2. decFloatCompareTotal(l, r, foot) = Small(n)
  BY DEF decFloatCompareTotal, TotalIs
<1> HIDE DEF n, t
<1>3. Answers(Small(n), Ref!Exactly(Ref!RefUnity(t))) /\ Pair(Ref!Exactly(Ref!RefUnity(t)))
  BY <1>1, SignAnswersExactly
<1> QED BY <1>2, <1>3 DEF t

LEMMA CompareTotalRight ==
  ASSUME NEW l \in decFloat, NEW r \in decFloat, NEW foot, NEW mode,
         ~PayloadsMisread("CompareTotal", l, r)
  PROVE  Right("CompareTotal", l, r, mode, decFloatCompareTotal(l, r, foot))
<1> DEFINE op == "CompareTotal"
           out == decFloatCompareTotal(l, r, foot)
           ref == Ref!Exactly(Ref!RefUnity(Ref!RefTotal(AsNumber(l), AsNumber(r))))
<1>1. /\ op \in Ref!Determined /\ RightOperand(op, l, r) = r
      /\ ~Ref!NaNDecides(op, AsNumber(l), AsNumber(r))
  BY TotalsDetermined
<1>2. Answers(out, ref) /\ Pair(ref)
  BY TotalAnswers
<1>3. ref = Ref!Reference(op, AsNumber(l), AsNumber(r), FormatOf(mode))
  BY DEF Ref!Reference, Ref!Logicals
<1> HIDE DEF out, ref
<1>4. Right(op, l, r, mode, out)
  <2> HIDE DEF op
  <2> QED BY <1>1, <1>2, <1>3, ReferenceRight
<1> QED BY <1>4 DEF out

LEMMA CompareTotalMagRight ==
  ASSUME NEW l \in decFloat, NEW r \in decFloat, NEW foot, NEW mode,
         ~PayloadsMisread("CompareTotalMag", l, r)
  PROVE  Right("CompareTotalMag", l, r, mode, decFloatCompareTotalMag(l, r, foot))
<1> DEFINE op == "CompareTotalMag"
           out == decFloatCompareTotalMag(l, r, foot)
           no == FALSE
           a == GivenSign(l, no)
           b == GivenSign(r, no)
           ref == Ref!Exactly(Ref!RefUnity(Ref!RefTotal(AsNumber(a), AsNumber(b))))
<1>1. /\ op \in Ref!Determined /\ RightOperand(op, l, r) = r
      /\ ~Ref!NaNDecides(op, AsNumber(l), AsNumber(r))
  BY TotalsDetermined
<1>2. out = decFloatCompareTotal(a, b, foot)
  BY DEF decFloatCompareTotalMag, decFloatCopyAbs, Quietly, Returns, GivenSign
<1>3. a \in decFloat /\ b \in decFloat
  <2>1. no \in BOOLEAN
    OBVIOUS
  <2> HIDE DEF no
  <2> QED BY <2>1, Resigned
<1>4. ~PayloadsMisread("CompareTotal", a, b)
  <2>1. /\ a.kind = l.kind /\ b.kind = r.kind /\ a.coef = l.coef /\ b.coef = r.coef
    BY DatumParts DEF GivenSign
  <2> HIDE DEF a, b
  <2> QED BY <2>1 DEF PayloadsMisread, DFISNAN
<1>5. AsNumber(a) = Ref!Magnitude(AsNumber(l)) /\ AsNumber(b) = Ref!Magnitude(AsNumber(r))
  BY SignedNumbers
<1> HIDE DEF out, a, b
<1>6. Answers(out, ref) /\ Pair(ref)
  BY <1>2, <1>3, <1>4, TotalAnswers
<1>7. ref = Ref!Reference(op, AsNumber(l), AsNumber(r), FormatOf(mode))
  BY <1>5 DEF Ref!Reference, Ref!Logicals
<1> HIDE DEF ref
<1>8. Right(op, l, r, mode, out)
  <2> HIDE DEF op
  <2> QED BY <1>1, <1>6, <1>7, ReferenceRight
<1> QED BY <1>8 DEF out

-----------------------------------------------------------------------------
(***************************************************************************)
(* Maximum and minimum.                                                    *)
(***************************************************************************)
\* The number chosen, rounded (which changes nothing).
Rounded(n, mode) == IF n.kind = "inf" THEN Ref!Exactly(n)
                    ELSE Ref!RoundTo(n.neg, n.coef, n.exp, FormatOf(mode))

LEMMA ChosenAnswers ==
  ASSUME NEW df \in decFloat, ~DFISNAN(df), NEW mode \in Roundings
  PROVE  /\ Answers(Quietly(decCanonical(df)), Rounded(AsNumber(df), mode))
         /\ Pair(Rounded(AsNumber(df), mode))
<1> DEFINE n == AsNumber(df)
           d == decCanonical(df)
           ref == Rounded(n, mode)
<1>1. /\ n.kind = df.kind /\ n.neg = df.neg /\ n.coef = df.coef /\ n.exp = df.exp
      /\ df.kind \in {"fin", "inf"} /\ df.neg \in BOOLEAN
      /\ df.coef \in 0 .. Power(10, DECPMAX) - 1 /\ df.exp \in DECQTINY .. DECQMAX
      /\ df.kind = "inf" => df.coef = 0 /\ df.exp = 0
  BY AsNumberFields, DatumParts DEF DFISNAN
<1>2. d = Datum(df.neg, df.kind, df.coef, df.exp)
  BY DEF decCanonical
<1>3. AsNumber(d) = n
  <2>1. d.neg = df.neg /\ d.kind = df.kind /\ d.coef = df.coef /\ d.exp = df.exp
    BY <1>2 DEF Datum, Encoding
  <2> HIDE DEF d
  <2> QED BY <2>1, SameParts
<1> HIDE DEF n, d
<1>4. CASE df.kind = "fin"
  <2>1. ref = Ref!RoundTo(df.neg, df.coef, df.exp, FormatOf(mode))
    BY <1>1, <1>4 DEF Rounded
  <2>2. d = Datum(df.neg, "fin", df.coef, df.exp)
    BY <1>2, <1>4
  <2> HIDE DEF ref
  <2>3. Answers(Quietly(d), ref) /\ Pair(ref)
    BY <1>1, <2>1, <2>2, FitAnswers, ReferencePairs
  <2> QED BY <2>3 DEF ref, d, n
<1>5. CASE df.kind = "inf"
  <2>1. ref = Ref!Exactly(n)
    BY <1>1, <1>5 DEF Rounded
  <2>2. Quietly(d).n = d /\ Quietly(d).status = {} /\ ref.n = n /\ ref.status = {}
    BY <2>1 DEF Quietly, Returns, Ref!Exactly
  <2>3. Pair(ref)
    BY <2>1, ReferenceParts
  <2> HIDE DEF ref
  <2>4. Answers(Quietly(d), ref) /\ Pair(ref)
    BY <1>3, <2>2, <2>3 DEF Answers
  <2> QED BY <2>4 DEF ref, d, n
<1> QED BY <1>1, <1>4, <1>5

\* Numbers that the total order does not tell apart are the same.
LEMMA TotallyEqual ==
  ASSUME NEW l \in decFloat, NEW r \in decFloat, ~AnyNaN(l, r),
         decNumCompare(l, r, TRUE) = 0
  PROVE  AsNumber(l) = AsNumber(r)
<1> DEFINE c == decNumCompare(l, r, FALSE)
           sc == CompareSameSign(l, r, FALSE)
           mc == CompareMagnitude(l.coef, r.coef, l.exp - r.exp, FALSE)
<1>1. /\ l.kind \in {"fin", "inf"} /\ r.kind \in {"fin", "inf"}
      /\ l.neg \in BOOLEAN /\ r.neg \in BOOLEAN /\ l.exp \in Int /\ r.exp \in Int
      /\ l.coef \in Nat /\ r.coef \in Nat
      /\ l.kind = "inf" => l.coef = 0 /\ l.exp = 0
      /\ r.kind = "inf" => r.coef = 0 /\ r.exp = 0
  BY DatumParts, Format, FullPower DEF AnyNaN, DFISNAN
<1>2. c = 0 /\ l.neg = r.neg
  <2> DEFINE t == decNumCompare(l, r, TRUE)
             z == IF l.neg THEN -1 ELSE 1
  <2>1. (l.neg # r.neg => t = z) /\ (c # 0 => t = c) /\ t = 0
    BY BelowIs, TotalRefines
  <2>2. z # 0
    OBVIOUS
  <2> HIDE DEF c, t, z
  <2> QED BY <2>1, <2>2
<1>3. l.exp = r.exp
  <2>1. 0 = IF l.neg THEN Signum(r.exp - l.exp) ELSE Signum(l.exp - r.exp)
    BY <1>2, TotalRefines
  <2>2. CASE l.neg
    BY <1>1, <2>1, <2>2 DEF Signum
  <2>3. CASE ~l.neg
    BY <1>1, <2>1, <2>3 DEF Signum
  <2> QED BY <2>2, <2>3
<1>4. c = IF l.neg THEN -sc ELSE sc
  BY <1>2 DEF decNumCompare, DiffSign
<1>5. sc = IF l.kind = "inf" THEN IF r.kind = "inf" THEN 0 ELSE 1
           ELSE IF r.kind = "inf" THEN -1
           ELSE IF l.coef = 0 THEN IF r.coef = 0 THEN 0 ELSE -1
           ELSE IF r.coef = 0 THEN 1 ELSE mc
  BY DEF CompareSameSign, DFISINF
<1>6. mc \in Sign3 /\ (mc = 0 => l.coef = r.coef)
  <2>1. l.exp - r.exp = 0 /\ ~(0 >= DECPMAX) /\ ~(0 <= -DECPMAX) /\ 0 >= 0
        /\ l.coef * Power(10, 0) = l.coef
    BY <1>1, <1>3, Format, PowerZero
  <2>2. mc = Signum(l.coef - r.coef)
    BY <2>1 DEF CompareMagnitude
  <2>3. Signum(l.coef - r.coef) = 0 => l.coef = r.coef
    BY <1>1 DEF Signum
  <2> QED BY <2>2, <2>3, MagnitudeSigns
<1> HIDE DEF c, sc, mc
<1>7. sc = 0
  <2>1. sc \in Sign3
    BY <1>1, <1>5, <1>6 DEF Sign3
  <2> QED BY <1>2, <1>4, <2>1, Negation DEF Sign3
<1>8. l.kind = r.kind /\ l.coef = r.coef
  BY <1>1, <1>5, <1>6, <1>7
<1> QED BY <1>2, <1>3, <1>8, SameParts

\* Which one of two numbers is chosen.
Larger(l, r) == decNumCompare(l, r, TRUE) >= 0
Smaller(l, r) == decNumCompare(l, r, TRUE) <= 0

Chosen(l, r, max, magnitude) ==
  LET m == CompareAbs(l, r)
  IN  IF magnitude /\ m # 0 THEN IF max THEN IF m > 0 THEN l ELSE r
                                 ELSE IF m < 0 THEN l ELSE r
      ELSE IF max THEN IF Larger(l, r) THEN l ELSE r
      ELSE IF Smaller(l, r) THEN l ELSE r

LEMMA MagnitudeCompares ==
  ASSUME NEW l \in decFloat, NEW r \in decFloat, ~AnyNaN(l, r)
  PROVE  /\ Ref!RefCompare(Ref!Magnitude(AsNumber(l)), Ref!Magnitude(AsNumber(r))) = CompareAbs(l, r)
         /\ CompareAbs(l, r) \in Sign3
<1> DEFINE no == FALSE
           a == GivenSign(l, no)
           b == GivenSign(r, no)
<1>1. no \in BOOLEAN
  OBVIOUS
<1>2. AsNumber(a) = Ref!Magnitude(AsNumber(l)) /\ AsNumber(b) = Ref!Magnitude(AsNumber(r))
  BY SignedNumbers
<1>3. CompareAbs(l, r) = decNumCompare(a, b, FALSE)
  BY DEF CompareAbs, decFloatCopyAbs, Quietly, Returns, GivenSign
<1> HIDE DEF no
<1>4. a \in decFloat /\ b \in decFloat /\ a.kind = l.kind /\ b.kind = r.kind
  BY <1>1, Resigned
<1> HIDE DEF a, b
<1>5. ~AnyNaN(a, b)
  BY <1>4 DEF AnyNaN, DFISNAN
<1> QED BY <1>2, <1>3, <1>4, <1>5, ComparesRight, CompareIs

LEMMA ExtremumIs ==
  ASSUME NEW l \in decFloat, NEW r \in decFloat, ~AnyNaN(l, r), NEW max \in BOOLEAN,
         NEW magnitude \in BOOLEAN, NEW mode \in Roundings
  PROVE  Ref!RefExtremum(AsNumber(l), AsNumber(r), max, magnitude, FormatOf(mode))
           = Rounded(AsNumber(Chosen(l, r, max, magnitude)), mode)
<1> DEFINE x == AsNumber(l)
           y == AsNumber(r)
           m == CompareAbs(l, r)
           t == decNumCompare(l, r, TRUE)
           lr == Ref!RefBelow(x, y)
           c == IF magnitude THEN m ELSE 0
           below == IF c # 0 THEN c < 0 ELSE lr
           n == IF below = max THEN y ELSE x
           chosen == Chosen(l, r, max, magnitude)
<1>1. /\ Ref!RefCompare(Ref!Magnitude(x), Ref!Magnitude(y)) = m
      /\ m \in Sign3
  BY MagnitudeCompares
<1>2. Ref!RefExtremum(x, y, max, magnitude, FormatOf(mode)) = Rounded(n, mode)
  BY <1>1 DEF Ref!RefExtremum, Rounded
<1>3. t \in Sign3 /\ (lr <=> t = -1)
  BY BelowIs
<1>4. t = 0 => x = y
  BY TotallyEqual
<1>b. below \in BOOLEAN
  <2>1. lr \in BOOLEAN
    BY DEF Ref!RefBelow
  <2>2. c \in Int
    BY <1>1 DEF Sign3
  <2> HIDE DEF lr, c
  <2>3. (c < 0) \in BOOLEAN
    BY <2>2
  <2> QED BY <2>1, <2>3
<1>5. chosen = IF magnitude /\ m # 0 THEN IF max THEN IF m > 0 THEN l ELSE r
                                         ELSE IF m < 0 THEN l ELSE r
               ELSE IF max THEN IF t >= 0 THEN l ELSE r
               ELSE IF t <= 0 THEN l ELSE r
  BY DEF Chosen, Larger, Smaller
<1> HIDE DEF x, y, m, t, lr, chosen
<1>6. AsNumber(chosen) = IF magnitude /\ m # 0 THEN IF max THEN IF m > 0 THEN x ELSE y
                                                   ELSE IF m < 0 THEN x ELSE y
                         ELSE IF max THEN IF t >= 0 THEN x ELSE y
                         ELSE IF t <= 0 THEN x ELSE y
  BY <1>5 DEF x, y
<1>7. n = AsNumber(chosen)
  <2>1. ASSUME magnitude, m # 0 PROVE n = AsNumber(chosen)
    <3>1. below <=> m < 0
      BY <2>1
    <3> HIDE DEF below
    <3>2. n = IF max THEN IF m < 0 THEN y ELSE x ELSE IF m < 0 THEN x ELSE y
      BY <1>b, <3>1
    <3> HIDE DEF n
    <3>3. (m > 0 <=> ~(m < 0))
      BY <1>1, <2>1 DEF Sign3
    <3>4. AsNumber(chosen) = IF max THEN IF m > 0 THEN x ELSE y ELSE IF m < 0 THEN x ELSE y
      BY <1>6, <2>1
    <3> QED BY <3>2, <3>3, <3>4
  <2>2. ASSUME ~(magnitude /\ m # 0) PROVE n = AsNumber(chosen)
    <3>1. below <=> t = -1
      BY <1>3, <2>2
    <3> HIDE DEF below
    <3>2. n = IF max THEN IF t = -1 THEN y ELSE x ELSE IF t = -1 THEN x ELSE y
      BY <1>b, <3>1
    <3> HIDE DEF n
    <3> QED BY <1>3, <1>4, <1>6, <2>2, <3>2 DEF Sign3
  <2> HIDE DEF n
  <2> QED BY <2>1, <2>2
<1> HIDE DEF n
<1> QED BY <1>2, <1>7 DEF x, y, chosen

\* What the four operations make of two operands.
ExtremeOf(l, r, max, magnitude) ==
  IF ~AnyNaN(l, r) THEN Quietly(decCanonical(Chosen(l, r, max, magnitude)))
  ELSE IF Beats(l, r) THEN Quietly(decCanonical(l))
  ELSE IF Beats(r, l) THEN Quietly(decCanonical(r))
  ELSE decNaNs(l, r)

LEMMA ExtremesAre ==
  ASSUME NEW l, NEW r, NEW s
  PROVE  /\ decFloatMax(l, r, s) = ExtremeOf(l, r, TRUE, FALSE)
         /\ decFloatMin(l, r, s) = ExtremeOf(l, r, FALSE, FALSE)
         /\ decFloatMaxMag(l, r, s) = ExtremeOf(l, r, TRUE, TRUE)
         /\ decFloatMinMag(l, r, s) = ExtremeOf(l, r, FALSE, TRUE)
<1>1. Beats(l, r) \/ Beats(r, l) => AnyNaN(l, r)
  BY DEF Beats, AnyNaN, DFISNAN
<1>2. /\ decFloatMax(l, r, s) = ExtremeOf(l, r, TRUE, FALSE)
      /\ decFloatMin(l, r, s) = ExtremeOf(l, r, FALSE, FALSE)
  <2>0. ASSUME NEW max
        PROVE  Chosen(l, r, max, FALSE) = IF max THEN IF Larger(l, r) THEN l ELSE r
                                          ELSE IF Smaller(l, r) THEN l ELSE r
    BY DEF Chosen
  <2>1. /\ Chosen(l, r, TRUE, FALSE) = IF decNumCompare(l, r, TRUE) >= 0 THEN l ELSE r
        /\ Chosen(l, r, FALSE, FALSE) = IF decNumCompare(l, r, TRUE) <= 0 THEN l ELSE r
    BY <2>0 DEF Larger, Smaller
  <2> QED BY <1>1, <2>1 DEF decFloatMax, decFloatMin, ExtremeOf
<1>3. AnyNaN(l, r) =>
        /\ ExtremeOf(l, r, TRUE, FALSE) = ExtremeOf(l, r, TRUE, TRUE)
        /\ ExtremeOf(l, r, FALSE, FALSE) = ExtremeOf(l, r, FALSE, TRUE)
  BY DEF ExtremeOf
<1>4. /\ CompareAbs(l, r) = 0 => /\ Chosen(l, r, TRUE, FALSE) = Chosen(l, r, TRUE, TRUE)
                                 /\ Chosen(l, r, FALSE, FALSE) = Chosen(l, r, FALSE, TRUE)
      /\ CompareAbs(l, r) # 0 =>
           /\ Chosen(l, r, TRUE, TRUE) = IF CompareAbs(l, r) > 0 THEN l ELSE r
           /\ Chosen(l, r, FALSE, TRUE) = IF CompareAbs(l, r) < 0 THEN l ELSE r
  BY DEF Chosen
<1>5. CASE AnyNaN(l, r)
  BY <1>2, <1>3, <1>5 DEF decFloatMaxMag, decFloatMinMag
<1>6. CASE ~AnyNaN(l, r) /\ CompareAbs(l, r) = 0
  BY <1>2, <1>4, <1>6 DEF decFloatMaxMag, decFloatMinMag, ExtremeOf
<1>7. CASE ~AnyNaN(l, r) /\ CompareAbs(l, r) # 0
  BY <1>2, <1>4, <1>7 DEF decFloatMaxMag, decFloatMinMag, ExtremeOf
<1> QED BY <1>5, <1>6, <1>7

\* A NaN decides when it signals, or when there are two.
LEMMA ExtremeNaNs ==
  ASSUME NEW op \in {"Max", "Min", "MaxMag", "MinMag"}, NEW l \in decFloat, NEW r \in decFloat
  PROVE  Ref!NaNDecides(op, AsNumber(l), AsNumber(r)) <=> AnyNaN(l, r) /\ ~Beats(l, r) /\ ~Beats(r, l)
<1> DEFINE x == AsNumber(l)
           y == AsNumber(r)
           nans == {n \in {x, y} : Ref!IsNaN(n)}
<1>1. /\ x.kind = l.kind /\ y.kind = r.kind
      /\ Ref!IsNaN(x) <=> DFISNAN(l)
      /\ Ref!IsNaN(y) <=> DFISNAN(r)
  BY AsNumberFields, IsNaNIs
<1>2. Ref!NaNDecides(op, x, y) <=> (\E n \in nans : n.kind = "snan") \/ (Ref!IsNaN(x) /\ Ref!IsNaN(y))
  <2>1. op \notin Ref!Logicals \cup {"CompareTotal", "CompareTotalMag"}
    BY DEF Ref!Logicals
  <2> HIDE DEF x, y
  <2> QED BY <2>1 DEF Ref!NaNDecides
<1>3. (\E n \in nans : n.kind = "snan") <=> l.kind = "snan" \/ r.kind = "snan"
  BY <1>1 DEF DFISNAN
<1> HIDE DEF x, y, nans
<1> QED BY <1>1, <1>2, <1>3 DEF AnyNaN, DFISNAN, Beats, x, y

LEMMA ExtremeAnswers ==
  ASSUME NEW l \in decFloat, NEW r \in decFloat, NEW max \in BOOLEAN, NEW magnitude \in BOOLEAN,
         NEW mode \in Roundings, ~AnyNaN(l, r) \/ Beats(l, r) \/ Beats(r, l)
  PROVE  LET ref == Ref!RefMaxMin(AsNumber(l), AsNumber(r), max, magnitude, FormatOf(mode))
         IN  Answers(ExtremeOf(l, r, max, magnitude), ref) /\ Pair(ref)
<1> DEFINE x == AsNumber(l)
           y == AsNumber(r)
           c == FormatOf(mode)
           out == ExtremeOf(l, r, max, magnitude)
           ref == Ref!RefMaxMin(x, y, max, magnitude, c)
           a == IF Beats(r, l) THEN r ELSE l
           b == IF Beats(l, r) THEN l ELSE r
           n == Chosen(a, b, max, magnitude)
           Done == Answers(out, ref) /\ Pair(ref)
<1>1. (Ref!IsNaN(x) <=> DFISNAN(l)) /\ (Ref!IsNaN(y) <=> DFISNAN(r))
  BY IsNaNIs
<1>2. /\ Beats(r, l) <=> DFISNAN(l)
      /\ Beats(l, r) <=> DFISNAN(r)
      /\ ~(Beats(l, r) /\ Beats(r, l))
  BY DEF Beats, AnyNaN, DFISNAN
<1>3. ref = Ref!RefExtremum(AsNumber(a), AsNumber(b), max, magnitude, c)
  <2>1. ref = Ref!RefExtremum(IF Ref!IsNaN(x) THEN y ELSE x, IF Ref!IsNaN(y) THEN x ELSE y,
                              max, magnitude, c)
    BY DEF Ref!RefMaxMin
  <2>2. AsNumber(a) = (IF Ref!IsNaN(x) THEN y ELSE x)
    BY <1>1, <1>2
  <2>3. AsNumber(b) = (IF Ref!IsNaN(y) THEN x ELSE y)
    BY <1>1, <1>2
  <2> HIDE DEF ref
  <2> QED BY <2>1, <2>2, <2>3
<1>4. a \in decFloat /\ b \in decFloat /\ ~AnyNaN(a, b)
  BY <1>2 DEF AnyNaN
<1>5. out = Quietly(decCanonical(n)) /\ n \in {a, b}
  <2>1. n \in {a, b}
    BY DEF Chosen
  <2>2. CASE Beats(l, r)
    <3>1. a = l /\ b = l
      BY <1>2, <2>2
    <3>2. out = Quietly(decCanonical(l))
      BY <1>2, <2>2 DEF ExtremeOf, AnyNaN
    <3> HIDE DEF n, out, a, b
    <3>3. n = l
      BY <2>1, <3>1
    <3>4. out = Quietly(decCanonical(n)) /\ n \in {a, b}
      BY <2>1, <3>2, <3>3
    <3> QED BY <3>4 DEF n, out, a, b
  <2>3. CASE Beats(r, l)
    <3>1. a = r /\ b = r
      BY <1>2, <2>3
    <3>2. out = Quietly(decCanonical(r))
      BY <1>2, <2>3 DEF ExtremeOf, AnyNaN
    <3> HIDE DEF n, out, a, b
    <3>3. n = r
      BY <2>1, <3>1
    <3>4. out = Quietly(decCanonical(n)) /\ n \in {a, b}
      BY <2>1, <3>2, <3>3
    <3> QED BY <3>4 DEF n, out, a, b
  <2>4. CASE ~Beats(l, r) /\ ~Beats(r, l)
    <3>1. a = l /\ b = r /\ ~AnyNaN(l, r)
      BY <2>4
    <3>2. out = Quietly(decCanonical(Chosen(l, r, max, magnitude)))
      BY <3>1 DEF ExtremeOf
    <3> QED BY <2>1, <3>1, <3>2
  <2> QED BY <2>2, <2>3, <2>4
<1> HIDE DEF out, ref, a, b
<1>6. ref = Rounded(AsNumber(n), mode)
  BY <1>3, <1>4, ExtremumIs
<1> HIDE DEF n
<1>7. n \in decFloat /\ ~DFISNAN(n)
  BY <1>4, <1>5 DEF AnyNaN
<1>8. Answers(out, ref) /\ Pair(ref)
  BY <1>5, <1>6, <1>7, ChosenAnswers
<1> QED BY <1>8 DEF out, ref

LEMMA ExtremeRight ==
  ASSUME NEW op \in {"Max", "Min", "MaxMag", "MinMag"}, NEW l \in decFloat, NEW r \in decFloat,
         NEW mode \in Roundings, NEW out,
         out = ExtremeOf(l, r, op \in {"Max", "MaxMag"}, op \in {"MaxMag", "MinMag"})
  PROVE  Right(op, l, r, mode, out)
<1> DEFINE max == op \in {"Max", "MaxMag"}
           magnitude == op \in {"MaxMag", "MinMag"}
           ref == Ref!RefMaxMin(AsNumber(l), AsNumber(r), max, magnitude, FormatOf(mode))
<1>1. op \in Ref!Determined /\ RightOperand(op, l, r) = r
  BY DEF Ref!Determined, RightOperand, Ref!Unary
<1>2. ref = Ref!Reference(op, AsNumber(l), AsNumber(r), FormatOf(mode))
  BY DEF Ref!Reference, Ref!Logicals
<1>3. max \in BOOLEAN /\ magnitude \in BOOLEAN
  OBVIOUS
<1>4. CASE AnyNaN(l, r) /\ ~Beats(l, r) /\ ~Beats(r, l)
  <2>1. Ref!NaNDecides(op, AsNumber(l), AsNumber(RightOperand(op, l, r)))
    BY <1>1, <1>4, ExtremeNaNs
  <2>2. out = decNaNs(l, r)
    BY <1>4 DEF ExtremeOf
  <2>3. out.n = decNaNs(l, r).n /\ out.status = decNaNs(l, r).status \cup {}
    BY <2>2
  <2>4. (IF op = "CompareSignal" THEN {"Invalid_operation"} ELSE {}) = {}
    OBVIOUS
  <2> QED BY <1>1, <1>4, <2>1, <2>3, <2>4, NaNsRight
<1>5. CASE ~(AnyNaN(l, r) /\ ~Beats(l, r) /\ ~Beats(r, l))
  <2>1. ~Ref!NaNDecides(op, AsNumber(l), AsNumber(r))
    BY <1>5, ExtremeNaNs
  <2> HIDE DEF max, magnitude
  <2>2. Answers(out, ref) /\ Pair(ref)
    BY <1>3, <1>5, ExtremeAnswers DEF max, magnitude
  <2> HIDE DEF ref
  <2> QED BY <1>1, <1>2, <2>1, <2>2, ReferenceRight
<1> QED BY <1>4, <1>5

LEMMA ExtremesRight ==
  ASSUME NEW l \in decFloat, NEW r \in decFloat, NEW s \in Setting
  PROVE  /\ Right("Max", l, r, s.round, decFloatMax(l, r, s))
         /\ Right("Min", l, r, s.round, decFloatMin(l, r, s))
         /\ Right("MaxMag", l, r, s.round, decFloatMaxMag(l, r, s))
         /\ Right("MinMag", l, r, s.round, decFloatMinMag(l, r, s))
<1>1. s.round \in Roundings
  BY DEF Setting
<1>2. ASSUME NEW op \in {"Max", "Min", "MaxMag", "MinMag"}, NEW max \in BOOLEAN,
             NEW magnitude \in BOOLEAN, op \in {"Max", "MaxMag"} <=> max,
             op \in {"MaxMag", "MinMag"} <=> magnitude
      PROVE  Right(op, l, r, s.round, ExtremeOf(l, r, max, magnitude))
  <2>1. (op \in {"Max", "MaxMag"}) = max /\ (op \in {"MaxMag", "MinMag"}) = magnitude
    BY <1>2
  <2> DEFINE out == ExtremeOf(l, r, max, magnitude)
  <2>2. out = ExtremeOf(l, r, op \in {"Max", "MaxMag"}, op \in {"MaxMag", "MinMag"})
    BY <2>1, Zenon
  <2> HIDE DEF out
  <2>3. Right(op, l, r, s.round, out)
    BY <1>1, <2>2, ExtremeRight
  <2> QED BY <2>3 DEF out
<1> DEFINE yes == TRUE
           no == FALSE
<1>3. yes \in BOOLEAN /\ no \in BOOLEAN /\ yes /\ ~no
  OBVIOUS
<1>4. /\ decFloatMax(l, r, s) = ExtremeOf(l, r, yes, no)
      /\ decFloatMin(l, r, s) = ExtremeOf(l, r, no, no)
      /\ decFloatMaxMag(l, r, s) = ExtremeOf(l, r, yes, yes)
      /\ decFloatMinMag(l, r, s) = ExtremeOf(l, r, no, yes)
  BY ExtremesAre
<1> HIDE DEF yes, no
<1>5. Right("Max", l, r, s.round, ExtremeOf(l, r, yes, no))
  BY <1>2, <1>3
<1>6. Right("Min", l, r, s.round, ExtremeOf(l, r, no, no))
  BY <1>2, <1>3
<1>7. Right("MaxMag", l, r, s.round, ExtremeOf(l, r, yes, yes))
  BY <1>2, <1>3
<1>8. Right("MinMag", l, r, s.round, ExtremeOf(l, r, no, yes))
  BY <1>2, <1>3
<1> QED BY <1>4, <1>5, <1>6, <1>7, <1>8

-----------------------------------------------------------------------------
(* Reduce.                                                                 *)
(***************************************************************************)
\* A number q with z zeros at its end is a multiple of just the powers up to z.
LEMMA ZerosEnd ==
  ASSUME NEW q \in Nat, NEW z \in Nat, q % Power(10, z) = 0,
         (q \div Power(10, z)) % 10 # 0, NEW i \in Nat
  PROVE  q % Power(10, i) = 0 <=> i <= z
<1> DEFINE f == Power(10, z)
           x == q \div f
           zero == 0
<1>1. f \in Nat \ {0}
  BY TenPower
<1>2. q = x * f /\ x \in Nat
  <2> HIDE DEF f
  <2>1. q % f = 0
    BY DEF f
  <2> QED BY <1>1, <2>1
<1>3. x % 10 # 0
  OBVIOUS
<1>4. ASSUME i <= z PROVE q % Power(10, i) = 0
  <2> DEFINE g == Power(10, i)
             h == Power(10, z - i)
             m == x * h
  <2>1. f = h * g /\ h \in Nat /\ g \in Nat \ {0}
    <3>1. z - i \in Nat /\ z = (z - i) + i
      BY <1>4
    <3>2. Power(10, (z - i) + i) = h * g
      BY <3>1, PowerSum
    <3> QED BY <3>1, <3>2, TenPower
  <2>2. q = m * g + zero /\ zero \in 0 .. g - 1 /\ m \in Int
    <3> HIDE DEF f, g, h, x
    <3> QED BY <1>2, <2>1
  <2> HIDE DEF m, g, zero
  <2>3. q % g = zero
    BY <2>1, <2>2, DivUnique
  <2> QED BY <2>3 DEF g, zero
<1>5. ASSUME i > z, q % Power(10, i) = 0 PROVE FALSE
  <2> DEFINE g == Power(10, i)
             h == Power(10, i - z - 1)
             y == q \div g
             m == y * h
             ten == 10
  <2>1. g = ten * h * f /\ h \in Nat /\ g \in Nat \ {0}
    <3>1. i - z - 1 \in Nat /\ i - z \in Nat /\ (i - z - 1) + 1 = i - z /\ (i - z) + z = i
      BY <1>5
    <3>2. Power(10, (i - z) + z) = Power(10, i - z) * f
      BY <3>1, PowerSum
    <3>3. Power(10, (i - z - 1) + 1) = 10 * h
      BY <3>1, PowerNext
    <3> QED BY <3>1, <3>2, <3>3, TenPower
  <2>2. q = y * g /\ y \in Nat
    <3> HIDE DEF f, g, h, x
    <3>1. q % g = 0
      BY <1>5 DEF g
    <3>2. g \in Nat \ {0}
      BY <2>1
    <3> QED BY <3>1, <3>2
  <2>3. x = m * ten + zero /\ m \in Int /\ zero \in 0 .. ten - 1 /\ ten \in Nat \ {0}
    <3> HIDE DEF f, g, h, x, y
    <3>1. q = (m * ten) * f /\ m \in Nat
      <4>1. f \in Nat /\ h \in Nat /\ y \in Nat /\ g = 10 * h * f /\ q = y * g
        BY <1>1, <2>1, <2>2
      <4> QED BY <4>1
    <3>2. m * ten \in Nat
      BY <3>1
    <3> DEFINE k == m * ten
    <3> HIDE DEF m, ten, k
    <3>3. q = k * f /\ k \in Nat
      BY <3>1, <3>2 DEF k
    <3>4. x = k
      BY <1>1, <1>2, <3>3
    <3>5. ten \in Nat \ {0} /\ zero \in 0 .. ten - 1
      BY DEF ten
    <3> QED BY <3>1, <3>4, <3>5 DEF k
  <2> HIDE DEF m, ten, zero, x
  <2>4. x % ten = zero
    <3>1. x \in Nat
      BY <1>2
    <3> QED BY <2>3, <3>1, DivUnique
  <2> QED BY <1>3, <2>4 DEF ten, zero
<1> QED BY <1>4, <1>5

LEMMA MostUpTo == ASSUME NEW k \in Nat PROVE Ref!Most(0 .. k) = k
<1> DEFINE P(x) == \A y \in 0 .. k : x >= y
<1>1. Ref!Most(0 .. k) = CHOOSE x \in 0 .. k : P(x)
  BY DEF Ref!Most
<1>2. k \in 0 .. k /\ P(k)
  OBVIOUS
<1>3. \A x \in 0 .. k : P(x) => x >= k
  BY <1>2
<1> HIDE DEF P
<1>4. Ref!Most(0 .. k) \in 0 .. k /\ P(Ref!Most(0 .. k))
  BY <1>1, <1>2
<1> QED BY <1>3, <1>4

\* How far the exponent exp of a number with z zeros at its end may rise.
Rise(exp, z) == IF exp + z <= DECQMAX THEN z ELSE DECQMAX - exp

LEMMA ShortestIs ==
  ASSUME NEW neg, NEW coef \in Nat \ {0}, NEW exp \in DECQTINY .. DECQMAX, NEW mode,
         NEW z \in 0 .. CoefLength(coef) - 1, coef % Power(10, z) = 0,
         (coef \div Power(10, z)) % 10 # 0
  PROVE  Ref!Shortest(Ref!Finite(neg, coef, exp), FormatOf(mode))
           = Ref!Finite(neg, coef \div Power(10, Rise(exp, z)), exp + Rise(exp, z))
<1> DEFINE n == Ref!Finite(neg, coef, exp)
           c == FormatOf(mode)
           k == Rise(exp, z)
           p == CoefLength(coef)
           S == {i \in 0 .. n.digits - 1 : /\ n.coef % Ref!Power(10, i) = 0
                                           /\ i = 0 \/ ~c.clamp \/ n.exp + i <= Ref!Etop(c)}
<1>1. /\ n.neg = neg /\ n.kind = "fin" /\ n.digits = p /\ n.coef = coef /\ n.exp = exp
      /\ c.clamp = TRUE /\ Ref!Etop(c) = DECQMAX
  BY FiniteIs, FormatRange DEF Figure
<1>2. p \in Nat \ {0} /\ z \in Nat /\ exp \in Int /\ DECQMAX \in Int /\ z <= p - 1 /\ exp <= DECQMAX
  BY LengthBounds, Format
<1>3. k \in 0 .. z /\ (exp + z <= DECQMAX => k = z) /\ (exp + z > DECQMAX => k = DECQMAX - exp)
  BY <1>2 DEF Rise
<1>4. \A i \in Nat : coef % Power(10, i) = 0 <=> i <= z
  BY <1>2, ZerosEnd
<1> HIDE DEF n, c, k, p
<1>5. S = {i \in 0 .. p - 1 : coef % Power(10, i) = 0 /\ (i = 0 \/ exp + i <= DECQMAX)}
  BY <1>1, SamePowers
<1>6. S = 0 .. k
  BY <1>2, <1>3, <1>4, <1>5
<1> HIDE DEF S
<1>7. Ref!Most(S) = k
  BY <1>2, <1>3, <1>6, MostUpTo
<1>8. Ref!Shortest(n, c) = Ref!Finite(n.neg, n.coef \div Ref!Power(10, Ref!Most(S)), n.exp + Ref!Most(S))
  BY <1>1 DEF Ref!Shortest, S
<1> QED BY <1>1, <1>7, <1>8, SamePowers DEF n, c, k

\* A number whose digits fit is only folded down, unless it overflows.
LEMMA HighIsFinal ==
  ASSUME NEW neg, NEW coef \in 0 .. Power(10, DECPMAX) - 1, NEW exp \in Int, exp >= DECQTINY,
         NEW s
  PROVE  LET out == decFinalize(bcdnum(neg, coef, exp), s)
             high == HighEnd(bcdnum(neg, coef, exp), s)
         IN  out.n = high.n /\ out.status = high.status
<1> DEFINE num == bcdnum(neg, coef, exp)
           off == [num |-> num, status |-> {}]
<1>1. num.neg = neg /\ num.kind = "fin" /\ num.coef = coef /\ num.exp = exp /\ coef \in Nat
  BY NumFields, FullPower
<1>2. CoefLength(coef) <= DECPMAX /\ CoefLength(coef) \in Nat
  BY <1>1, Fits, Format, FullPower, LengthBounds
<1> HIDE DEF num
<1>3. Drop(num) <= 0
  BY <1>1, <1>2, Format DEF Drop
<1>4. RoundOff(num, Drop(num), s) = off
  BY <1>3 DEF RoundOff
<1>5. decFinalize(num, s) = Flagging(HighEnd(off.num, s), off.status)
  <2> HIDE DEF off
  <2> QED BY <1>1, <1>4 DEF decFinalize, Finished
<1>6. decFinalize(num, s) = Flagging(HighEnd(num, s), {})
  BY <1>5
<1> QED BY <1>6 DEF num, Flagging, Returns

LEMMA WithoutZerosIs ==
  ASSUME NEW neg, NEW coef, NEW exp, NEW z
  PROVE  WithoutZeros(bcdnum(neg, coef, exp), z)
           = bcdnum(neg, coef \div Power(10, z), exp + z)
<1> DEFINE num == bcdnum(neg, coef, exp)
           c == coef \div Power(10, z)
           e == exp + z
           kind == "fin"
<1>1. num.coef = coef /\ num.exp = exp
  BY NumFields
<1>2. num = [neg |-> neg, kind |-> kind, coef |-> coef, exp |-> exp]
  BY DEF bcdnum
<1> HIDE DEF num
<1>3. WithoutZeros(num, z) = [num EXCEPT !.coef = c, !.exp = e]
  BY <1>1 DEF WithoutZeros
<1> HIDE DEF c, e, kind
<1>4. [num EXCEPT !.coef = c] = [neg |-> neg, kind |-> kind, coef |-> c, exp |-> exp]
  BY <1>2
<1>5. [[neg |-> neg, kind |-> kind, coef |-> c, exp |-> exp] EXCEPT !.exp = e]
        = [neg |-> neg, kind |-> kind, coef |-> c, exp |-> e]
  OBVIOUS
<1>6. WithoutZeros(num, z) = [neg |-> neg, kind |-> kind, coef |-> c, exp |-> e]
  BY <1>3, <1>4, <1>5
<1> QED BY <1>6 DEF num, c, e, kind, bcdnum

\* A number shortened by the zeros at its end.
LEMMA ShortenedAnswers ==
  ASSUME NEW neg \in BOOLEAN, NEW coef \in 1 .. Power(10, DECPMAX) - 1,
         NEW exp \in DECQTINY .. DECQMAX, NEW s, s.round \in Roundings
  PROVE  LET z == TrailingZeros(coef)
             out == decFinalize(bcdnum(neg, coef \div Power(10, z), exp + z), s)
             ref == Ref!Exactly(Ref!Shortest(Ref!Finite(neg, coef, exp), FormatOf(s.round)))
         IN  AsNumber(out.n) = ref.n /\ out.status = {}
<1> DEFINE mode == s.round
           p == CoefLength(coef)
           z == TrailingZeros(coef)
           f == Power(10, z)
           q == coef \div f
           k == Rise(exp, z)
           g == Power(10, k)
           out == decFinalize(bcdnum(neg, q, exp + z), s)
           short == Ref!Shortest(Ref!Finite(neg, coef, exp), FormatOf(mode))
<1>1. /\ coef \in Nat \ {0} /\ p \in Nat \ {0} /\ p <= DECPMAX /\ exp \in Int
      /\ DECQMAX \in Int /\ exp <= DECQMAX /\ DECQTINY \in Int /\ exp >= DECQTINY
  BY Fits, Format, FullPower, LengthBounds
<1>2. z \in 0 .. p - 1 /\ coef % f = 0 /\ q % 10 # 0
  BY <1>1, TrailingZerosIs
<1>3. short = Ref!Finite(neg, coef \div g, exp + k)
  <2> HIDE DEF z
  <2> QED BY <1>1, <1>2, ShortestIs
<1> HIDE DEF z, p
<1>4. z \in Nat /\ f \in Nat \ {0}
  BY <1>1, <1>2, TenPower
<1>5. coef = q * f /\ q \in Nat \ {0}
  <2> HIDE DEF f
  <2>1. q \in Nat /\ coef = q * f
    BY <1>1, <1>2, <1>4
  <2> QED BY <1>1, <1>4, <2>1
<1>6. q <= coef
  <2> HIDE DEF q, f
  <2> QED BY <1>4, <1>5
<1>7. CoefLength(q) = p - z
  <2>1. coef >= f
    <3> HIDE DEF q, f
    <3> QED BY <1>4, <1>5
  <2>2. Places(coef, 10) = z + Places(coef \div Power(10, z), 10)
    BY <1>1, <1>4, <2>1, PlacesShift
  <2>3. Places(coef, 10) = p /\ Places(q, 10) = CoefLength(q) /\ CoefLength(q) \in Nat
    BY <1>1, <1>5, LengthBounds DEF p
  <2> HIDE DEF q
  <2> QED BY <1>1, <1>4, <2>2, <2>3 DEF q
<1>8. k \in 0 .. z /\ k \in Nat /\ (exp + z <= DECQMAX => k = z)
                   /\ (exp + z > DECQMAX => k = DECQMAX - exp)
  BY <1>1, <1>4 DEF Rise
<1> HIDE DEF k
<1>9. coef \div g = q * Power(10, z - k) /\ q * Power(10, z - k) \in Nat
  <2> DEFINE h == Power(10, z - k)
             m == q * h
             zero == 0
  <2>1. f = h * g /\ h \in Nat /\ g \in Nat \ {0}
    <3>1. z - k \in Nat /\ z = (z - k) + k
      BY <1>4, <1>8
    <3>2. Power(10, (z - k) + k) = h * g
      BY <1>8, <3>1, PowerSum
    <3> QED BY <1>8, <3>1, <3>2, TenPower
  <2>2. coef = m * g + zero /\ zero \in 0 .. g - 1 /\ m \in Int /\ m \in Nat
    <3> HIDE DEF f, g, h, q
    <3>1. m \in Nat /\ coef = m * g
      BY <1>5, <2>1
    <3> QED BY <2>1, <3>1
  <2> HIDE DEF m, g, zero
  <2>3. coef \div g = m
    BY <2>1, <2>2, DivUnique
  <2> QED BY <2>2, <2>3 DEF m, g
<1> DEFINE high == HighEnd(bcdnum(neg, q, exp + z), s)
<1>10. q \in 0 .. Power(10, DECPMAX) - 1 /\ exp + z \in Int /\ exp + z >= DECQTINY
  <2> HIDE DEF q
  <2>1. coef <= Power(10, DECPMAX) - 1 /\ Power(10, DECPMAX) \in Nat
    BY FullPower
  <2> QED BY <1>1, <1>4, <1>5, <1>6, <2>1
<1>11. ~Over(q, exp + z)
  <2> HIDE DEF q
  <2> QED BY <1>1, <1>4, <1>7, Format DEF Over
<1>12. high.status = {} /\ AsNumber(high.n) = IF exp + z > DECQMAX
          THEN Ref!Finite(neg, q * Power(10, (exp + z) - DECQMAX), DECQMAX)
          ELSE Ref!Finite(neg, q, exp + z)
  <2>1. mode \in Roundings /\ s.round = mode
    OBVIOUS
  <2> DEFINE e == exp + z
  <2> HIDE DEF q, mode, e
  <2>2. q \in 0 .. Power(10, DECPMAX) - 1 /\ e \in Int /\ e >= DECQTINY /\ ~Over(q, e)
    BY <1>10, <1>11 DEF e
  <2>3. LET o == HighEnd(bcdnum(neg, q, e), s)
        IN  o.status = {} /\ AsNumber(o.n) = IF e > DECQMAX
                               THEN Ref!Finite(neg, q * Power(10, e - DECQMAX), DECQMAX)
                               ELSE Ref!Finite(neg, q, e)
    BY <2>1, <2>2, HighEndRight
  <2> QED BY <2>3 DEF e
<1>13. out.n = high.n /\ out.status = high.status
  <2> HIDE DEF q
  <2> QED BY <1>10, HighIsFinal
<1> HIDE DEF out, high
<1>14. AsNumber(high.n) = short
  <2>1. CASE exp + z > DECQMAX
    <3>1. z - k = (exp + z) - DECQMAX /\ exp + k = DECQMAX
      BY <1>1, <1>4, <1>8, <2>1
    <3> HIDE DEF q, g
    <3> QED BY <1>3, <1>9, <1>12, <2>1, <3>1
  <2>2. CASE exp + z <= DECQMAX
    <3>1. z - k = 0 /\ k = z
      BY <1>4, <1>8, <2>2
    <3>2. ~(exp + z > DECQMAX)
      BY <1>1, <1>4, <2>2
    <3>3. Power(10, z - k) = 1
      BY <3>1, PowerZero
    <3>4. coef \div g = q
      <4> HIDE DEF q, g
      <4> QED BY <1>5, <1>9, <3>3
    <3> HIDE DEF q, g
    <3> QED BY <1>3, <1>12, <3>1, <3>2, <3>4
  <2> QED BY <1>1, <1>4, <2>1, <2>2
<1> HIDE DEF short
<1>15. AsNumber(out.n) = short /\ out.status = {}
  BY <1>12, <1>13, <1>14
<1> QED BY <1>15 DEF out, short, q, f, z, mode, Ref!Exactly

\* The reference's answer to reduce, for a number in the format.
LEMMA RefReduceIs ==
  ASSUME NEW neg \in BOOLEAN, NEW coef \in 0 .. Power(10, DECPMAX) - 1,
         NEW exp \in DECQTINY .. DECQMAX, NEW mode \in Roundings
  PROVE  LET c == FormatOf(mode)
             n == Ref!Finite(neg, coef, exp)
             ref == Ref!RefReduce(Ref!RoundTo(neg, coef, exp, c), c)
         IN  Pair(ref) /\ ref.n = Ref!Shortest(n, c) /\ Told(ref.status) = {}
<1> DEFINE c == FormatOf(mode)
           n == Ref!Finite(neg, coef, exp)
           r == Ref!RoundTo(neg, coef, exp, c)
           ref == Ref!RefReduce(r, c)
           out == Quietly(Datum(neg, "fin", coef, exp))
<1>1. Answers(out, r) /\ Pair(r)
  BY FitAnswers, ReferencePairs
<1>2. AsNumber(out.n) = n /\ out.status = {}
  BY FiniteIsDatum DEF Quietly, Returns
<1> HIDE DEF out, n, r, c
<1>3. r.n = n /\ Told(r.status) = {} /\ r = [n |-> n, status |-> r.status]
  BY <1>1, <1>2 DEF Answers, Pair, Told
<1> DEFINE short == Ref!Shortest(n, c)
           told == r.status
<1>4. ref = [[n |-> n, status |-> told] EXCEPT !.n = Ref!Shortest(@, c)]
  BY <1>3 DEF Ref!RefReduce
<1>5. ref = [n |-> short, status |-> told]
  BY <1>4
<1> HIDE DEF short, told, ref
<1>6. Pair(ref) /\ ref.n = short /\ Told(ref.status) = {}
  BY <1>3, <1>5 DEF Pair, told
<1> QED BY <1>6 DEF ref, r, n, c, short

\* A zero is shortest with the exponent zero.
LEMMA ShortestZero ==
  ASSUME NEW neg, NEW exp, NEW c
  PROVE  Ref!Shortest(Ref!Finite(neg, 0, exp), c) = Ref!Finite(neg, 0, 0)
BY FiniteIs DEF Ref!Shortest, Figure

LEMMA ReduceAnswers ==
  ASSUME NEW df \in decFloat, ~DFISNAN(df), NEW s, s.round \in Roundings
  PROVE  LET n == AsNumber(df)
             c == FormatOf(s.round)
             ref == Ref!RefReduce(IF n.kind = "inf" THEN Ref!Exactly(n)
                                  ELSE Ref!RoundTo(n.neg, n.coef, n.exp, c), c)
         IN  Answers(decFloatReduce(df, s), ref) /\ Pair(ref)
<1> DEFINE n == AsNumber(df)
           mode == s.round
           c == FormatOf(mode)
           neg == df.neg
           coef == df.coef
           exp == df.exp
           out == decFloatReduce(df, s)
           zero == 0
           fin == Ref!Finite(neg, coef, exp)
           r == Ref!RoundTo(neg, coef, exp, c)
<1>1. /\ n.neg = neg /\ n.kind = df.kind /\ n.coef = coef /\ n.exp = exp
      /\ df.kind \in {"fin", "inf"} /\ neg \in BOOLEAN /\ exp \in DECQTINY .. DECQMAX
      /\ coef \in 0 .. Power(10, DECPMAX) - 1 /\ mode \in Roundings
  BY AsNumberFields, DatumParts DEF DFISNAN
<1>2. CASE df.kind = "inf"
  <2> DEFINE ref == Ref!RefReduce(Ref!Exactly(n), c)
  <2>1. out = Quietly(InfinityDatum(neg))
    BY <1>2 DEF decFloatReduce, decInfinity, DFISNAN, DFISINF
  <2>2. n = AsNumber(InfinityDatum(neg))
    <3> DEFINE d == InfinityDatum(neg)
    <3>1. df.kind = d.kind /\ df.neg = d.neg /\ df.coef = d.coef /\ df.exp = d.exp
      BY <1>2, DatumParts DEF InfinityDatum, Datum, Encoding
    <3> HIDE DEF d
    <3>2. AsNumber(df) = AsNumber(d)
      BY <3>1, SameParts
    <3> QED BY <3>2 DEF d
  <2>3. Ref!Shortest(n, c) = n
    BY <1>1, <1>2 DEF Ref!Shortest
  <2> HIDE DEF n, c, out
  <2>4. ref = [n |-> n, status |-> {}]
    BY <2>3 DEF Ref!RefReduce, Ref!Exactly
  <2>5. Answers(out, ref) /\ Pair(ref)
    BY <2>1, <2>2, <2>4 DEF Answers, Pair, Quietly, Returns, Told
  <2> QED BY <1>1, <1>2, <2>5 DEF out, n, c
<1>3. CASE df.kind = "fin"
  <2> DEFINE ref == Ref!RefReduce(r, c)
  <2>1. Pair(ref) /\ ref.n = Ref!Shortest(fin, c) /\ Told(ref.status) = {}
    <3> HIDE DEF neg, coef, exp, mode
    <3> QED BY <1>1, RefReduceIs
  <2>2. AsNumber(out.n) = Ref!Shortest(fin, c) /\ out.status = {}
    <3>0. AsNumber(df) = fin
      <4> DEFINE d == Datum(neg, "fin", coef, exp)
      <4>1. df.kind = d.kind /\ df.neg = d.neg /\ df.coef = d.coef /\ df.exp = d.exp
        BY <1>3 DEF Datum, Encoding
      <4>2. AsNumber(d) = fin
        <5> HIDE DEF neg, coef, exp
        <5> QED BY <1>1, FiniteIsDatum
      <4> HIDE DEF d, fin
      <4>3. AsNumber(df) = AsNumber(d)
        BY <4>1, SameParts
      <4> QED BY <4>2, <4>3
    <3>1. CASE coef = 0
      <4>1. out = Quietly(SignedZero(neg, zero))
        BY <1>3, <3>1 DEF decFloatReduce, DFISNAN, DFISINF, DFISZERO
      <4>2. Ref!Shortest(fin, c) = Ref!Finite(neg, zero, zero)
        BY <3>1, ShortestZero
      <4>3. AsNumber(SignedZero(neg, zero)) = Ref!Finite(neg, zero, zero)
        <5>1. zero \in 0 .. Power(10, DECPMAX) - 1 /\ zero \in DECQTINY .. DECQMAX
          BY FullPower, Format
        <5>2. SignedZero(neg, zero) = Datum(neg, "fin", zero, zero)
          BY DEF SignedZero
        <5> HIDE DEF zero, neg
        <5>3. AsNumber(Datum(neg, "fin", zero, zero)) = Ref!Finite(neg, zero, zero)
          BY <1>1, <5>1, FiniteIsDatum
        <5> QED BY <5>2, <5>3
      <4> HIDE DEF out
      <4> QED BY <4>1, <4>2, <4>3 DEF Quietly, Returns
    <3>2. CASE coef # 0 /\ coef % 10 # 0
      <4>1. out = Quietly(df)
        BY <1>3, <3>2 DEF decFloatReduce, DFISNAN, DFISINF, DFISZERO
      <4>2. coef \in Nat \ {0} /\ zero \in 0 .. CoefLength(coef) - 1
        BY <1>1, <3>2, FullPower, LengthBounds
      <4>3. coef % Power(10, zero) = 0 /\ coef \div Power(10, zero) = coef
        BY <4>2, PowerZero
      <4>4. Rise(exp, zero) = 0
        BY <1>1, Format DEF Rise
      <4>5. Ref!Shortest(fin, c) = Ref!Finite(neg, coef \div Power(10, Rise(exp, zero)),
                                              exp + Rise(exp, zero))
        <5> HIDE DEF zero, coef, neg, exp, mode
        <5>1. (coef \div Power(10, zero)) % 10 # 0 /\ coef % Power(10, zero) = 0
          BY <3>2, <4>3
        <5> QED BY <1>1, <4>2, <5>1, ShortestIs
      <4>6. Ref!Shortest(fin, c) = fin
        <5>1. exp + 0 = exp
          BY <1>1, Format
        <5> QED BY <4>3, <4>4, <4>5, <5>1
      <4> HIDE DEF out
      <4> QED BY <3>0, <4>1, <4>6 DEF Quietly, Returns
    <3>3. CASE coef # 0 /\ coef % 10 = 0
      <4> DEFINE z == TrailingZeros(coef)
                 o == decFinalize(bcdnum(neg, coef \div Power(10, z), exp + z), s)
      <4>1. out = decFinalize(WithoutZeros(Num(df), z), s)
        BY <1>3, <3>3 DEF decFloatReduce, DFISNAN, DFISINF, DFISZERO
      <4>2. WithoutZeros(Num(df), z) = bcdnum(neg, coef \div Power(10, z), exp + z)
        BY WithoutZerosIs DEF Num
      <4>3. coef \in 1 .. Power(10, DECPMAX) - 1
        BY <1>1, <3>3, FullPower
      <4>4. AsNumber(o.n) = Ref!Exactly(Ref!Shortest(fin, c)).n /\ o.status = {}
        <5> HIDE DEF coef, neg, exp
        <5> QED BY <1>1, <4>3, ShortenedAnswers
      <4>5. Ref!Exactly(Ref!Shortest(fin, c)).n = Ref!Shortest(fin, c)
        BY DEF Ref!Exactly
      <4> HIDE DEF z, fin, c, coef, neg, exp
      <4> QED BY <4>1, <4>2, <4>4, <4>5
    <3> QED BY <3>1, <3>2, <3>3
  <2> HIDE DEF out, ref, fin, c
  <2>3. Answers(out, ref)
    BY <2>1, <2>2 DEF Answers, Told
  <2> HIDE DEF n
  <2>4. n.kind # "inf"
    BY <1>1, <1>3
  <2> QED BY <1>1, <2>1, <2>3, <2>4 DEF ref, n, out, c
<1> QED BY <1>1, <1>2, <1>3

\* Reduce is right: the number without the zeros at its end, as far as its
\* exponent may rise, and a zero with the exponent zero.
LEMMA ReduceRight ==
  ASSUME NEW df \in decFloat, NEW s, s.round \in Roundings
  PROVE  Right("Reduce", df, df, s.round, decFloatReduce(df, s))
<1> DEFINE n == AsNumber(df)
           c == FormatOf(s.round)
           out == decFloatReduce(df, s)
           ref == Ref!RefReduce(IF n.kind = "inf" THEN Ref!Exactly(n)
                                ELSE Ref!RoundTo(n.neg, n.coef, n.exp, c), c)
<1>1. "Reduce" \in Ordinary \cap Ref!Determined /\ Ref!Unary("Reduce")
  BY DEF Ordinary, Ref!Promised, Ref!Determined, Ref!Logicals, Ref!Unary
<1>2. Ref!Reference("Reduce", n, n, c) = ref
  BY DEF Ref!Reference, Ref!Logicals
<1>3. DFISNAN(df) => out = decNaNs(df, df)
  BY DEF decFloatReduce, decNaN
<1>4. ~DFISNAN(df) => Answers(out, ref) /\ Pair(ref)
  BY ReduceAnswers
<1> HIDE DEF out, ref
<1>5. Right("Reduce", df, df, s.round, out)
  BY <1>1, <1>2, <1>3, <1>4, UnaryRight
<1> QED BY <1>5 DEF out

-----------------------------------------------------------------------------
(***************************************************************************)
(* Digits.                                                                 *)
(***************************************************************************)
\* The coefficient of given digits, partial sum by partial sum.
LEMMA FromDigitsIs ==
  ASSUME NEW d, NEW c, c.digits = DECPMAX
  PROVE  Ref!FromDigits(d, c)
           = (CHOOSE f : f = [i \in 0 .. DECPMAX |->
                IF i = 0 THEN 0 ELSE f[i - 1] + d[i - 1] * Power(10, i - 1)])[DECPMAX]
BY SamePowers DEF Ref!FromDigits

\* A number is made of its digits.
LEMMA DigitsMake ==
  ASSUME NEW v \in 0 .. Power(10, DECPMAX) - 1, NEW d,
         \A i \in 0 .. DECPMAX - 1 : d[i] = Digit(v, i), NEW c, c.digits = DECPMAX
  PROVE  Ref!FromDigits(d, c) = v
<1> DEFINE n == DECPMAX
           Next1(f, i) == IF i = 0 THEN 0 ELSE f[i - 1] + d[i - 1] * Power(10, i - 1)
           Sums(f) == f = [i \in 0 .. n |-> Next1(f, i)]
           g == [i \in 0 .. n |-> v % Power(10, i)]
           sum == CHOOSE f : Sums(f)
<1>0. v \in Nat /\ n \in Nat \ {0, 1} /\ v < Power(10, n)
  BY FullPower, Format
<1>1. ASSUME NEW i \in Nat, i <= n, i # 0
      PROVE  v % Power(10, i) = (v % Power(10, i - 1)) + d[i - 1] * Power(10, i - 1)
  <2> DEFINE f == Power(10, i - 1)
             x == v \div f
             ten == 10
             q == x \div ten
             r == x % ten
             s == v % f
  <2>1. f \in Nat \ {0} /\ Power(10, i) = ten * f
    <3>1. i - 1 \in Nat /\ (i - 1) + 1 = i
      BY <1>1
    <3> QED BY <3>1, TenPower, PowerNext
  <2>2. d[i - 1] = r
    <3>1. i - 1 \in 0 .. DECPMAX - 1
      BY <1>1, <1>0
    <3> QED BY <3>1 DEF Digit
  <2>3. v = x * f + s /\ x \in Nat /\ s \in 0 .. f - 1
    <3> HIDE DEF f
    <3> QED BY <1>0, <2>1
  <2>4. x = q * ten + r /\ q \in Nat /\ r \in 0 .. ten - 1
    <3> HIDE DEF x
    <3> QED BY <2>3
  <2> HIDE DEF f, x, q, r, s, ten
  <2>5. ten = 10
    BY DEF ten
  <2> DEFINE m == ten * f
             t == s + r * f
  <2>6. v = q * m + t /\ t \in 0 .. m - 1 /\ m \in Nat \ {0} /\ q \in Int
    <3>1. r * f \in 0 .. 9 * f
      BY <2>1, <2>4, <2>5
    <3>2. v = (q * ten + r) * f + s
      BY <2>3, <2>4
    <3>3. (q * ten + r) * f = q * (ten * f) + r * f
      BY <2>1, <2>4, <2>5
    <3> QED BY <2>1, <2>3, <2>4, <2>5, <3>1, <3>2, <3>3
  <2> HIDE DEF m, t
  <2>7. v % m = t
    BY <2>6, DivUnique
  <2> QED BY <2>1, <2>2, <2>7 DEF m, t, s, f
<1>2. Sums(g)
  <2>1. ASSUME NEW i \in 0 .. n PROVE g[i] = Next1(g, i)
    <3>1. CASE i = 0
      <4>1. g[i] = v % 1
        BY <3>1, PowerZero
      <4>2. v % 1 = 0
        BY <1>0
      <4> QED BY <3>1, <4>1, <4>2
    <3>2. CASE i # 0
      <4>1. i \in Nat /\ i <= n /\ i - 1 \in 0 .. n
        BY <1>0, <3>2
      <4>2. g[i - 1] = v % Power(10, i - 1) /\ g[i] = v % Power(10, i)
        BY <4>1
      <4>3. v % Power(10, i) = (v % Power(10, i - 1)) + d[i - 1] * Power(10, i - 1)
        BY <1>1, <3>2, <4>1
      <4> HIDE DEF g
      <4> QED BY <3>2, <4>2, <4>3
    <3> QED BY <3>1, <3>2
  <2>2. g = [i \in 0 .. n |-> g[i]]
    OBVIOUS
  <2> HIDE DEF g, Next1
  <2> QED BY <2>1, <2>2
<1>3. Sums(sum)
  <2> HIDE DEF Sums, g
  <2> QED BY <1>2
<1>4. Ref!FromDigits(d, c) = sum[n]
  BY FromDigitsIs
<1> HIDE DEF sum
<1>5. \A i \in 0 .. n : sum[i] = Next1(sum, i)
  <2> HIDE DEF Next1
  <2> QED BY <1>3
<1> DEFINE S == {i \in Nat : i <= n => sum[i] = v % Power(10, i)}
<1>6. 0 \in S
  <2>1. sum[0] = 0
    BY <1>0, <1>5
  <2>2. v % 1 = 0
    BY <1>0
  <2> QED BY <2>1, <2>2, PowerZero
<1>7. ASSUME NEW i \in Nat, i \in S PROVE i + 1 \in S
  <2> SUFFICES ASSUME i + 1 <= n PROVE sum[i + 1] = v % Power(10, i + 1)
    OBVIOUS
  <2>1. i + 1 \in Nat /\ i + 1 # 0 /\ (i + 1) - 1 = i /\ i + 1 \in 0 .. n /\ i <= n
    BY <1>0
  <2>2. sum[i + 1] = sum[i] + d[i] * Power(10, i)
    BY <1>5, <2>1
  <2>3. sum[i] = v % Power(10, i)
    BY <1>7, <2>1
  <2>4. v % Power(10, i + 1) = (v % Power(10, (i + 1) - 1)) + d[(i + 1) - 1] * Power(10, (i + 1) - 1)
    <3> HIDE DEF n
    <3> QED BY <1>1, <2>1
  <2> QED BY <2>1, <2>2, <2>3, <2>4
<1>8. n \in S
  <2> HIDE DEF S
  <2> QED BY <1>0, <1>6, <1>7, Induction
<1>9. sum[n] = v % Power(10, n)
  BY <1>0, <1>8
<1>10. v % Power(10, n) = v
  BY <1>0, TenPower
<1> QED BY <1>4, <1>9, <1>10

LEMMA DigitIs ==
  ASSUME NEW x \in Nat, NEW i \in Nat
  PROVE  /\ Digit(x, i) \in 0 .. 9
         /\ (x = 0 \/ x < Power(10, i)) => Digit(x, i) = 0
<1> DEFINE f == Power(10, i)
           q == x \div f
<1>1. f \in Nat \ {0}
  BY TenPower
<1> HIDE DEF f
<1>2. q \in Nat
  BY <1>1
<1>3. x = 0 \/ x < f => q = 0
  BY <1>1
<1>4. Digit(x, i) = q % 10
  BY DEF Digit, f
<1> HIDE DEF q
<1> QED BY <1>2, <1>3, <1>4 DEF f

\* The digits of a number laid on top of k digits.
LEMMA DigitOnTop ==
  ASSUME NEW hi \in Nat, NEW k \in Nat, NEW lo \in 0 .. Power(10, k) - 1, NEW i \in Nat, i >= k
  PROVE  Digit(hi * Power(10, k) + lo, i) = Digit(hi, i - k)
<1> DEFINE f == Power(10, k)
           g == Power(10, i - k)
           m == hi \div g
           r == hi % g
           b == g * f
           t == r * f + lo
<1>1. f \in Nat \ {0} /\ g \in Nat \ {0} /\ Power(10, i) = b
  <2>1. i - k \in Nat /\ (i - k) + k = i
    OBVIOUS
  <2>2. Power(10, (i - k) + k) = g * f
    BY <2>1, PowerSum
  <2> QED BY <2>1, <2>2, TenPower
<1>2. hi = m * g + r /\ m \in Nat /\ r \in 0 .. g - 1 /\ lo \in 0 .. f - 1
  <2> HIDE DEF g
  <2> QED BY <1>1
<1> HIDE DEF f, g, m, r
<1>3. hi * f + lo = m * b + t /\ t \in 0 .. b - 1 /\ b \in Nat \ {0} /\ m \in Int
  <2>1. (m * g + r) * f = m * (g * f) + r * f
    BY <1>1, <1>2
  <2>2. r * f <= (g - 1) * f
    BY <1>1, <1>2
  <2>3. (g - 1) * f = g * f - f /\ g * f \in Nat \ {0} /\ r * f \in Nat
    BY <1>1, <1>2
  <2> QED BY <1>1, <1>2, <2>1, <2>2, <2>3
<1> HIDE DEF b, t
<1>4. (m * b + t) \div b = m
  BY <1>3, DivUnique
<1> QED BY <1>1, <1>3, <1>4 DEF Digit, f, g, m

\* And those below.
LEMMA DigitBelow ==
  ASSUME NEW hi \in Nat, NEW k \in Nat, NEW lo \in 0 .. Power(10, k) - 1, NEW i \in Nat, i < k
  PROVE  Digit(hi * Power(10, k) + lo, i) = Digit(lo, i)
<1> DEFINE f == Power(10, i)
           h == Power(10, k - i - 1)
           ten == 10
           q == lo \div f
           r == lo % f
           x == (hi * h) * ten + q
           y == q \div ten
           e == q % ten
           z == hi * h + y
<1>1. f \in Nat \ {0} /\ h \in Nat \ {0} /\ Power(10, k) = (h * ten) * f
  <2>1. k - i - 1 \in Nat /\ (k - i - 1) + 1 = k - i /\ k - i \in Nat /\ (k - i) + i = k
    OBVIOUS
  <2>2. Power(10, (k - i - 1) + 1) = 10 * h
    BY <2>1, PowerNext
  <2>3. Power(10, (k - i) + i) = Power(10, k - i) * f
    BY <2>1, PowerSum
  <2>4. h \in Nat \ {0} /\ f \in Nat \ {0}
    BY <2>1, TenPower
  <2>5. Power(10, k) = (10 * h) * f
    BY <2>1, <2>2, <2>3
  <2>6. 10 * h = h * ten
    BY <2>4
  <2> QED BY <2>4, <2>5, <2>6
<1>2. lo = q * f + r /\ q \in Nat /\ r \in 0 .. f - 1
  <2>1. lo \in Nat
    BY TenPower
  <2> HIDE DEF f
  <2> QED BY <1>1, <2>1
<1>3. q = y * ten + e /\ y \in Nat /\ e \in 0 .. ten - 1
  <2> HIDE DEF q
  <2> QED BY <1>2
<1> HIDE DEF f, h, q, r, y, e
<1>4. hi * Power(10, k) + lo = x * f + r /\ x \in Int
  <2>1. hi * ((h * ten) * f) = ((hi * h) * ten) * f
    BY <1>1
  <2>2. x * f = ((hi * h) * ten) * f + q * f
    BY <1>1, <1>2
  <2> QED BY <1>1, <1>2, <2>1, <2>2
<1>5. x = z * ten + e /\ z \in Int
  BY <1>1, <1>3
<1> DEFINE v == hi * Power(10, k) + lo
<1>6. v \div f = x
  <2> HIDE DEF x
  <2> QED BY <1>1, <1>2, <1>4, DivUnique
<1>7. x % ten = e
  <2> HIDE DEF x, z
  <2>1. ten \in Nat \ {0}
    OBVIOUS
  <2> HIDE DEF ten
  <2> QED BY <1>3, <1>5, <2>1, DivUnique
<1>8. Digit(v, i) = x % ten
  <2> HIDE DEF v, x
  <2> QED BY <1>6 DEF Digit, f
<1>9. Digit(lo, i) = e
  BY DEF Digit, q, f, e
<1> HIDE DEF x
<1> QED BY <1>7, <1>8, <1>9
-----------------------------------------------------------------------------
(***************************************************************************)
(* Logical operations.                                                     *)
(***************************************************************************)
LEMMA OnesAreDigits ==
  ASSUME NEW places, NEW d,
         \A i \in 0 .. DECPMAX - 1 : d[i] = IF i \in places THEN 1 ELSE 0,
         NEW c, c.digits = DECPMAX
  PROVE  Ref!FromDigits(d, c) = OnesAt(places)
<1> DEFINE n == DECPMAX
           A(f) == [i \in 0 .. n |-> IF i = 0 THEN 0 ELSE f[i - 1] + d[i - 1] * Power(10, i - 1)]
           B(f) == [i \in 0 .. n |->
             IF i = 0 THEN 0 ELSE f[i - 1] + IF i - 1 \in places THEN Power(10, i - 1) ELSE 0]
<1>1. ASSUME NEW i \in 0 .. n, i # 0
      PROVE  d[i - 1] * Power(10, i - 1) = IF i - 1 \in places THEN Power(10, i - 1) ELSE 0
  <2>1. i - 1 \in 0 .. DECPMAX - 1 /\ Power(10, i - 1) \in Nat
    BY <1>1, Format, TenPower
  <2>2. d[i - 1] = IF i - 1 \in places THEN 1 ELSE 0
    BY <2>1
  <2> QED BY <2>1, <2>2
<1>2. \A f : A(f) = B(f)
  BY <1>1
<1> HIDE DEF A, B
<1>3. (CHOOSE f : f = A(f)) = (CHOOSE f : f = B(f))
  BY <1>2
<1>4. Ref!FromDigits(d, c) = (CHOOSE f : f = A(f))[n]
  BY FromDigitsIs DEF A
<1>5. OnesAt(places) = (CHOOSE f : f = B(f))[n]
  BY DEF OnesAt, B
<1> QED BY <1>3, <1>4, <1>5

LEMMA LogicalIs ==
  ASSUME NEW df \in decFloat, NEW c, c.digits = DECPMAX
  PROVE  /\ Ref!ToDigits(AsNumber(df), c) = [i \in 0 .. DECPMAX - 1 |-> Digit(df.coef, i)]
         /\ Ref!IsLogical(AsNumber(df), c) <=> decFloatIsLogical(df)
         /\ \A i \in 0 .. DECPMAX - 1 : Digit(df.coef, i) \in 0 .. 9
<1>1. Ref!ToDigits(AsNumber(df), c) = [i \in 0 .. DECPMAX - 1 |-> Digit(df.coef, i)]
  BY AsNumberFields, SamePowers DEF Ref!ToDigits, Digit
<1>2. \A i \in 0 .. DECPMAX - 1 : Digit(df.coef, i) \in 0 .. 9
  <2>1. df.coef \in Nat
    BY DatumParts, FullPower
  <2> QED BY <2>1, DigitIs, Format
<1>3. \A i \in 0 .. DECPMAX - 1 : Digit(df.coef, i) < 2 <=> Digit(df.coef, i) \in {0, 1}
  BY <1>2
<1>4. Ref!IsLogical(AsNumber(df), c) <=> decFloatIsLogical(df)
  BY <1>1, <1>3, AsNumberFields DEF Ref!IsLogical, decFloatIsLogical, DigitPlaces
<1> QED BY <1>1, <1>2, <1>4

\* One digit of the result.
BitOf(op, x, y) == CASE op = "And" -> x * y
                     [] op = "Or" -> x + y - x * y
                     [] op = "Xor" -> (x + y) % 2
                     [] op = "Invert" -> 1 - x

LEMMA RefLogicalIs ==
  ASSUME NEW op, NEW l \in decFloat, NEW r \in decFloat, NEW c, c.digits = DECPMAX
  PROVE  Ref!RefLogical(op, AsNumber(l), AsNumber(r), c)
           = IF BothLogical(l, r)
             THEN Ref!Exactly(Ref!Finite(FALSE, Ref!FromDigits(
                    [i \in 0 .. DECPMAX - 1 |-> BitOf(op, Digit(l.coef, i), Digit(r.coef, i))], c), 0))
             ELSE Ref!InvalidOperation
<1> DEFINE n == DECPMAX
           a == Ref!ToDigits(AsNumber(l), c)
           b == Ref!ToDigits(AsNumber(r), c)
           x == [i \in 0 .. n - 1 |-> Digit(l.coef, i)]
           y == [i \in 0 .. n - 1 |-> Digit(r.coef, i)]
<1>1. a = x /\ b = y
  BY LogicalIs
<1>2. [i \in DOMAIN a |-> BitOf(op, a[i], b[i])]
         = [i \in 0 .. n - 1 |-> BitOf(op, Digit(l.coef, i), Digit(r.coef, i))]
  <2>1. [i \in DOMAIN x |-> BitOf(op, x[i], y[i])]
          = [i \in 0 .. n - 1 |-> BitOf(op, Digit(l.coef, i), Digit(r.coef, i))]
    OBVIOUS
  <2> HIDE DEF a, b, x, y
  <2> QED BY <1>1, <2>1
<1>3. (Ref!IsLogical(AsNumber(l), c) /\ Ref!IsLogical(AsNumber(r), c)) <=> BothLogical(l, r)
  BY LogicalIs DEF BothLogical
<1>4. Ref!RefLogical(op, AsNumber(l), AsNumber(r), c)
        = IF Ref!IsLogical(AsNumber(l), c) /\ Ref!IsLogical(AsNumber(r), c)
          THEN Ref!Exactly(Ref!Finite(FALSE, Ref!FromDigits(
                 [i \in DOMAIN a |-> BitOf(op, a[i], b[i])], c), 0))
          ELSE Ref!InvalidOperation
  BY DEF Ref!RefLogical, BitOf
<1> HIDE DEF a, b
<1> QED BY <1>2, <1>3, <1>4

LEMMA LogicalRight ==
  ASSUME NEW op \in Ref!Logicals, NEW l \in decFloat, NEW r \in decFloat, NEW mode, NEW places,
         BothLogical(l, RightOperand(op, l, r)) =>
           \A i \in 0 .. DECPMAX - 1 :
             BitOf(op, Digit(l.coef, i), Digit(RightOperand(op, l, r).coef, i))
               = IF i \in places THEN 1 ELSE 0
  PROVE  Right(op, l, r, mode, LogicalResult(BothLogical(l, RightOperand(op, l, r)), places))
<1> DEFINE rhs == RightOperand(op, l, r)
           c == FormatOf(mode)
           valid == BothLogical(l, rhs)
           out == LogicalResult(valid, places)
           ref == Ref!RefLogical(op, AsNumber(l), AsNumber(rhs), c)
           no == FALSE
           zero == 0
<1>1. rhs \in decFloat /\ c.digits = DECPMAX
  BY FormatRange DEF RightOperand
<1>2. op \in Ref!Determined /\ ~Ref!NaNDecides(op, AsNumber(l), AsNumber(rhs))
  BY DEF Ref!Determined, Ref!NaNDecides, Ref!Logicals
<1>3. Ref!Reference(op, AsNumber(l), AsNumber(rhs), c) = ref
  BY DEF Ref!Reference, Ref!Logicals
<1>4. CASE valid
  <2> DEFINE d == [i \in 0 .. DECPMAX - 1 |-> BitOf(op, Digit(l.coef, i), Digit(rhs.coef, i))]
             v == OnesAt(places)
  <2>1. \A i \in 0 .. DECPMAX - 1 : d[i] = IF i \in places THEN 1 ELSE 0
    BY <1>4
  <2>2. ref = Ref!Exactly(Ref!Finite(no, Ref!FromDigits(d, c), zero))
    <3> HIDE DEF rhs, c
    <3> QED BY <1>1, <1>4, RefLogicalIs
  <2> HIDE DEF d, c, rhs
  <2>3. Ref!FromDigits(d, c) = v
    BY <1>1, <2>1, OnesAreDigits
  <2>4. v \in 0 .. Power(10, DECPMAX) - 1 /\ no \in BOOLEAN /\ zero \in DECQTINY .. DECQMAX
    BY OnesAtIs, Format
  <2>5. out = Quietly(Datum(no, "fin", v, zero))
    BY <1>4 DEF LogicalResult
  <2> HIDE DEF out, ref, v, no, zero
  <2>6. AsNumber(Datum(no, "fin", v, zero)) = Ref!Finite(no, v, zero)
    BY <2>4, FiniteIsDatum
  <2>7. Answers(out, ref) /\ Pair(ref)
    BY <2>2, <2>3, <2>5, <2>6 DEF Answers, Pair, Quietly, Returns, Told, Ref!Exactly
  <2> QED BY <1>2, <1>3, <2>7, ReferenceRight DEF c, rhs, out, ref
<1>5. CASE ~valid
  <2>1. out = decInvalid
    BY <1>5 DEF LogicalResult
  <2>2. ref = Ref!InvalidOperation
    <3> HIDE DEF rhs, c
    <3> QED BY <1>1, <1>5, RefLogicalIs
  <2> HIDE DEF out, ref
  <2>3. Answers(out, ref) /\ Pair(ref)
    BY <2>1, <2>2, InvalidAnswers, ReferenceParts
  <2> QED BY <1>2, <1>3, <2>3, ReferenceRight DEF out, ref
<1> QED BY <1>4, <1>5

LEMMA LogicalsRight ==
  ASSUME NEW l \in decFloat, NEW r \in decFloat, NEW s
  PROVE  /\ Right("And", l, r, s.round, decFloatAnd(l, r, s))
         /\ Right("Or", l, r, s.round, decFloatOr(l, r, s))
         /\ Right("Xor", l, r, s.round, decFloatXor(l, r, s))
         /\ Right("Invert", l, l, s.round, decFloatInvert(l, s))
<1> DEFINE mode == s.round
<1>1. /\ {"And", "Or", "Xor", "Invert"} \subseteq Ref!Logicals
      /\ RightOperand("And", l, r) = r /\ RightOperand("Or", l, r) = r
      /\ RightOperand("Xor", l, r) = r /\ RightOperand("Invert", l, l) = l
  BY DEF Ref!Logicals, RightOperand, Ref!Unary
<1>2. ASSUME NEW df, decFloatIsLogical(df), NEW i \in 0 .. DECPMAX - 1
      PROVE  /\ Digit(df.coef, i) \in {0, 1}
             /\ i \in Ones(df) <=> Digit(df.coef, i) = 1
  BY <1>2 DEF decFloatIsLogical, Ones, DigitPlaces
<1> HIDE DEF mode
<1>3. Right("And", l, r, mode, decFloatAnd(l, r, s))
  <2> DEFINE places == Ones(l) \cap Ones(r)
  <2>1. BothLogical(l, r) => \A i \in 0 .. DECPMAX - 1 :
          BitOf("And", Digit(l.coef, i), Digit(r.coef, i)) = IF i \in places THEN 1 ELSE 0
    BY <1>2 DEF BothLogical, BitOf
  <2> HIDE DEF places
  <2>2. Right("And", l, r, mode, LogicalResult(BothLogical(l, r), places))
    BY <1>1, <2>1, LogicalRight
  <2> QED BY <2>2 DEF decFloatAnd, places
<1>4. Right("Or", l, r, mode, decFloatOr(l, r, s))
  <2> DEFINE places == Ones(l) \cup Ones(r)
  <2>1. BothLogical(l, r) => \A i \in 0 .. DECPMAX - 1 :
          BitOf("Or", Digit(l.coef, i), Digit(r.coef, i)) = IF i \in places THEN 1 ELSE 0
    BY <1>2 DEF BothLogical, BitOf
  <2> HIDE DEF places
  <2>2. Right("Or", l, r, mode, LogicalResult(BothLogical(l, r), places))
    BY <1>1, <2>1, LogicalRight
  <2> QED BY <2>2 DEF decFloatOr, places
<1>5. Right("Xor", l, r, mode, decFloatXor(l, r, s))
  <2> DEFINE places == (Ones(l) \cup Ones(r)) \ (Ones(l) \cap Ones(r))
  <2>1. BothLogical(l, r) => \A i \in 0 .. DECPMAX - 1 :
          BitOf("Xor", Digit(l.coef, i), Digit(r.coef, i)) = IF i \in places THEN 1 ELSE 0
    BY <1>2 DEF BothLogical, BitOf
  <2> HIDE DEF places
  <2>2. Right("Xor", l, r, mode, LogicalResult(BothLogical(l, r), places))
    BY <1>1, <2>1, LogicalRight
  <2> QED BY <2>2 DEF decFloatXor, places
<1>6. Right("Invert", l, l, mode, decFloatInvert(l, s))
  <2> DEFINE places == DigitPlaces \ Ones(l)
  <2>1. BothLogical(l, l) => \A i \in 0 .. DECPMAX - 1 :
          BitOf("Invert", Digit(l.coef, i), Digit(l.coef, i)) = IF i \in places THEN 1 ELSE 0
    BY <1>2 DEF BothLogical, BitOf, DigitPlaces
  <2> HIDE DEF places
  <2>2. Right("Invert", l, l, mode, LogicalResult(BothLogical(l, l), places))
    BY <1>1, <2>1, LogicalRight
  <2>3. BothLogical(l, l) = decFloatIsLogical(l)
    BY DEF BothLogical, decFloatIsLogical
  <2> QED BY <2>2, <2>3 DEF decFloatInvert, places
<1> QED BY <1>3, <1>4, <1>5, <1>6 DEF mode

-----------------------------------------------------------------------------
(***************************************************************************)
(* Shift and rotate.                                                       *)
(***************************************************************************)
\* A coefficient in two parts, of which the lower moves up.
LEMMA SplitAt ==
  ASSUME NEW coef \in 0 .. Power(10, DECPMAX) - 1, NEW k \in 0 .. DECPMAX
  PROVE  LET hi == coef \div Power(10, DECPMAX - k)
             lo == coef % Power(10, DECPMAX - k)
         IN  /\ coef = hi * Power(10, DECPMAX - k) + lo
             /\ hi \in 0 .. Power(10, k) - 1 /\ lo \in 0 .. Power(10, DECPMAX - k) - 1
             /\ (coef * Power(10, k)) % Power(10, DECPMAX) = lo * Power(10, k)
             /\ lo * Power(10, k) \in 0 .. Power(10, DECPMAX) - Power(10, k)
<1> DEFINE f == Power(10, k)
           g == Power(10, DECPMAX - k)
           h == Power(10, DECPMAX)
           hi == coef \div g
           lo == coef % g
           t == lo * f
<1>1. f \in Nat \ {0} /\ g \in Nat \ {0} /\ h = g * f /\ h \in Nat \ {0}
  <2>1. k \in Nat /\ DECPMAX - k \in Nat /\ (DECPMAX - k) + k = DECPMAX
    BY Format
  <2>2. Power(10, (DECPMAX - k) + k) = g * f
    BY <2>1, PowerSum
  <2> QED BY <2>1, <2>2, TenPower, FullPower
<1>2. coef = hi * g + lo /\ hi \in Nat /\ lo \in 0 .. g - 1 /\ coef \in 0 .. h - 1
  <2>1. coef \in 0 .. h - 1
    OBVIOUS
  <2> HIDE DEF g, h
  <2> QED BY <1>1, <2>1
<1> HIDE DEF f, g, h, hi, lo
<1>3. hi < f
  <2> SUFFICES ASSUME hi >= f PROVE FALSE
    BY <1>1, <1>2
  <2>1. hi * g >= f * g
    BY <1>1, <1>2
  <2> QED BY <1>1, <1>2, <2>1
<1>4. t \in 0 .. h - f /\ t \in 0 .. h - 1
  <2>1. lo * f <= (g - 1) * f
    BY <1>1, <1>2
  <2>2. (g - 1) * f = h - f /\ t \in Nat
    BY <1>1, <1>2
  <2> QED BY <1>1, <2>1, <2>2
<1>5. coef * f = hi * h + t
  <2>1. (hi * g + lo) * f = hi * (g * f) + lo * f
    BY <1>1, <1>2
  <2> QED BY <1>1, <1>2, <2>1
<1> HIDE DEF t
<1>6. (coef * f) % h = t
  <2> DEFINE p == coef * f
  <2>1. p = hi * h + t /\ p \in Nat
    BY <1>1, <1>2, <1>5
  <2> HIDE DEF p
  <2>2. hi \in Int /\ h \in Nat \ {0} /\ t \in 0 .. h - 1
    BY <1>1, <1>2, <1>4
  <2>3. (hi * h + t) % h = t
    BY <2>2, DivUnique
  <2> QED BY <2>1, <2>3 DEF p
<1> QED BY <1>1, <1>2, <1>3, <1>4, <1>6 DEF f, g, h, hi, lo, t

LEMMA ShiftDigits ==
  ASSUME NEW coef \in 0 .. Power(10, DECPMAX) - 1, NEW by \in 0 .. DECPMAX, NEW right \in BOOLEAN
  PROVE  LET v == ShiftedCoef(coef, by, right)
         IN  /\ v \in 0 .. Power(10, DECPMAX) - 1
             /\ \A i \in 0 .. DECPMAX - 1 :
                  Digit(v, i) = IF right
                                THEN IF i + by < DECPMAX THEN Digit(coef, i + by) ELSE 0
                                ELSE IF i >= by THEN Digit(coef, i - by) ELSE 0
<1> DEFINE v == ShiftedCoef(coef, by, right)
           n == DECPMAX
           h == Power(10, n)
<1>1. coef \in Nat /\ by \in Nat /\ n \in Nat /\ by <= n /\ n - by \in Nat /\ h \in Nat \ {0}
  BY Format, FullPower
<1>2. CASE right
  <2> DEFINE f == Power(10, by)
             hi == coef \div f
             lo == coef % f
  <2>1. v = hi
    BY <1>2 DEF ShiftedCoef
  <2>2. f \in Nat \ {0}
    BY <1>1, TenPower
  <2>3. coef = hi * f + lo /\ hi \in Nat /\ lo \in 0 .. f - 1 /\ hi <= coef
    <3> HIDE DEF f
    <3>1. coef = hi * f + lo /\ hi \in Nat /\ lo \in 0 .. f - 1
      BY <1>1, <2>2
    <3> HIDE DEF hi, lo
    <3>2. hi * f >= hi
      BY <2>2, <3>1
    <3> QED BY <1>1, <2>2, <3>1, <3>2
  <2>4. ASSUME NEW i \in 0 .. n - 1 PROVE Digit(coef, i + by) = Digit(hi, i)
    <3> HIDE DEF hi, lo, n
    <3>1. i + by \in Nat /\ i + by >= by /\ (i + by) - by = i
      BY <1>1
    <3>2. Digit(hi * Power(10, by) + lo, i + by) = Digit(hi, (i + by) - by)
      BY <1>1, <2>3, <3>1, DigitOnTop
    <3> QED BY <2>3, <3>1, <3>2
  <2>5. ASSUME NEW i \in 0 .. n - 1, ~(i + by < n) PROVE Digit(coef, i + by) = 0
    <3>1. i + by \in Nat /\ n <= i + by
      BY <1>1, <2>5
    <3>2. h <= Power(10, i + by) /\ Power(10, i + by) \in Nat
      BY <1>1, <3>1, PowerMono, TenPower
    <3>3. coef < Power(10, i + by)
      BY <1>1, <3>2
    <3> QED BY <1>1, <3>1, <3>3, DigitIs
  <2>6. v \in 0 .. h - 1
    <3> HIDE DEF h, hi, v
    <3>1. coef \in 0 .. h - 1
      BY DEF h
    <3> QED BY <2>1, <2>3, <3>1, <1>1
  <2> HIDE DEF hi, v
  <2> QED BY <1>2, <2>1, <2>4, <2>5, <2>6 DEF v
<1>3. CASE ~right
  <2> DEFINE f == Power(10, by)
             g == Power(10, n - by)
             hi == coef \div g
             lo == coef % g
             zero == 0
  <2>1. v = (coef * f) % h
    BY <1>3 DEF ShiftedCoef
  <2>2. f \in Nat \ {0} /\ g \in Nat \ {0}
    BY <1>1, TenPower
  <2>3. /\ coef = hi * g + lo /\ hi \in 0 .. f - 1 /\ lo \in 0 .. g - 1
        /\ (coef * f) % h = lo * f /\ lo * f \in 0 .. h - f
    BY SplitAt
  <2>4. v = lo * f + zero /\ v \in 0 .. h - 1 /\ zero \in 0 .. f - 1 /\ lo \in Nat /\ hi \in Nat
    <3> HIDE DEF f, g, h, hi, lo, v
    <3> QED BY <1>1, <2>1, <2>2, <2>3
  <2>5. ASSUME NEW i \in 0 .. n - 1, i >= by PROVE Digit(v, i) = Digit(coef, i - by)
    <3> HIDE DEF hi, lo, n, v, zero
    <3>1. i \in Nat /\ i - by \in Nat /\ i - by < n - by
      BY <1>1, <2>5
    <3>2. Digit(v, i) = Digit(lo, i - by)
      BY <1>1, <2>4, <2>5, <3>1, DigitOnTop
    <3>3. Digit(hi * Power(10, n - by) + lo, i - by) = Digit(lo, i - by)
      BY <1>1, <2>3, <2>4, <3>1, DigitBelow
    <3> QED BY <2>3, <3>2, <3>3
  <2>6. ASSUME NEW i \in 0 .. n - 1, ~(i >= by) PROVE Digit(v, i) = 0
    <3> HIDE DEF hi, lo, n, v
    <3>1. i \in Nat /\ i < by
      BY <1>1, <2>6
    <3>2. zero \in Nat /\ Digit(zero, i) = 0
      BY <3>1, DigitIs
    <3> HIDE DEF zero
    <3>3. Digit(v, i) = Digit(zero, i)
      BY <1>1, <2>4, <3>1, DigitBelow
    <3> QED BY <3>2, <3>3
  <2> HIDE DEF v
  <2> QED BY <1>3, <2>4, <2>5, <2>6 DEF v
<1> QED BY <1>2, <1>3

LEMMA RotateDigits ==
  ASSUME NEW coef \in 0 .. Power(10, DECPMAX) - 1, NEW count \in 0 .. DECPMAX
  PROVE  LET v == RotatedCoef(coef, count)
         IN  /\ v \in 0 .. Power(10, DECPMAX) - 1
             /\ \A i \in 0 .. DECPMAX - 1 :
                  Digit(v, i) = Digit(coef, IF i >= count THEN i - count ELSE i + (DECPMAX - count))
<1> DEFINE n == DECPMAX
           v == RotatedCoef(coef, count)
           f == Power(10, count)
           g == Power(10, n - count)
           h == Power(10, n)
           hi == coef \div g
           lo == coef % g
<1>1. n \in Nat /\ count \in Nat /\ n - count \in Nat /\ h \in Nat \ {0} /\ f \in Nat \ {0} /\ g \in Nat
  <2>1. n \in Nat /\ count \in Nat /\ n - count \in Nat
    BY Format
  <2> QED BY <2>1, FullPower, TenPower
<1>2. /\ coef = hi * g + lo /\ hi \in 0 .. f - 1 /\ lo \in 0 .. g - 1
      /\ (coef * f) % h = lo * f /\ lo * f \in 0 .. h - f
  BY SplitAt
<1>3. v = lo * f + hi
  BY <1>2 DEF RotatedCoef
<1>4. hi \in Nat /\ lo \in Nat /\ v \in 0 .. h - 1
  <2> HIDE DEF f, g, h, hi, lo, v
  <2> QED BY <1>1, <1>2, <1>3
<1>5. ASSUME NEW i \in 0 .. n - 1, i >= count PROVE Digit(v, i) = Digit(coef, i - count)
  <2> HIDE DEF hi, lo, n, v
  <2>1. i \in Nat /\ i - count \in Nat /\ i - count < n - count
    BY <1>1, <1>5
  <2>2. Digit(v, i) = Digit(lo, i - count)
    BY <1>1, <1>2, <1>3, <1>4, <1>5, <2>1, DigitOnTop
  <2>3. Digit(hi * Power(10, n - count) + lo, i - count) = Digit(lo, i - count)
    BY <1>1, <1>2, <1>4, <2>1, DigitBelow
  <2> QED BY <1>2, <2>2, <2>3
<1>6. ASSUME NEW i \in 0 .. n - 1, ~(i >= count) PROVE Digit(v, i) = Digit(coef, i + (n - count))
  <2> HIDE DEF hi, lo, n, v
  <2>1. i \in Nat /\ i < count /\ i + (n - count) \in Nat /\ i + (n - count) >= n - count
        /\ (i + (n - count)) - (n - count) = i
    BY <1>1, <1>6
  <2>2. Digit(v, i) = Digit(hi, i)
    BY <1>1, <1>2, <1>3, <1>4, <2>1, DigitBelow
  <2>3. Digit(hi * Power(10, n - count) + lo, i + (n - count)) = Digit(hi, (i + (n - count)) - (n - count))
    BY <1>1, <1>2, <1>4, <2>1, DigitOnTop
  <2> QED BY <1>2, <2>1, <2>2, <2>3
<1> HIDE DEF v
<1> QED BY <1>4, <1>5, <1>6 DEF v

\* The digit that comes to place i when l moves by r, at From(r, around, i).
From(r, around, i) ==
  LET by == IF r.neg THEN -r.coef ELSE r.coef
  IN  IF around THEN (i - by) % DECPMAX ELSE i - by

IsMoved(v, l, r, around) ==
  \A i \in 0 .. DECPMAX - 1 :
    Digit(v, i) = IF From(r, around, i) \in 0 .. DECPMAX - 1
                  THEN Digit(l.coef, From(r, around, i)) ELSE 0

LEMMA RefMoveIs ==
  ASSUME NEW l \in decFloat, l.kind = "fin", NEW r \in decFloat, Counts(r, DECPMAX),
         NEW around \in BOOLEAN, NEW c, c.digits = DECPMAX,
         NEW v \in 0 .. Power(10, DECPMAX) - 1, IsMoved(v, l, r, around)
  PROVE  Ref!RefMove(AsNumber(l), AsNumber(r), around, c)
           = Ref!Exactly(Ref!Finite(l.neg, v, l.exp))
<1> DEFINE n == DECPMAX
           a == Ref!ToDigits(AsNumber(l), c)
           x == [i \in 0 .. n - 1 |-> Digit(l.coef, i)]
           from(i) == From(r, around, i)
           moved == [i \in DOMAIN a |-> IF from(i) \in DOMAIN a THEN a[from(i)] ELSE 0]
           d == [i \in 0 .. n - 1 |-> IF from(i) \in 0 .. n - 1 THEN Digit(l.coef, from(i)) ELSE 0]
<1>1. a = x
  BY LogicalIs
<1>2. moved = d
  <2>1. [i \in DOMAIN x |-> IF from(i) \in DOMAIN x THEN x[from(i)] ELSE 0] = d
    <3> HIDE DEF from
    <3> QED OBVIOUS
  <2> HIDE DEF a, x, from, d
  <2> QED BY <1>1, <2>1
<1>3. Ref!FromDigits(d, c) = v
  <2>1. \A i \in 0 .. n - 1 : d[i] = Digit(v, i)
    BY DEF IsMoved
  <2> HIDE DEF d
  <2> QED BY <2>1, DigitsMake
<1>4. Ref!Counts(AsNumber(r), c.digits) /\ AsNumber(l).kind # "inf"
  BY AsNumberFields DEF Counts, DFISINT, Ref!Counts
<1>5. Ref!RefMove(AsNumber(l), AsNumber(r), around, c)
        = Ref!Exactly(Ref!Finite(AsNumber(l).neg, Ref!FromDigits(moved, c), AsNumber(l).exp))
  <2>1. \A i : from(i) = IF around THEN (i - Ref!Signed(AsNumber(r))) % c.digits
                         ELSE i - Ref!Signed(AsNumber(r))
    BY AsNumberFields DEF From, Ref!Signed
  <2> HIDE DEF from
  <2> QED BY <1>4, <2>1 DEF Ref!RefMove
<1> HIDE DEF moved, d
<1> QED BY <1>2, <1>3, <1>5, AsNumberFields

LEMMA MovedAnswers ==
  ASSUME NEW l \in decFloat, l.kind = "fin", NEW r \in decFloat, Counts(r, DECPMAX),
         NEW around \in BOOLEAN, NEW mode, NEW s,
         NEW v \in 0 .. Power(10, DECPMAX) - 1, IsMoved(v, l, r, around)
  PROVE  LET ref == Ref!RefMove(AsNumber(l), AsNumber(r), around, FormatOf(mode))
         IN  /\ Pair(ref)
             /\ Answers(Quietly(Datum(l.neg, "fin", v, l.exp)), ref)
             /\ Answers(LayOut([Num(l) EXCEPT !.coef = v], s), ref)
<1> DEFINE c == FormatOf(mode)
           ref == Ref!RefMove(AsNumber(l), AsNumber(r), around, c)
           df == Datum(l.neg, "fin", v, l.exp)
<1>1. c.digits = DECPMAX
  BY FormatRange
<1> HIDE DEF c
<1>2. ref = Ref!Exactly(Ref!Finite(l.neg, v, l.exp))
  BY <1>1, RefMoveIs
<1>3. l.neg \in BOOLEAN /\ l.exp \in DECQTINY .. DECQMAX
  BY DatumParts
<1>4. AsNumber(df) = Ref!Finite(l.neg, v, l.exp)
  BY <1>3, FiniteIsDatum
<1>5. LayOut([Num(l) EXCEPT !.coef = v], s) = Quietly(df)
  <2>1. [Num(l) EXCEPT !.coef = v] = bcdnum(l.neg, v, l.exp)
    BY DEF Num, bcdnum
  <2>2. decFinalize(bcdnum(l.neg, v, l.exp), s) = Quietly(df)
    BY <1>3, FitIsFinal
  <2> HIDE DEF df
  <2> QED BY <2>1, <2>2 DEF LayOut, Quietly, Returns
<1> HIDE DEF df, ref
<1>6. Pair(ref) /\ Answers(Quietly(df), ref)
  BY <1>2, <1>4 DEF Answers, Pair, Quietly, Returns, Told, Ref!Exactly
<1> QED BY <1>5, <1>6 DEF df, ref, c

\* Places counted around the coefficient.
LEMMA AroundIs ==
  ASSUME NEW n \in Nat \ {0}, NEW i \in 0 .. n - 1
  PROVE  i % n = i /\ (i - n) % n = i /\ (i + n) % n = i
<1>1. (0 * n + i) % n = i /\ ((-1) * n + i) % n = i /\ (1 * n + i) % n = i
  BY DivUnique
<1>2. 0 * n + i = i /\ (-1) * n + i = i - n /\ 1 * n + i = i + n
  OBVIOUS
<1> QED BY <1>1, <1>2

LEMMA ShiftMoves ==
  ASSUME NEW l \in decFloat, NEW r \in decFloat, Counts(r, DECPMAX)
  PROVE  LET v == ShiftedCoef(l.coef, r.coef, r.neg)
         IN  v \in 0 .. Power(10, DECPMAX) - 1 /\ IsMoved(v, l, r, FALSE)
<1> DEFINE v == ShiftedCoef(l.coef, r.coef, r.neg)
           n == DECPMAX
           by == r.coef
<1>1. /\ l.coef \in 0 .. Power(10, DECPMAX) - 1 /\ by \in 0 .. n /\ r.neg \in BOOLEAN
      /\ n \in Nat
  BY DatumParts, FullPower, Format DEF Counts
<1>2. /\ v \in 0 .. Power(10, DECPMAX) - 1
      /\ \A i \in 0 .. n - 1 :
           Digit(v, i) = IF r.neg
                         THEN IF i + by < n THEN Digit(l.coef, i + by) ELSE 0
                         ELSE IF i >= by THEN Digit(l.coef, i - by) ELSE 0
  BY <1>1, ShiftDigits
<1> HIDE DEF v, n, by
<1>3. ASSUME NEW i \in 0 .. n - 1
      PROVE  Digit(v, i) = IF From(r, FALSE, i) \in 0 .. n - 1
                           THEN Digit(l.coef, From(r, FALSE, i)) ELSE 0
  <2>1. CASE r.neg
    <3>1. From(r, FALSE, i) = i + by
      <4>1. From(r, FALSE, i) = i - (-by)
        BY <2>1 DEF From, by
      <4>2. i - (-by) = i + by
        BY <1>1, Negation
      <4> QED BY <4>1, <4>2
    <3>2. Digit(v, i) = IF i + by < n THEN Digit(l.coef, i + by) ELSE 0
      BY <1>2, <2>1
    <3>3. i + by < n <=> i + by \in 0 .. n - 1
      BY <1>1
    <3> QED BY <3>1, <3>2, <3>3
  <2>2. CASE ~r.neg
    <3>1. From(r, FALSE, i) = i - by
      BY <2>2 DEF From, by
    <3>2. Digit(v, i) = IF i >= by THEN Digit(l.coef, i - by) ELSE 0
      BY <1>2, <2>2
    <3>3. i >= by <=> i - by \in 0 .. n - 1
      BY <1>1
    <3> QED BY <3>1, <3>2, <3>3
  <2> QED BY <2>1, <2>2
<1> QED BY <1>2, <1>3 DEF v, n, IsMoved

LEMMA RotateMoves ==
  ASSUME NEW l \in decFloat, NEW r \in decFloat, Counts(r, DECPMAX)
  PROVE  LET v == RotatedCoef(l.coef, IF r.neg THEN DECPMAX - r.coef ELSE r.coef)
         IN  v \in 0 .. Power(10, DECPMAX) - 1 /\ IsMoved(v, l, r, TRUE)
<1> DEFINE n == DECPMAX
           by == r.coef
           count == IF r.neg THEN n - by ELSE by
           v == RotatedCoef(l.coef, count)
           place(i) == IF i >= count THEN i - count ELSE i + (n - count)
<1>1. /\ l.coef \in 0 .. Power(10, DECPMAX) - 1 /\ by \in 0 .. n /\ r.neg \in BOOLEAN
      /\ n \in Nat \ {0} /\ count \in 0 .. n
  BY DatumParts, FullPower, Format DEF Counts
<1>2. /\ v \in 0 .. Power(10, DECPMAX) - 1
      /\ \A i \in 0 .. n - 1 : Digit(v, i) = Digit(l.coef, place(i))
  <2> HIDE DEF count
  <2> QED BY <1>1, RotateDigits
<1> HIDE DEF v
<1>3. ASSUME NEW i \in 0 .. n - 1
      PROVE  From(r, TRUE, i) = place(i) /\ place(i) \in 0 .. n - 1
  <2>1. place(i) \in 0 .. n - 1
    <3> HIDE DEF n, count
    <3> QED BY <1>1
  <2>2. CASE r.neg
    <3>1. From(r, TRUE, i) = (i - (-by)) % n
      BY <2>2 DEF From
    <3>2. count = n - by
      BY <2>2
    <3> HIDE DEF n, by, count
    <3>3. i - (-by) = place(i) \/ i - (-by) = place(i) + n
      BY <1>1, <3>2
    <3> HIDE DEF place
    <3> QED BY <1>1, <2>1, <3>1, <3>3, AroundIs
  <2>3. CASE ~r.neg
    <3>1. From(r, TRUE, i) = (i - by) % n
      BY <2>3 DEF From
    <3>2. count = by
      BY <2>3
    <3> HIDE DEF n, by, count
    <3>3. i - by = place(i) \/ i - by = place(i) - n
      BY <1>1, <3>2
    <3> HIDE DEF place
    <3> QED BY <1>1, <2>1, <3>1, <3>3, AroundIs
  <2> QED BY <1>1, <2>2, <2>3, <2>1
<1> HIDE DEF place
<1>4. IsMoved(v, l, r, TRUE)
  BY <1>2, <1>3 DEF IsMoved
<1> QED BY <1>2, <1>4 DEF v, count

LEMMA StaysPut ==
  ASSUME NEW l \in decFloat, NEW r \in decFloat, NEW around \in BOOLEAN,
         r.coef = 0 \/ (around /\ r.coef = DECPMAX)
  PROVE  IsMoved(l.coef, l, r, around)
<1> DEFINE n == DECPMAX
           by == IF r.neg THEN -r.coef ELSE r.coef
<1>1. n \in Nat \ {0} /\ by \in {0, n, -n} /\ (by # 0 => around)
  BY Format, Negation
<1>2. ASSUME NEW i \in 0 .. n - 1 PROVE From(r, around, i) = i
  <2>1. From(r, around, i) = IF around THEN (i - by) % n ELSE i - by
    BY DEF From
  <2> HIDE DEF n, by
  <2>2. i - by \in {i, i - n, i + n} /\ (~around => i - by = i)
    BY <1>1, Negation
  <2> QED BY <1>1, <2>1, <2>2, AroundIs
<1> HIDE DEF by
<1> QED BY <1>2 DEF IsMoved

\* The cases shift and rotate share.
LEMMA MoveAnswers ==
  ASSUME NEW l \in decFloat, NEW r \in decFloat, ~AnyNaN(l, r), NEW around \in BOOLEAN,
         NEW mode, NEW s, NEW out,
         ~Counts(r, DECPMAX) => out = decInvalid,
         Counts(r, DECPMAX) /\ l.kind = "inf" => out = Quietly(InfinityDatum(l.neg)),
         Counts(r, DECPMAX) /\ l.kind = "fin" =>
           \E v \in 0 .. Power(10, DECPMAX) - 1 :
             /\ IsMoved(v, l, r, around)
             /\ \/ out = Quietly(Datum(l.neg, "fin", v, l.exp))
                \/ out = LayOut([Num(l) EXCEPT !.coef = v], s)
  PROVE  LET ref == Ref!RefMove(AsNumber(l), AsNumber(r), around, FormatOf(mode))
         IN  Answers(out, ref) /\ Pair(ref)
<1> DEFINE c == FormatOf(mode)
           ref == Ref!RefMove(AsNumber(l), AsNumber(r), around, c)
<1>1. l.kind \in {"fin", "inf"} /\ l.neg \in BOOLEAN /\ (l.kind = "inf" => AsNumber(l) = Ref!Infinite(l.neg))
  <2>1. CoefLength(0) = 1
    BY LengthBounds
  <2> QED BY <2>1, AsNumberIs, InfiniteIs, DatumParts DEF AnyNaN, DFISNAN
<1>2. Counts(r, DECPMAX) <=> Ref!Counts(AsNumber(r), c.digits)
  BY AsNumberFields, FormatRange DEF Counts, DFISINT, Ref!Counts
<1>3. AsNumber(l).kind = l.kind
  BY AsNumberFields
<1>4. CASE ~Counts(r, DECPMAX)
  <2>1. ref = Ref!InvalidOperation
    BY <1>2, <1>4 DEF Ref!RefMove
  <2> HIDE DEF ref
  <2>2. Answers(out, ref) /\ Pair(ref)
    BY <1>4, <2>1, InvalidAnswers, ReferenceParts
  <2> QED BY <2>2 DEF ref, c
<1>5. CASE Counts(r, DECPMAX) /\ l.kind = "inf"
  <2>1. ref = Ref!Exactly(Ref!Infinite(l.neg))
    BY <1>1, <1>2, <1>3, <1>5 DEF Ref!RefMove
  <2> HIDE DEF ref
  <2>2. Answers(out, ref) /\ Pair(ref)
    BY <1>1, <1>5, <2>1, InfinityAnswers, ReferenceParts
  <2> QED BY <2>2 DEF ref, c
<1>6. CASE Counts(r, DECPMAX) /\ l.kind = "fin"
  <2>1. PICK v \in 0 .. Power(10, DECPMAX) - 1 :
          /\ IsMoved(v, l, r, around)
          /\ \/ out = Quietly(Datum(l.neg, "fin", v, l.exp))
             \/ out = LayOut([Num(l) EXCEPT !.coef = v], s)
    BY <1>6
  <2>2. /\ Pair(ref)
        /\ Answers(Quietly(Datum(l.neg, "fin", v, l.exp)), ref)
        /\ Answers(LayOut([Num(l) EXCEPT !.coef = v], s), ref)
    BY <1>6, <2>1, MovedAnswers
  <2> HIDE DEF ref
  <2>3. Answers(out, ref) /\ Pair(ref)
    BY <2>1, <2>2
  <2> QED BY <2>3 DEF ref, c
<1> QED BY <1>1, <1>4, <1>5, <1>6

\* Shift by all the digits there are is the exception: the exponent is lost.
LEMMA ShiftRight ==
  ASSUME NEW l \in decFloat, NEW r \in decFloat, NEW s \in Setting, r.coef # DECPMAX
  PROVE  Right("Shift", l, r, s.round, decFloatShift(l, r, s))
<1> DEFINE out == decFloatShift(l, r, s)
           v == ShiftedCoef(l.coef, r.coef, r.neg)
           no == FALSE
           ref == Ref!Reference("Shift", AsNumber(l), AsNumber(r), FormatOf(s.round))
           ref2 == Ref!RefMove(AsNumber(l), AsNumber(r), no, FormatOf(s.round))
<1>1. "Shift" \in Ordinary \cap Ref!Determined /\ ~Ref!Unary("Shift")
  BY DEF Ordinary, Ref!Promised, Ref!Determined, Ref!Logicals, Ref!Unary
<1>2. AnyNaN(l, r) => out = decNaNs(l, r)
  BY DEF decFloatShift
<1>3. ref = ref2
  BY DEF Ref!Reference, Ref!Logicals
<1>4. ASSUME Counts(r, DECPMAX), l.kind = "fin", ~AnyNaN(l, r)
      PROVE  \E w \in 0 .. Power(10, DECPMAX) - 1 :
               /\ IsMoved(w, l, r, no)
               /\ \/ out = Quietly(Datum(l.neg, "fin", w, l.exp))
                  \/ out = LayOut([Num(l) EXCEPT !.coef = w], s)
  <2>1. CASE r.coef = 0
    <3>1. out = Quietly(Datum(l.neg, "fin", l.coef, l.exp))
      BY <1>4, <2>1 DEF decFloatShift, DFISINF, decCanonical
    <3>2. IsMoved(l.coef, l, r, no) /\ l.coef \in 0 .. Power(10, DECPMAX) - 1
      BY <2>1, StaysPut, DatumParts
    <3> HIDE DEF out, no
    <3> QED BY <3>1, <3>2
  <2>2. CASE r.coef # 0
    <3>1. out = LayOut([Num(l) EXCEPT !.coef = v], s)
      <4>1. [Num(l) EXCEPT !.coef = ShiftedCoef(@, r.coef, r.neg)] = [Num(l) EXCEPT !.coef = v]
        BY DEF Num, bcdnum
      <4> HIDE DEF v
      <4> QED BY <1>4, <2>2, <4>1 DEF decFloatShift, DFISINF
    <3>2. IsMoved(v, l, r, no) /\ v \in 0 .. Power(10, DECPMAX) - 1
      BY <1>4, ShiftMoves
    <3> HIDE DEF out, no, v
    <3> QED BY <3>1, <3>2
  <2> QED BY <2>1, <2>2
<1>5. ~AnyNaN(l, r) => Answers(out, ref2) /\ Pair(ref2)
  <2> SUFFICES ASSUME ~AnyNaN(l, r) PROVE Answers(out, ref2) /\ Pair(ref2)
    OBVIOUS
  <2>1. ~Counts(r, DECPMAX) => out = decInvalid
    BY DEF decFloatShift
  <2>2. Counts(r, DECPMAX) /\ l.kind = "inf" => out = Quietly(InfinityDatum(l.neg))
    BY DEF decFloatShift, DFISINF, decInfinity
  <2>3. no \in BOOLEAN
    OBVIOUS
  <2> HIDE DEF out, no
  <2> QED BY <1>4, <2>1, <2>2, <2>3, MoveAnswers
<1> HIDE DEF out, ref2
<1> QED BY <1>1, <1>2, <1>3, <1>5, BinaryRight DEF out

LEMMA RotateRight ==
  ASSUME NEW l \in decFloat, NEW r \in decFloat, NEW s \in Setting
  PROVE  Right("Rotate", l, r, s.round, decFloatRotate(l, r, s))
<1> DEFINE out == decFloatRotate(l, r, s)
           count == IF r.neg THEN DECPMAX - r.coef ELSE r.coef
           v == RotatedCoef(l.coef, count)
           yes == TRUE
           ref == Ref!Reference("Rotate", AsNumber(l), AsNumber(r), FormatOf(s.round))
           ref2 == Ref!RefMove(AsNumber(l), AsNumber(r), yes, FormatOf(s.round))
<1>1. "Rotate" \in Ordinary \cap Ref!Determined /\ ~Ref!Unary("Rotate")
  BY DEF Ordinary, Ref!Promised, Ref!Determined, Ref!Logicals, Ref!Unary
<1>2. AnyNaN(l, r) => out = decNaNs(l, r)
  BY DEF decFloatRotate
<1>3. ref = ref2
  BY DEF Ref!Reference, Ref!Logicals
<1>4. ASSUME Counts(r, DECPMAX), l.kind = "fin", ~AnyNaN(l, r)
      PROVE  \E w \in 0 .. Power(10, DECPMAX) - 1 :
               /\ IsMoved(w, l, r, yes)
               /\ \/ out = Quietly(Datum(l.neg, "fin", w, l.exp))
                  \/ out = LayOut([Num(l) EXCEPT !.coef = w], s)
  <2>1. CASE r.coef \in {0, DECPMAX}
    <3>1. out = Quietly(Datum(l.neg, "fin", l.coef, l.exp))
      BY <1>4, <2>1 DEF decFloatRotate, DFISINF, decCanonical
    <3>2. IsMoved(l.coef, l, r, yes) /\ l.coef \in 0 .. Power(10, DECPMAX) - 1
      BY <2>1, StaysPut, DatumParts
    <3> HIDE DEF out, yes
    <3> QED BY <3>1, <3>2
  <2>2. CASE r.coef \notin {0, DECPMAX}
    <3>1. out = LayOut([Num(l) EXCEPT !.coef = v], s)
      <4>1. [Num(l) EXCEPT !.coef = RotatedCoef(@, IF r.neg THEN DECPMAX - r.coef ELSE r.coef)]
              = [Num(l) EXCEPT !.coef = v]
        BY DEF Num, bcdnum
      <4> HIDE DEF v
      <4> QED BY <1>4, <2>2, <4>1 DEF decFloatRotate, DFISINF
    <3>2. IsMoved(v, l, r, yes) /\ v \in 0 .. Power(10, DECPMAX) - 1
      BY <1>4, RotateMoves
    <3> HIDE DEF out, yes, v
    <3> QED BY <3>1, <3>2
  <2> QED BY <2>1, <2>2
<1>5. ~AnyNaN(l, r) => Answers(out, ref2) /\ Pair(ref2)
  <2> SUFFICES ASSUME ~AnyNaN(l, r) PROVE Answers(out, ref2) /\ Pair(ref2)
    OBVIOUS
  <2>1. ~Counts(r, DECPMAX) => out = decInvalid
    BY DEF decFloatRotate
  <2>2. Counts(r, DECPMAX) /\ l.kind = "inf" => out = Quietly(InfinityDatum(l.neg))
    BY DEF decFloatRotate, DFISINF, decInfinity
  <2>3. yes \in BOOLEAN
    OBVIOUS
  <2> HIDE DEF out, yes
  <2> QED BY <1>4, <2>1, <2>2, <2>3, MoveAnswers
<1> HIDE DEF out, ref2
<1> QED BY <1>1, <1>2, <1>3, <1>5, BinaryRight DEF out

-----------------------------------------------------------------------------
(***************************************************************************)
(* Fused multiply-add.                                                     *)
(***************************************************************************)
\* An addend below the other one's digits may be reduced to its first digit.
FirstDigitIs(y, first) == first \in 0 .. 9 /\ (first = 0 <=> y = 0)

LEMMA FirstDigits == ASSUME NEW y \in Nat PROVE FirstDigitIs(y, FirstDigit(y))
<1> DEFINE m == CoefLength(y)
           f == Power(10, m - 1)
           first == y \div f
<1>1. m \in Nat \ {0} /\ m - 1 \in Nat
  BY LengthBounds
<1>2. f \in Nat \ {0} /\ Power(10, m) = 10 * f
  <2>1. f \in Nat \ {0}
    <3> HIDE DEF m
    <3> QED BY <1>1, TenPower
  <2>2. Power(10, (m - 1) + 1) = 10 * Power(10, m - 1)
    <3> HIDE DEF m
    <3> QED BY <1>1, PowerNext
  <2>3. (m - 1) + 1 = m
    BY <1>1
  <2> QED BY <2>1, <2>2, <2>3
<1>3. y < Power(10, m) /\ (y # 0 => f <= y)
  BY LengthBounds
<1> HIDE DEF f, m
<1>4. first \in 0 .. 9 /\ (first = 0 <=> y = 0)
  <2> DEFINE rest == y % f
  <2>1. y = first * f + rest /\ rest \in 0 .. f - 1 /\ first \in Nat
    BY <1>2
  <2> HIDE DEF first, rest
  <2>2. first < 10
    <3> SUFFICES ASSUME first >= 10 PROVE FALSE
      BY <2>1
    <3>1. first * f >= 10 * f
      BY <1>2, <2>1
    <3> QED BY <1>2, <1>3, <2>1, <3>1
  <2>3. first = 0 => first * f = 0
    BY <1>2
  <2>4. y = 0 => first = 0
    <3> SUFFICES ASSUME y = 0, first >= 1 PROVE FALSE
      BY <2>1
    <3>1. first * f >= f
      BY <1>2, <2>1
    <3> QED BY <1>2, <2>1, <3>1
  <2> QED BY <1>2, <1>3, <2>1, <2>2, <2>3, <2>4
<1> QED BY <1>4 DEF first, f, m, FirstDigit, FirstDigitIs

\* The addends of a fused multiply-add are reduced where that is safe: they
\* do not overlap, or nothing is taken away.
Clear(hi, lo) == CoefLength(lo.coef) <= hi.exp - lo.exp \/ Reduced(hi, lo) = lo

LEMMA ReducedSum ==
  ASSUME NEW hn \in BOOLEAN, NEW x \in Nat \ {0}, NEW he \in Int,
         NEW ln \in BOOLEAN, NEW y \in Nat, NEW le \in Int, he > le,
         CoefLength(y) <= he - le,
         CoefLength(x) + (he - le) - CoefLength(y) > DECPMAX + 2,
         NEW s, s.round \in Roundings
  PROVE  LET hi == bcdnum(hn, x, he)
             lo == bcdnum(ln, y, le)
             e == ReducedExp(hi)
         IN  decFinalize(AlignedSum(hi, bcdnum(ln, FirstDigit(y), e), s), s)
               = decFinalize(SumNum(hn, x * Power(10, he - le), ln, y, le, s.round), s)
<1> DEFINE mode == s.round
           hi == bcdnum(hn, x, he)
           e == ReducedExp(hi)
           first == FirstDigit(y)
           lx == CoefLength(x)
           ly == CoefLength(y)
           d == he - le
           p == IF lx > DECPMAX THEN 0 ELSE DECPMAX - lx + 1
           k1 == d - p
           k2 == (he - e) - p
           te == he - p
           a == x * Power(10, p)
<1>1. lx \in Nat \ {0} /\ ly \in Nat \ {0} /\ d \in Nat \ {0} /\ DECPMAX \in Nat
  BY LengthBounds, Format
<1>2. p \in Nat /\ (p = 0 => lx > DECPMAX) /\ (p # 0 => p = (DECPMAX - lx) + 1)
      /\ lx + p > DECPMAX
  <2> HIDE DEF lx
  <2> QED BY <1>1
<1>3. e \in Int /\ k2 \in {2, 3}
  <2>1. e = Least(he, he + (lx - DECPMAX)) - 3
    BY NumFields DEF ReducedExp
  <2> HIDE DEF e, lx
  <2>2. (lx >= DECPMAX => e = he - 3) /\ (lx < DECPMAX => e = ((he + lx) - DECPMAX) - 3)
    BY <1>1, <2>1 DEF Least
  <2> QED BY <1>1, <2>2
<1>4. k1 \in Nat \ {0} /\ k1 >= ly /\ (lx + p = DECPMAX + 1 => k1 > ly)
  <2>1. ly <= d /\ (lx + d) - ly > DECPMAX + 2
    BY <1>1
  <2> HIDE DEF lx, ly, d
  <2> QED BY <1>1, <2>1
<1>5. te \in Int /\ te - k1 = le /\ te - k2 = e /\ he >= e
  <2> HIDE DEF e
  <2> QED BY <1>1, <1>2, <1>3
<1>6. first \in 0 .. 9 /\ (first = 0 <=> y = 0)
  BY FirstDigits DEF FirstDigitIs
<1>7. /\ a \in Nat /\ a >= Power(10, DECPMAX) /\ CoefLength(a) = lx + p
      /\ a < Power(10, DECPMAX + 1) => lx + p = DECPMAX + 1
  <2>1. CoefLength(a) = lx + p /\ a \in Nat
    <3> HIDE DEF p
    <3> QED BY <1>2, PaddedLength
  <2> HIDE DEF a, lx, p
  <2>2. DECPMAX + 1 \in Nat \ {0} /\ DECPMAX \in Nat \ {0}
    BY Format
  <2>3. a < Power(10, DECPMAX + 1) <=> CoefLength(a) <= DECPMAX + 1
    BY <2>1, <2>2, Fits
  <2>4. a < Power(10, DECPMAX) <=> CoefLength(a) <= DECPMAX
    BY <2>1, <2>2, Fits
  <2> QED BY <1>1, <1>2, <2>1, <2>2, <2>3, <2>4, FullPower
<1>8. /\ y \in 0 .. Power(10, k1) - 1 /\ (k1 > ly => 2 * y < Power(10, k1))
  <2> DEFINE g == Power(10, ly)
             f == Power(10, k1)
  <2>1. y < g
    BY LengthBounds
  <2> HIDE DEF ly, k1
  <2>2. g \in Nat \ {0} /\ f \in Nat \ {0} /\ g <= f
    BY <1>1, <1>4, TenPower, PowerMono
  <2>3. k1 > ly => 10 * g <= f
    BY <1>1, <1>4, PowerGap
  <2> HIDE DEF g, f
  <2> QED BY <2>1, <2>2, <2>3 DEF f
<1>9. first \in 0 .. Power(10, k2) - 1 /\ 2 * first < Power(10, k2)
  <2>1. Power(10, 2) = 100 /\ Power(10, 3) = 1000
    <3>1. Power(10, 1 + 1) = 10 * Power(10, 1) /\ Power(10, 2 + 1) = 10 * Power(10, 2) /\ Power(10, 1) = 10
      BY PowerNext, PowerOne
    <3> QED BY <3>1
  <2> HIDE DEF first, k2
  <2> QED BY <1>3, <1>6, <2>1
<1>10. /\ x * Power(10, d) = a * Power(10, k1) /\ x * Power(10, he - e) = a * Power(10, k2)
  <2>1. d = p + k1 /\ he - e = p + k2 /\ k2 \in Nat /\ k1 \in Nat
    <3> HIDE DEF e, p
    <3> QED BY <1>1, <1>2, <1>3, <1>4
  <2> HIDE DEF p, k1, k2, d, e
  <2>2. Power(10, p + k1) = Power(10, p) * Power(10, k1)
    BY <1>2, <2>1, PowerSum
  <2>5. Power(10, p + k2) = Power(10, p) * Power(10, k2)
    BY <1>2, <2>1, PowerSum
  <2> DEFINE f == Power(10, p)
             g1 == Power(10, k1)
             g2 == Power(10, k2)
  <2>3. f \in Nat /\ g1 \in Nat /\ g2 \in Nat
    BY <1>2, <2>1, TenPower
  <2> HIDE DEF f, g1, g2
  <2>4. x * (f * g1) = (x * f) * g1 /\ x * (f * g2) = (x * f) * g2
    BY <2>3
  <2> QED BY <2>1, <2>2, <2>4, <2>5 DEF f, g1, g2
<1>11. AlignedSum(hi, bcdnum(ln, first, e), s) = SumNum(hn, x * Power(10, he - e), ln, first, e, mode)
  <2> HIDE DEF e, first
  <2>1. first \in Nat
    BY <1>6
  <2>2. AlignedExactly(hn, x, he, ln, first, e, s)
    BY <1>3, <1>5, <2>1, AlignedIsExact
  <2> QED BY <2>2 DEF AlignedExactly
<1> HIDE DEF e, first, hi, a, k1, k2, te, d, lx, ly, p
<1>12. decFinalize(SumNum(hn, a * Power(10, k1), ln, y, te - k1, mode), s)
         = decFinalize(SumNum(hn, a * Power(10, k2), ln, first, te - k2, mode), s)
  <2>1. k2 \in Nat \ {0} /\ mode \in Roundings /\ mode = s.round
    BY <1>3
  <2>2. a < Power(10, DECPMAX + 1) => 2 * y < Power(10, k1) /\ 2 * first < Power(10, k2)
    BY <1>4, <1>7, <1>8, <1>9
  <2> HIDE DEF mode
  <2>3. TailedAlike(hn, a, k1, y, k2, first, ln, te, mode, s)
    BY <1>4, <1>5, <1>6, <1>7, <1>8, <1>9, <2>1, <2>2, TailSums
  <2> QED BY <2>3 DEF TailedAlike
<1>13. SumNum(hn, x * Power(10, d), ln, y, le, mode) = SumNum(hn, a * Power(10, k1), ln, y, te - k1, mode)
  BY <1>5, <1>10
<1>14. SumNum(hn, x * Power(10, he - e), ln, first, e, mode)
         = SumNum(hn, a * Power(10, k2), ln, first, te - k2, mode)
  BY <1>5, <1>10
<1> QED BY <1>11, <1>12, <1>13, <1>14 DEF hi, d, e, first

LEMMA FusedRight ==
  ASSUME NEW hn \in BOOLEAN, NEW x \in Nat, NEW he \in Int,
         NEW ln \in BOOLEAN, NEW y \in Nat, NEW le \in Int, he >= le,
         NEW s, s.round \in Roundings,
         he # le => Clear(bcdnum(hn, x, he), bcdnum(ln, y, le))
  PROVE  LET n == SumNum(hn, x * Power(10, he - le), ln, y, le, s.round)
         IN  Answers(decFinalize(Fused(bcdnum(hn, x, he), bcdnum(ln, y, le), s), s),
                     RoundedSum(n, s.round))
<1> DEFINE mode == s.round
           hi == bcdnum(hn, x, he)
           lo == bcdnum(ln, y, le)
           long == x * Power(10, he - le)
           n == SumNum(hn, long, ln, y, le, mode)
           floor == (mode = "FLOOR")
<1>1. /\ hi.neg = hn /\ hi.coef = x /\ hi.exp = he
      /\ lo.neg = ln /\ lo.coef = y /\ lo.exp = le
  BY NumFields
<1>2. Power(10, he - le) \in Nat /\ long \in Nat
  <2> DEFINE f == Power(10, he - le)
  <2>1. f \in Nat
    BY TenPower
  <2> HIDE DEF f
  <2> QED BY <2>1 DEF f
<1>3. Answers(decFinalize(n, s), RoundedSum(n, mode))
  <2> HIDE DEF long
  <2> QED BY <1>2, SumAnswers
<1>4. CASE x = 0
  <2>1. long = 0
    BY <1>2, <1>4
  <2>2. Fused(hi, lo, s) = IF hn # ln /\ y = 0 THEN bcdnum(floor, 0, le) ELSE lo
    <3> HIDE DEF hi, lo
    <3> QED BY <1>1, <1>4 DEF Fused, FuseZero, DiffSign, ZeroSum, floor
  <2>3. n = IF hn # ln /\ y = 0 THEN bcdnum(floor, 0, le) ELSE lo
    <3>1. n = SumNum(hn, 0, ln, y, le, mode)
      BY <2>1
    <3>2. 0 + y = y /\ ~(0 > y) /\ y - 0 = y /\ (0 < y <=> y # 0)
      OBVIOUS
    <3> HIDE DEF n, long
    <3> QED BY <3>1, <3>2 DEF SumNum, floor
  <2> HIDE DEF n, hi, lo
  <2> QED BY <1>3, <2>2, <2>3 DEF hi, lo, n
<1>5. CASE x # 0 /\ (he = le \/ Reduced(hi, lo) = lo)
  <2>1. AlignedExactly(hn, x, he, ln, y, le, s)
    BY AlignedIsExact
  <2>2. AlignedSum(hi, lo, s) = n
    BY <2>1 DEF AlignedExactly
  <2>3. Fused(hi, lo, s) = AlignedSum(hi, lo, s)
    <3> HIDE DEF hi, lo
    <3> QED BY <1>1, <1>5 DEF Fused
  <2> HIDE DEF n, hi, lo
  <2> QED BY <1>3, <2>2, <2>3 DEF hi, lo, n
<1>6. CASE x # 0 /\ he # le /\ Reduced(hi, lo) # lo
  <2> DEFINE e == ReducedExp(hi)
             short == bcdnum(ln, FirstDigit(y), e)
  <2>1. CoefLength(y) <= he - le
    <3> HIDE DEF hi, lo
    <3> QED BY <1>1, <1>6 DEF Clear, hi, lo
  <2>2. CoefLength(x) + (he - le) - CoefLength(y) > DECPMAX + 2
    <3>1. CoefLength(x) + he - le - CoefLength(y) > DECPMAX + 2
      <4> HIDE DEF hi, lo
      <4> QED BY <1>1, <1>6 DEF Reduced
    <3> DEFINE lx == CoefLength(x)
               ly == CoefLength(y)
    <3>2. lx \in Nat /\ ly \in Nat
      BY LengthBounds
    <3> HIDE DEF lx, ly
    <3> QED BY <3>1, <3>2, Format DEF lx, ly
  <2>3. Reduced(hi, lo) = short
    <3> DEFINE m == [lo EXCEPT !.coef = FirstDigit(lo.coef), !.exp = e]
    <3>1. lo \in BcdNum /\ hi \in BcdNum
      BY BcdNumIs
    <3>2. Reduced(hi, lo) = m
      <4> HIDE DEF hi, lo
      <4> QED BY <1>6 DEF Reduced
    <3>3. FirstDigit(y) \in Nat
      BY FirstDigits DEF FirstDigitIs
    <3>4. e \in Int
      BY <1>1, LengthBounds, Format DEF ReducedExp, Least
    <3> HIDE DEF hi, lo, e
    <3>5. m \in BcdNum /\ m.neg = ln /\ m.coef = FirstDigit(y) /\ m.exp = e
      BY <1>1, <3>1, <3>3, <3>4 DEF BcdNum
    <3> HIDE DEF m
    <3>6. m = bcdnum(m.neg, m.coef, m.exp)
      BY <3>5 DEF BcdNum, bcdnum
    <3> QED BY <3>2, <3>5, <3>6
  <2>4. Fused(hi, lo, s) = AlignedSum(hi, short, s)
    <3> HIDE DEF hi, lo, short
    <3> QED BY <1>1, <1>6, <2>3 DEF Fused
  <2>5. decFinalize(AlignedSum(hi, short, s), s) = decFinalize(n, s)
    BY <1>6, <2>1, <2>2, ReducedSum
  <2> HIDE DEF n, hi, lo
  <2> QED BY <1>3, <2>4, <2>5 DEF hi, lo, n
<1> QED BY <1>4, <1>5, <1>6

\* The product would reach beyond what the format keeps, and the addend below.
Swallows(l, r, f) ==
  LET product == decFiniteMultiply(l, r)
  IN  /\ product.exp - f.exp \in 1 .. CoefLength(f.coef) - 1
      /\ Reduced(product, Num(f)) # Num(f)

LEMMA FusesClear ==
  ASSUME NEW l \in decFloat, NEW r \in decFloat, NEW f \in decFloat,
         l.kind = "fin", r.kind = "fin", f.kind = "fin", ~Swallows(l, r, f)
  PROVE  LET p == decFiniteMultiply(l, r)
         IN  /\ p.exp > f.exp => Clear(p, Num(f))
             /\ f.exp > p.exp => Clear(Num(f), p)
<1> DEFINE p == decFiniteMultiply(l, r)
           b == Num(f)
           lp == CoefLength(p.coef)
           lb == CoefLength(f.coef)
<1>1. p \in BcdNum /\ b \in BcdNum /\ b.coef = f.coef /\ b.exp = f.exp
  BY ProductIs, NumIs, NumFields DEF Num
<1>2. lb \in Nat /\ lb <= DECPMAX
  BY FiniteParts, Fits, LengthBounds, Format, FullPower
<1> HIDE DEF p
<1>3. lp \in Nat /\ p.exp \in Int /\ f.exp \in Int
  BY <1>1, LengthBounds DEF BcdNum
<1>4. ASSUME p.exp > f.exp PROVE Clear(p, b)
  <2>1. ~(p.exp - f.exp \in 1 .. lb - 1) \/ Reduced(p, b) = b
    BY DEF Swallows, p
  <2> HIDE DEF b, lb
  <2>2. ~(p.exp - f.exp \in 1 .. lb - 1) => lb <= p.exp - f.exp
    BY <1>2, <1>3, <1>4
  <2> QED BY <1>1, <2>1, <2>2 DEF Clear, lb
<1>5. ASSUME f.exp > p.exp PROVE Clear(b, p)
  <2>1. Reduced(b, p) # p => lb + f.exp - p.exp - lp > DECPMAX + 2
    BY <1>1 DEF Reduced
  <2> HIDE DEF b, lb, lp
  <2>2. lb + f.exp - p.exp - lp > DECPMAX + 2 => lp <= f.exp - p.exp
    BY <1>2, <1>3, Format
  <2> QED BY <1>1, <2>1, <2>2 DEF Clear, lp
<1> QED BY <1>4, <1>5 DEF p, b

\* The product of finite factors, as the reference has it.
ProductOf(l, r) == Ref!Finite(l.neg # r.neg, l.coef * r.coef, l.exp + r.exp)

LEMMA FiniteFMARight ==
  ASSUME NEW l \in decFloat, NEW r \in decFloat, NEW f \in decFloat,
         l.kind = "fin", r.kind = "fin", f.kind = "fin", ~Swallows(l, r, f),
         NEW s, s.round \in Roundings
  PROVE  Answers(decFloatFMA(l, r, f, s),
                 Ref!RefAdd(ProductOf(l, r), AsNumber(f), FormatOf(s.round)))
<1> DEFINE mode == s.round
           p == decFiniteMultiply(l, r)
           b == Num(f)
           q == ProductOf(l, r)
           n == AsNumber(f)
<1>1. decFloatFMA(l, r, f, s) = decFinalize(FMAFinite(p, b, s), s)
  BY DEF decFloatFMA, AnyNaN, DFISNAN, AnySpecial, DFISSPECIAL
<1>2. /\ p \in BcdNum /\ p = bcdnum(p.neg, p.coef, p.exp)
      /\ b = bcdnum(f.neg, f.coef, f.exp) /\ b.exp = f.exp
  BY ProductIs, NumFields DEF Num, decFiniteMultiply
<1>3. /\ q.neg = p.neg /\ q.coef = p.coef /\ q.exp = p.exp /\ q.kind = "fin"
      /\ p.neg \in BOOLEAN /\ p.coef \in Nat /\ p.exp \in Int
  BY <1>2, NumFields DEF ProductOf, Ref!Finite, Ref!NumberWith, decFiniteMultiply, DiffSign,
     BcdNum
<1>4. /\ n.neg = f.neg /\ n.coef = f.coef /\ n.exp = f.exp /\ n.kind = "fin"
      /\ f.neg \in BOOLEAN /\ f.coef \in Nat /\ f.exp \in Int
  BY FiniteParts, AsNumberFields DEF Finite
<1>5. /\ p.exp > f.exp => Clear(p, b)
      /\ f.exp > p.exp => Clear(b, p)
  BY FusesClear
<1>6. Finite(q) /\ Finite(n)
  <2> HIDE DEF p, q, n
  <2> QED BY <1>3, <1>4 DEF Finite
<1> HIDE DEF p, b, q, n
<1>7. CASE p.exp >= f.exp
  <2> DEFINE m == SumNum(p.neg, p.coef * Power(10, p.exp - f.exp), f.neg, f.coef, f.exp, mode)
  <2>1. FMAFinite(p, b, s) = Fused(p, b, s)
    BY <1>2, <1>7 DEF FMAFinite
  <2>2. p.exp # f.exp => Clear(bcdnum(p.neg, p.coef, p.exp), bcdnum(f.neg, f.coef, f.exp))
    BY <1>2, <1>3, <1>4, <1>5, <1>7
  <2>3. Answers(decFinalize(Fused(bcdnum(p.neg, p.coef, p.exp), bcdnum(f.neg, f.coef, f.exp), s), s),
                RoundedSum(m, mode))
    BY <1>3, <1>4, <1>7, <2>2, FusedRight
  <2>4. Ref!RefAdd(q, n, FormatOf(mode))
          = RoundedSum(SumNum(q.neg, q.coef * Power(10, q.exp - n.exp), n.neg, n.coef, n.exp, mode),
                       mode)
    BY <1>3, <1>4, <1>6, <1>7, RefAddIs
  <2> HIDE DEF m
  <2> QED BY <1>1, <1>2, <1>3, <1>4, <2>1, <2>3, <2>4 DEF m, q, n
<1>8. CASE ~(p.exp >= f.exp)
  <2> DEFINE m == SumNum(f.neg, f.coef * Power(10, f.exp - p.exp), p.neg, p.coef, p.exp, mode)
  <2>0. f.exp > p.exp /\ f.exp >= p.exp
    BY <1>3, <1>4, <1>8
  <2>1. FMAFinite(p, b, s) = Fused(b, p, s)
    BY <1>2, <1>8 DEF FMAFinite
  <2>2. Clear(bcdnum(f.neg, f.coef, f.exp), bcdnum(p.neg, p.coef, p.exp))
    BY <1>2, <1>5, <2>0
  <2>3. Answers(decFinalize(Fused(bcdnum(f.neg, f.coef, f.exp), bcdnum(p.neg, p.coef, p.exp), s), s),
                RoundedSum(m, mode))
    BY <1>3, <1>4, <2>0, <2>2, FusedRight
  <2>4. Ref!RefAdd(q, n, FormatOf(mode))
          = RoundedSum(SumNum(n.neg, n.coef * Power(10, n.exp - q.exp), q.neg, q.coef, q.exp, mode),
                       mode)
    BY <1>3, <1>4, <1>6, <2>0, RefAddIs
  <2> HIDE DEF m
  <2> QED BY <1>1, <1>2, <1>3, <1>4, <2>1, <2>3, <2>4 DEF m, q, n
<1> QED BY <1>7, <1>8 DEF q, n

\* A sum of finite or infinite numbers, one of them infinite.
LEMMA InfiniteFMARight ==
  ASSUME NEW l \in decFloat, NEW r \in decFloat, NEW f \in decFloat,
         ~AnyNaN(l, r), ~DFISNAN(f), AnySpecial(l, r) \/ DFISSPECIAL(f), NEW c
  PROVE  LET out == FMAInfinite(l, r, f)
             p == IF AnySpecial(l, r) THEN Ref!Infinite(l.neg # r.neg) ELSE ProductOf(l, r)
         IN  IF InfinityTimesZero(l, r) THEN out = decInvalid
             ELSE Answers(out, Ref!RefAdd(p, AsNumber(f), c))
<1> DEFINE out == FMAInfinite(l, r, f)
           neg == l.neg # r.neg
           p == IF AnySpecial(l, r) THEN Ref!Infinite(neg) ELSE ProductOf(l, r)
           n == AsNumber(f)
           ref == Ref!RefAdd(p, n, c)
<1>1. n.kind = f.kind /\ n.neg = f.neg /\ f.neg \in BOOLEAN /\ f.kind \in {"fin", "inf"}
      /\ neg \in BOOLEAN
  BY AsNumberFields, DatumParts DEF DFISNAN
<1>2. /\ p.neg = neg
      /\ p.kind = IF AnySpecial(l, r) THEN "inf" ELSE "fin"
  BY DEF Ref!Infinite, ProductOf, Ref!Finite, Ref!NumberWith
<1>3. f.kind = "inf" \/ AnySpecial(l, r)
  BY <1>1 DEF DFISSPECIAL
<1> HIDE DEF p, n, neg
<1>4. CASE InfinityTimesZero(l, r)
  BY <1>4 DEF FMAInfinite
<1>5. CASE ~InfinityTimesZero(l, r) /\ ~AnySpecial(l, r)
  <2>1. out = Quietly(InfinityDatum(f.neg))
    BY <1>5 DEF FMAInfinite, decInfinity
  <2>2. ref = Ref!Exactly(Ref!Infinite(f.neg))
    BY <1>1, <1>2, <1>3, <1>5 DEF Ref!RefAdd
  <2> HIDE DEF out, ref
  <2> QED BY <1>1, <1>5, <2>1, <2>2, InfinityAnswers DEF out, ref, p, n, neg
<1>6. CASE ~InfinityTimesZero(l, r) /\ AnySpecial(l, r) /\ f.kind = "inf" /\ f.neg # neg
  <2>1. out = decInvalid
    BY <1>6 DEF FMAInfinite, DFISINF, DiffSign, neg
  <2>2. ref = Ref!InvalidOperation
    BY <1>1, <1>2, <1>6 DEF Ref!RefAdd
  <2> HIDE DEF out, ref
  <2> QED BY <1>6, <2>1, <2>2, InvalidAnswers DEF out, ref, p, n, neg
<1>7. CASE ~InfinityTimesZero(l, r) /\ AnySpecial(l, r) /\ ~(f.kind = "inf" /\ f.neg # neg)
  <2>1. out = Quietly(InfinityDatum(neg))
    BY <1>7 DEF FMAInfinite, DFISINF, DiffSign, neg
  <2>2. ref = Ref!Exactly(Ref!Infinite(neg))
    BY <1>1, <1>2, <1>7 DEF Ref!RefAdd
  <2> HIDE DEF out, ref
  <2> QED BY <1>1, <1>7, <2>1, <2>2, InfinityAnswers DEF out, ref, p, n, neg
<1> QED BY <1>4, <1>5, <1>6, <1>7

LEMMA IsZeroIs ==
  ASSUME NEW df
  PROVE  Ref!IsZero(AsNumber(df)) <=> DFISZERO(df)
BY AsNumberFields DEF Ref!IsZero, DFISZERO

\* What the reference makes of a NaN that is a factor, the addend being none.
LEMMA FactorPropagates ==
  ASSUME NEW l \in decFloat, NEW r \in decFloat, AnyNaN(l, r),
         l.kind # "snan", r.kind # "snan", NEW f, ~DFISNAN(f), NEW mode
  PROVE  LET factor == Ref!PropagateNaN(AsNumber(l), AsNumber(r), FormatOf(mode))
         IN  /\ Ref!PropagateNaN(factor.n, AsNumber(f), FormatOf(mode)) = factor
             /\ Ref!IsNaN(factor.n)
<1> DEFINE out == decNaNs(l, r)
           factor == Ref!PropagateNaN(AsNumber(l), AsNumber(r), FormatOf(mode))
           n == AsNumber(f)
           x == factor.n
<1>1. /\ AsNumber(out.n) = x /\ out.n.kind = "nan" /\ out.n \in decFloat
      /\ AsNumber(out.n) = Ref!NumberWith(out.n.neg, out.n.kind, out.n.coef, out.n.exp)
  BY PropagatesRight
<1>2. x.neg = out.n.neg /\ x.kind = "nan" /\ x.coef = out.n.coef /\ x.exp = out.n.exp
  BY <1>1, AsNumberFields
<1>3. out.n.exp = 0 /\ out.n.coef \in 0 .. Power(10, DECPMAX - 1) - 1
  BY <1>1, DatumParts
<1>4. x.coef % Power(10, DECPMAX) = x.coef
  <2> HIDE DEF out, x
  <2> QED BY <1>2, <1>3, FullPower
<1>5. factor = [n |-> x, status |-> {}]
  <2>1. AsNumber(l).kind # "snan" /\ AsNumber(r).kind # "snan"
    BY AsNumberFields
  <2> QED BY <2>1 DEF Ref!PropagateNaN
<1>6. n.kind \notin {"nan", "snan"}
  BY AsNumberFields DEF DFISNAN
<1>7. x = Ref!NumberWith(x.neg, "nan", x.coef, 0)
  BY <1>1, <1>2, <1>3
<1> HIDE DEF factor, n, x, out
<1>8. Ref!PropagateNaN(x, n, FormatOf(mode))
        = [n |-> Ref!NumberWith(x.neg, "nan", x.coef % Power(10, DECPMAX), 0), status |-> {}]
  BY <1>2, <1>6, FormatRange, SamePowers DEF Ref!PropagateNaN
<1>9. Ref!IsNaN(x)
  BY <1>2 DEF Ref!IsNaN
<1> QED BY <1>4, <1>5, <1>7, <1>8, <1>9 DEF factor, x, n

LEMMA FactorNaNRight ==
  ASSUME NEW l \in decFloat, NEW r \in decFloat, AnyNaN(l, r), NEW mode
  PROVE  LET out == decNaNs(l, r)
             res == [n |-> AsNumber(out.n), status |-> Told(out.status) \cup {}]
         IN  Ref!SameNaN(res, Ref!PropagateNaN(AsNumber(l), AsNumber(r), FormatOf(mode)))
<1> DEFINE out == decNaNs(l, r)
           nan == Ref!PropagateNaN(AsNumber(l), AsNumber(r), FormatOf(mode))
           res == [n |-> AsNumber(out.n), status |-> Told(out.status) \cup {}]
<1>1. /\ AsNumber(out.n) = nan.n /\ out.status = nan.status
      /\ AsNumber(out.n) = Ref!NumberWith(out.n.neg, out.n.kind, out.n.coef, out.n.exp)
      /\ out.status \in {{}, {"Invalid_operation"}}
  BY PropagatesRight
<1> HIDE DEF out, nan
<1>2. Told(out.status) \cup {} = out.status
  BY <1>1 DEF Told
<1>3. res.n = AsNumber(out.n) /\ res.status = out.status
  BY <1>2
<1> HIDE DEF res
<1>4. res.n.neg = out.n.neg /\ res.n.kind = out.n.kind
      /\ res.n.coef = out.n.coef /\ res.n.exp = out.n.exp
  BY <1>3, AsNumberFields
<1>5. Ref!SameNaN(res, nan)
  BY <1>1, <1>3, <1>4 DEF Ref!SameNaN
<1> QED BY <1>5 DEF res, nan, out

\* A fused multiply-add rounds once, unless a long product swallows its addend.
LEMMA FMARight ==
  ASSUME NEW l \in decFloat, NEW r \in decFloat, NEW f \in decFloat, ~DFISNAN(f),
         (~AnySpecial(l, r) /\ ~DFISSPECIAL(f)) => ~Swallows(l, r, f),
         NEW s, s.round \in Roundings
  PROVE  RightFMA(l, r, f, s.round, decFloatFMA(l, r, f, s))
<1> DEFINE mode == s.round
           c == FormatOf(mode)
           out == decFloatFMA(l, r, f, s)
           ln == AsNumber(l)
           rn == AsNumber(r)
           fn == AsNumber(f)
           res(flags) == [n |-> AsNumber(out.n), status |-> Told(out.status) \cup flags]
<1>1. /\ ln.kind = l.kind /\ ln.neg = l.neg /\ ln.coef = l.coef /\ ln.exp = l.exp
      /\ rn.kind = r.kind /\ rn.neg = r.neg /\ rn.coef = r.coef /\ rn.exp = r.exp
      /\ fn.kind = f.kind
      /\ l.kind \in {"fin", "inf", "nan", "snan"} /\ r.kind \in {"fin", "inf", "nan", "snan"}
      /\ f.kind \in {"fin", "inf", "nan", "snan"}
  BY AsNumberFields, DatumParts
<1>2. /\ Ref!IsZero(ln) <=> DFISZERO(l)
      /\ Ref!IsZero(rn) <=> DFISZERO(r)
      /\ ~Ref!IsNaN(fn)
      /\ Ref!IsNaN(ln) \/ Ref!IsNaN(rn) <=> AnyNaN(l, r)
  BY IsZeroIs, IsNaNIs DEF AnyNaN
<1>3. {} \in Untold
  BY DEF Untold
<1> DEFINE factor == Ref!PropagateNaN(ln, rn, c)
           infinite == ln.kind = "inf" \/ rn.kind = "inf"
           undefined == infinite /\ (Ref!IsZero(ln) \/ Ref!IsZero(rn))
           product == IF Ref!IsNaN(ln) \/ Ref!IsNaN(rn) THEN factor.n
                      ELSE IF infinite THEN Ref!Infinite(ln.neg # rn.neg)
                      ELSE Ref!Finite(ln.neg # rn.neg, ln.coef * rn.coef, ln.exp + rn.exp)
           correct(x) == Ref!CorrectFMA(ln, rn, fn, c, x)
<1>4. \A x : correct(x) <=>
        CASE ln.kind = "snan" \/ rn.kind = "snan" -> Ref!SameNaN(x, factor)
          [] ln.kind # "snan" /\ rn.kind # "snan" /\ undefined -> x = Ref!InvalidOperation
          [] OTHER -> IF Ref!IsNaN(product) \/ Ref!IsNaN(fn)
                      THEN Ref!SameNaN(x, Ref!PropagateNaN(product, fn, c))
                      ELSE x = Ref!RefAdd(product, fn, c)
  BY DEF Ref!CorrectFMA
<1> HIDE DEF correct
<1> SUFFICES \E flags \in Untold : correct(res(flags))
  BY DEF RightFMA, correct
<1>5. CASE AnyNaN(l, r)
  <2>1. out = decNaNs(l, r)
    BY <1>5 DEF decFloatFMA, FMANaN, DFISNAN
  <2>2. Ref!SameNaN(res({}), factor)
    <3> HIDE DEF out
    <3> QED BY <1>5, <2>1, FactorNaNRight
  <2>3. CASE l.kind = "snan" \/ r.kind = "snan"
    <3> HIDE DEF res, factor, product, undefined, infinite
    <3> QED BY <1>1, <1>3, <1>4, <2>2, <2>3
  <2>4. CASE l.kind # "snan" /\ r.kind # "snan"
    <3>1. Ref!PropagateNaN(factor.n, fn, c) = factor /\ Ref!IsNaN(factor.n)
      BY <1>5, <2>4, FactorPropagates
    <3>2. product = factor.n
      BY <1>2, <1>5
    <3>3. ~undefined
      <4>1. (l.kind = "nan" \/ r.kind = "nan")
        BY <1>5, <2>4 DEF AnyNaN, DFISNAN
      <4> QED BY <1>1, <4>1 DEF Ref!IsZero
    <3> HIDE DEF res, factor, product, undefined, infinite, ln, rn, fn, c
    <3> QED BY <1>1, <1>3, <1>4, <2>2, <2>4, <3>1, <3>2, <3>3
  <2> QED BY <2>3, <2>4
<1>6. CASE ~AnyNaN(l, r) /\ InfinityTimesZero(l, r)
  <2>1. undefined /\ ln.kind # "snan" /\ rn.kind # "snan"
    BY <1>1, <1>2, <1>6 DEF InfinityTimesZero, DFISINF, AnyNaN, DFISNAN
  <2>2. out = decInvalid
    BY <1>6 DEF decFloatFMA, FMAInfinite, InfinityTimesZero, DFISINF, AnySpecial, DFISSPECIAL
  <2>3. PICK flags \in Untold : res(flags) = Ref!InvalidOperation
    BY <2>2, InvalidAnswers, ReferenceParts, AnswersMeet
  <2> HIDE DEF res, factor, product, undefined, infinite, ln, rn, fn, c
  <2> QED BY <1>4, <2>1, <2>3
<1>7. CASE ~AnyNaN(l, r) /\ ~InfinityTimesZero(l, r)
  <2> DEFINE ref == Ref!RefAdd(product, fn, c)
  <2>1. /\ ln.kind # "snan" /\ rn.kind # "snan" /\ ~undefined /\ ~Ref!IsNaN(product)
        /\ product = IF AnySpecial(l, r) THEN Ref!Infinite(l.neg # r.neg) ELSE ProductOf(l, r)
    <3>1. ln.kind \in {"fin", "inf"} /\ rn.kind \in {"fin", "inf"}
      BY <1>1, <1>7 DEF AnyNaN, DFISNAN
    <3>2. infinite <=> AnySpecial(l, r)
      BY <1>1, <3>1 DEF AnySpecial, DFISSPECIAL
    <3>3. ~undefined
      BY <1>1, <1>2, <1>7 DEF InfinityTimesZero, DFISINF, Ref!IsZero
    <3>4. product = IF AnySpecial(l, r) THEN Ref!Infinite(l.neg # r.neg) ELSE ProductOf(l, r)
      <4> HIDE DEF infinite
      <4> QED BY <1>1, <1>2, <1>7, <3>2 DEF ProductOf
    <3>5. ~Ref!IsNaN(product)
      <4> HIDE DEF product
      <4> QED BY <3>4 DEF Ref!IsNaN, ProductOf, Ref!Infinite, Ref!Finite, Ref!NumberWith
    <3> QED BY <3>1, <3>3, <3>4, <3>5
  <2> HIDE DEF product
  <2>2. Answers(out, ref)
    <3>1. CASE AnySpecial(l, r) \/ DFISSPECIAL(f)
      <4>1. out = FMAInfinite(l, r, f)
        BY <1>7, <3>1 DEF decFloatFMA
      <4> HIDE DEF out
      <4> QED BY <1>7, <2>1, <3>1, <4>1, InfiniteFMARight
    <3>2. CASE ~(AnySpecial(l, r) \/ DFISSPECIAL(f))
      <4>1. l.kind = "fin" /\ r.kind = "fin" /\ f.kind = "fin" /\ ~Swallows(l, r, f)
        BY <3>2 DEF AnySpecial, DFISSPECIAL
      <4> QED BY <2>1, <3>2, <4>1, FiniteFMARight
    <3> QED BY <3>1, <3>2
  <2>3. Pair(ref)
    <3> HIDE DEF fn, c
    <3>1. \A neg, coef, e : Pair(Ref!RoundTo(neg, coef, e, c))
      BY ReferencePairs
    <3> QED BY <3>1, ReferenceParts DEF Ref!RefAdd
  <2> HIDE DEF ref
  <2>4. PICK flags \in Untold : res(flags) = ref
    BY <2>2, <2>3, AnswersMeet
  <2> HIDE DEF res, factor, undefined, infinite, ln, rn, fn, c
  <2> QED BY <1>2, <1>4, <2>1, <2>4 DEF ref
<1> QED BY <1>5, <1>6, <1>7
-----------------------------------------------------------------------------
(***************************************************************************)
(* A program's calls.                                                      *)
(***************************************************************************)
Proved == {"Add", "Subtract", "Multiply", "Quantize", "ScaleB", "LogB",
           "Plus", "Minus", "Abs", "Reduce", "ToIntegralExact", "ToIntegralValue",
           "And", "Or", "Xor", "Invert", "Shift", "Rotate",
           "Compare", "CompareSignal", "CompareTotal", "CompareTotalMag",
           "Max", "Min", "MaxMag", "MinMag", "FMA"}

\* The calls of Proved on which decFloats differ from decNumbers by design.
Excepted(op, l, r, mode) ==
  \/ op \in {"Plus", "Minus"} /\ mode = "FLOOR" /\ DFISZERO(l)
  \/ op = "Shift" /\ r.coef = DECPMAX
  \/ PayloadsMisread(op, l, r)

\* The fused multiply-adds of which the result is promised.
Promising(l, r, f) ==
  ~DFISNAN(f) /\ ((~AnySpecial(l, r) /\ ~DFISSPECIAL(f)) => ~Swallows(l, r, f))

\* What a call returned is right; only a fused multiply-add has a third operand.
RightAnswer(op, l, r, f, mode, out) ==
  IF op = "FMA" THEN Promising(l, r, f) => RightFMA(l, r, f, mode, out)
  ELSE ~Excepted(op, l, r, mode) => Right(op, l, r, mode, out)

LastCallRight ==
  last.op \in Proved =>
    RightAnswer(last.op, last.l, last.r, last.f, last.round,
                [n |-> last.n, status |-> last.status])

\* A call that is right is remembered as such.
LEMMA RightCallWith ==
  ASSUME NEW res, NEW op, NEW l, NEW r, NEW f, NEW out, CallWith(op, res, l, r, f, out),
         RightAnswer(op, l, r, f, round, out)
  PROVE  LastCallRight'
<1> DEFINE int == 0
           n == out.n
           flags == out.status
           told == [n |-> n, status |-> flags]
<1>1. Report(op, l, r, f, n, int, flags)
  BY DEF CallWith
<1>2. RightAnswer(op, l, r, f, round, told)
  <2>1. Right(op, l, r, round, out) => Right(op, l, r, round, told)
    BY DEF Right
  <2>2. RightFMA(l, r, f, round, out) => RightFMA(l, r, f, round, told)
    BY DEF RightFMA
  <2> QED BY <2>1, <2>2 DEF RightAnswer
<1> HIDE DEF int, n, flags
<1>3. /\ last'.op = op /\ last'.l = l /\ last'.r = r /\ last'.f = f /\ last'.n = n
      /\ last'.round = round /\ last'.status = flags
  BY <1>1 DEF Report
<1>4. [n |-> last'.n, status |-> last'.status] = told
  BY <1>3
<1> HIDE DEF told
<1> QED BY <1>2, <1>3, <1>4 DEF LastCallRight

LEMMA RightCall ==
  ASSUME NEW res, NEW op, op # "FMA", NEW l, NEW r, NEW f, NEW out,
         CallWith(op, res, l, r, f, out),
         ~Excepted(op, l, r, round) => Right(op, l, r, round, out)
  PROVE  LastCallRight'
BY RightCallWith DEF RightAnswer

\* One that LastCallRight is not about.
LEMMA AnyCall ==
  ASSUME NEW op, op \notin Proved, NEW l, NEW r, NEW f, NEW n, NEW int, NEW flags,
         Report(op, l, r, f, n, int, flags)
  PROVE  LastCallRight'
<1>1. last'.op = op
  BY DEF Report
<1> QED BY <1>1 DEF LastCallRight

LEMMA OtherCallRight ==
  ASSUME NEW res, NEW op, op \notin Proved, NEW l, NEW r, NEW f, NEW out,
         CallWith(op, res, l, r, f, out)
  PROVE  LastCallRight'
BY AnyCall DEF CallWith

\* Arithmetic.
LEMMA CalculatesRight ==
  ASSUME TypeOK, FloatAdd \/ FloatSubtract \/ FloatMultiply \/ FloatQuantize \/ FloatScaleB
  PROVE  LastCallRight'
<1> DEFINE s == set
<1>0. Args \subseteq decFloat /\ s \in Setting /\ s.round = round /\ round \in Roundings
  BY ArgsAreFloats DEF TypeOK
<1> HIDE DEF s
<1>1. CASE FloatAdd
  BY <1>0, <1>1, AddRight, RightCall DEF FloatAdd, Binary, s
<1>2. CASE FloatSubtract
  BY <1>0, <1>2, SubtractRight, RightCall DEF FloatSubtract, Binary, s
<1>3. CASE FloatMultiply
  BY <1>0, <1>3, MultiplyRight, RightCall DEF FloatMultiply, Binary, s
<1>4. CASE FloatQuantize
  BY <1>0, <1>4, QuantizeRight, RightCall DEF FloatQuantize, Binary, s
<1>5. CASE FloatScaleB
  BY <1>0, <1>5, ScaleBRight, RightCall DEF FloatScaleB, Binary, s
<1> QED BY <1>1, <1>2, <1>3, <1>4, <1>5

\* Comparisons and the choice of the larger or smaller.
LEMMA ComparesAsPromised ==
  ASSUME TypeOK,
         FloatCompare \/ FloatCompareSignal \/ FloatCompareTotal \/
           FloatCompareTotalMag \/ FloatMax \/ FloatMin \/ FloatMaxMag \/ FloatMinMag
  PROVE  LastCallRight'
<1> DEFINE s == set
<1>0. Args \subseteq decFloat /\ s \in Setting /\ s.round = round
  BY ArgsAreFloats
<1> HIDE DEF s
<1>1. CASE FloatCompare
  BY <1>0, <1>1, CompareRight, RightCall DEF FloatCompare, Binary, s
<1>2. CASE FloatCompareSignal
  BY <1>0, <1>2, CompareSignalRight, RightCall DEF FloatCompareSignal, Binary, s
<1>3. CASE FloatCompareTotal
  BY <1>0, <1>3, CompareTotalRight, RightCall DEF FloatCompareTotal, Binary, s, Excepted
<1>4. CASE FloatCompareTotalMag
  BY <1>0, <1>4, CompareTotalMagRight, RightCall DEF FloatCompareTotalMag, Binary, s, Excepted
<1>5. CASE FloatMax
  BY <1>0, <1>5, ExtremesRight, RightCall DEF FloatMax, Binary, s
<1>6. CASE FloatMin
  BY <1>0, <1>6, ExtremesRight, RightCall DEF FloatMin, Binary, s
<1>7. CASE FloatMaxMag
  BY <1>0, <1>7, ExtremesRight, RightCall DEF FloatMaxMag, Binary, s
<1>8. CASE FloatMinMag
  BY <1>0, <1>8, ExtremesRight, RightCall DEF FloatMinMag, Binary, s
<1> QED BY <1>1, <1>2, <1>3, <1>4, <1>5, <1>6, <1>7, <1>8

\* Operations of one operand.
LEMMA ChangesRight ==
  ASSUME TypeOK, FloatPlus \/ FloatMinus \/ FloatAbs \/ FloatToIntegralExact \/
                   FloatToIntegralValue \/ FloatLogB \/ FloatReduce
  PROVE  LastCallRight'
<1> DEFINE s == set
<1>0. Args \subseteq decFloat /\ s \in Setting /\ s.round = round /\ round \in Roundings
  BY ArgsAreFloats DEF TypeOK
<1> HIDE DEF s
<1>1. CASE FloatPlus
  BY <1>0, <1>1, SignsRight, RightCall DEF FloatPlus, Unary, s, Excepted
<1>2. CASE FloatMinus
  BY <1>0, <1>2, SignsRight, RightCall DEF FloatMinus, Unary, s, Excepted
<1>3. CASE FloatAbs
  BY <1>0, <1>3, SignsRight, RightCall DEF FloatAbs, Unary, s
<1>4. CASE FloatToIntegralExact
  BY <1>0, <1>4, IntegralRight, RightCall DEF FloatToIntegralExact, Unary, s
<1>5. CASE FloatToIntegralValue
  BY <1>0, <1>5, IntegralRight, RightCall DEF FloatToIntegralValue, Unary, s
<1>6. CASE FloatLogB
  BY <1>0, <1>6, LogBRight, RightCall DEF FloatLogB, Unary, s
<1>7. CASE FloatReduce
  BY <1>0, <1>7, ReduceRight, RightCall DEF FloatReduce, Unary, s
<1> QED BY <1>1, <1>2, <1>3, <1>4, <1>5, <1>6, <1>7

\* Operations on digits.
LEMMA MovesRight ==
  ASSUME TypeOK,
         FloatAnd \/ FloatOr \/ FloatXor \/ FloatInvert \/ FloatShift \/ FloatRotate
  PROVE  LastCallRight'
<1> DEFINE s == set
<1>0. Args \subseteq decFloat /\ s \in Setting /\ s.round = round
  BY ArgsAreFloats
<1> HIDE DEF s
<1>1. CASE FloatAnd
  BY <1>0, <1>1, LogicalsRight, RightCall DEF FloatAnd, Binary, s
<1>2. CASE FloatOr
  BY <1>0, <1>2, LogicalsRight, RightCall DEF FloatOr, Binary, s
<1>3. CASE FloatXor
  BY <1>0, <1>3, LogicalsRight, RightCall DEF FloatXor, Binary, s
<1>4. CASE FloatInvert
  BY <1>0, <1>4, LogicalsRight, RightCall DEF FloatInvert, Unary, s
<1>5. CASE FloatShift
  BY <1>0, <1>5, ShiftRight, RightCall DEF FloatShift, Binary, s, Excepted
<1>6. CASE FloatRotate
  BY <1>0, <1>6, RotateRight, RightCall DEF FloatRotate, Binary, s
<1> QED BY <1>1, <1>2, <1>3, <1>4, <1>5, <1>6

\* Fused multiply-adds.
LEMMA FusesRight == ASSUME TypeOK, FloatFMA PROVE LastCallRight'
<1> DEFINE s == set
<1>1. s.round = round /\ round \in Roundings
  BY ArgsAreFloats DEF TypeOK
<1>2. PICK res \in Reg, t \in Triples :
        CallWith("FMA", res, t[1], t[2], t[3], decFloatFMA(t[1], t[2], t[3], s))
  BY DEF FloatFMA
<1>3. t[1] \in decFloat /\ t[2] \in decFloat /\ t[3] \in decFloat
  BY FloatCalculatorAssumption
<1> HIDE DEF s
<1>4. RightAnswer("FMA", t[1], t[2], t[3], round, decFloatFMA(t[1], t[2], t[3], s))
  BY <1>1, <1>3, FMARight DEF RightAnswer, Promising
<1> QED BY <1>2, <1>4, RightCallWith

\* The others.
LEMMA OthersRight ==
  ASSUME FloatDivide \/ FloatDivideInteger \/ FloatRemainder \/ FloatRemainderNear \/
           FloatNextPlus \/ FloatNextMinus \/ FloatNextToward \/
           FloatCopySign \/ FloatCopyAbs \/ FloatCopyNegate \/ FloatToInt32 \/
           FloatSetCoefficient \/ FloatSetExponent \/ FloatFromWider \/ FloatPacked
  PROVE  LastCallRight'
<1>1. CASE FloatDivide
  BY <1>1, OtherCallRight DEF FloatDivide, Binary, Proved
<1>2. CASE FloatDivideInteger
  BY <1>2, OtherCallRight DEF FloatDivideInteger, Binary, Proved
<1>3. CASE FloatRemainder
  BY <1>3, OtherCallRight DEF FloatRemainder, Binary, Proved
<1>4. CASE FloatRemainderNear
  BY <1>4, OtherCallRight DEF FloatRemainderNear, Binary, Proved
<1>6. CASE FloatNextPlus
  BY <1>6, OtherCallRight DEF FloatNextPlus, Unary, Proved
<1>7. CASE FloatNextMinus
  BY <1>7, OtherCallRight DEF FloatNextMinus, Unary, Proved
<1>8. CASE FloatNextToward
  BY <1>8, OtherCallRight DEF FloatNextToward, Binary, Proved
<1>15. CASE FloatCopySign
  BY <1>15, OtherCallRight DEF FloatCopySign, Binary, Proved
<1>16. CASE FloatCopyAbs
  BY <1>16, OtherCallRight DEF FloatCopyAbs, Unary, Proved
<1>17. CASE FloatCopyNegate
  BY <1>17, OtherCallRight DEF FloatCopyNegate, Unary, Proved
<1>19. CASE FloatToInt32
  <2>1. PICK df \in Args, exact \in BOOLEAN, unsign \in BOOLEAN :
          LET out == decToInt32(df, set, round, exact, unsign)
          IN  Report(IF unsign THEN "ToUInt32" ELSE "ToInt32", df, df, df, df, out.n,
                     out.status)
    BY <1>19 DEF FloatToInt32
  <2> DEFINE op == IF unsign THEN "ToUInt32" ELSE "ToInt32"
  <2>2. op \notin Proved
    BY DEF Proved
  <2> HIDE DEF op
  <2> QED BY <2>1, <2>2, AnyCall DEF op
<1>20. CASE FloatSetCoefficient
  BY <1>20, OtherCallRight DEF FloatSetCoefficient, Proved
<1>21. CASE FloatSetExponent
  BY <1>21, OtherCallRight DEF FloatSetExponent, Proved
<1>22. CASE FloatFromWider
  BY <1>22, OtherCallRight DEF FloatFromWider, Proved
<1>23. CASE FloatPacked
  BY <1>23, OtherCallRight DEF FloatPacked, Unpack, Proved
<1> QED BY <1>1, <1>2, <1>3, <1>4, <1>6, <1>7, <1>8, <1>15, <1>16, <1>17, <1>19, <1>20, <1>21, <1>22, <1>23

LEMMA CallsRight == TypeOK /\ LastCallRight /\ [Next]_vars => LastCallRight'
<1> SUFFICES ASSUME TypeOK, LastCallRight, [Next]_vars PROVE LastCallRight'
  OBVIOUS
<1>1. CASE UNCHANGED vars
  BY <1>1 DEF vars, LastCallRight
<1>2. CASE Next
  BY <1>2, CalculatesRight, ComparesAsPromised, ChangesRight, MovesRight, FusesRight, OthersRight DEF Next
<1> QED BY <1>1, <1>2

LEMMA RightAlways == Spec => []LastCallRight
<1>1. Init => LastCallRight
  BY DEF Init, NoCall, LastCallRight, Proved
<1> QED BY <1>1, CallsRight, FloatTypeOKAlways, PTL DEF Spec

LEMMA RightIsCorrect == LastCallRight => (last.op \in Proved => FloatsAreCorrect)
<1> SUFFICES ASSUME LastCallRight, last.op \in Proved, ~Differs PROVE FloatsAreCorrect
  BY DEF FloatsAreCorrect
<1> DEFINE out == [n |-> last.n, status |-> last.status]
<1>1. RightAnswer(last.op, last.l, last.r, last.f, last.round, out)
  BY DEF LastCallRight
<1>2. FormatContext = FormatOf(last.round)
  BY DEF FormatContext, FormatOf
<1>3. CASE last.op = "FMA"
  <2>1. Promising(last.l, last.r, last.f)
    BY <1>3 DEF Differs, SwallowsAddend, Promising, Swallows
  <2>2. RightFMA(last.l, last.r, last.f, last.round, out)
    BY <1>1, <1>3, <2>1 DEF RightAnswer
  <2>3. "FMA" \notin Ref!Promised
    BY DEF Ref!Promised, Ref!Determined
  <2> QED BY <1>2, <1>3, <2>2, <2>3 DEF RightFMA, FloatsAreCorrect
<1>4. CASE last.op # "FMA"
  <2>1. ~Excepted(last.op, last.l, last.r, last.round)
    BY DEF Differs, Excepted
  <2>2. Right(last.op, last.l, last.r, last.round, out)
    BY <1>1, <1>4, <2>1 DEF RightAnswer
  <2> QED BY <1>2, <1>4, <2>2 DEF Right, FloatsAreCorrect
<1> QED BY <1>3, <1>4

\* In every format and after any calls, each of the operations of Proved, but for
\* the calls of Differs, returns the exact result of its operands, rounded once in
\* the mode of the set, and the flags of that rounding: what the shortcuts of
\* decBasic.c and decCommon.c (sticky digits, the clamped gap, strips and folds)
\* leave of it.  Total orders of NaNs are among them only when the payloads differ
\* in the last four digits at most; in decDouble and decQuad others may come out
\* the wrong way round (PayloadsMisread).
THEOREM FloatsAreCorrectAlways == Spec => [](last.op \in Proved => FloatsAreCorrect)
BY RightAlways, RightIsCorrect, PTL
=============================================================================
