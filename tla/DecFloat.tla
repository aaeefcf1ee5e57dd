------------------------------ MODULE DecFloat ------------------------------
(***************************************************************************)
(* The fixed-size formats (decCommon.c, included by decSingle.c,           *)
(* decDouble.c and decQuad.c): what a decFloat holds, decFinalize, which   *)
(* rounds a number into the format, and the conversions from and to its    *)
(* parts, packed decimal and the next wider format.                        *)
(*                                                                         *)
(* A decFloat is abstracted to the number its words encode and to whether  *)
(* they are the canonical encoding of it: other encodings have redundant   *)
(* declets, or bits that count for nothing in an infinity or a NaN.        *)
(***************************************************************************)
EXTENDS DecTypes

CONSTANTS DECPMAX,    \* digits of a coefficient (7, 16 or 34)
          DECEMAX     \* highest adjusted exponent (96, 384 or 6144)

ASSUME FormatAssumption == DECPMAX \in Nat \ {0, 1} /\ DECEMAX \in Nat /\ DECPMAX <= DECEMAX

DECEMIN == 1 - DECEMAX
DECQTINY == DECEMIN - (DECPMAX - 1)     \* lowest exponent
DECQMAX == DECEMAX - (DECPMAX - 1)      \* highest exponent

\* Finite numbers use all of the words; an infinity has no digits that count,
\* and a NaN no exponent and, in place of the first digit, its kind.
FiniteDatum == [neg: BOOLEAN, kind: {"fin"}, coef: 0 .. Power(10, DECPMAX) - 1,
                exp: DECQTINY .. DECQMAX, canonical: BOOLEAN]
InfiniteDatum == [neg: BOOLEAN, kind: {"inf"}, coef: {0}, exp: {0}, canonical: BOOLEAN]
PayloadDatum == [neg: BOOLEAN, kind: {"nan", "snan"}, coef: 0 .. Power(10, DECPMAX - 1) - 1,
                 exp: {0}, canonical: BOOLEAN]

decFloat == FiniteDatum \cup InfiniteDatum \cup PayloadDatum

Encoding(neg, kind, coef, exp, canonical) ==
  [neg |-> neg, kind |-> kind, coef |-> coef, exp |-> exp, canonical |-> canonical]

Datum(neg, kind, coef, exp) == Encoding(neg, kind, coef, exp, TRUE)

decFloatZero == Datum(FALSE, "fin", 0, 0)
NaNDatum == Datum(FALSE, "nan", 0, 0)
InfinityDatum(neg) == Datum(neg, "inf", 0, 0)
Nmax(neg) == Datum(neg, "fin", Power(10, DECPMAX) - 1, DECQMAX)

\* The decNumber of the same value.
AsNumber(df) == [neg |-> df.neg, kind |-> df.kind, digits |-> decGetDigits(df.coef, DECPMAX),
               coef |-> df.coef, exp |-> df.exp]

\* What a function returns: a decFloat and the flags it adds to the status.
Returns(df, status) == [n |-> df, status |-> status]
Quietly(df) == Returns(df, {})

DFISSPECIAL(df) == df.kind # "fin"
DFISNAN(df) == df.kind \in {"nan", "snan"}
DFISINF(df) == df.kind = "inf"
DFISZERO(df) == df.kind = "fin" /\ df.coef = 0
DFISINT(df) == df.kind = "fin" /\ df.exp = 0

\* A finite number is repaired by decoding and encoding its declets; an
\* infinity is made anew; a NaN loses the unused bits of its exponent.
decCanonical(df) == Datum(df.neg, df.kind, df.coef, df.exp)
decFloatIsCanonical(df) == df.canonical

\* Significant digits; one for a zero and an infinity.
decFloatDigits(df) == IF DFISINF(df) THEN 1 ELSE decGetDigits(df.coef, DECPMAX)
-----------------------------------------------------------------------------
(***************************************************************************)
(* decFinalize.  A bcdnum is a sign, an exponent (or a special value in    *)
(* its place, here the kind) and a coefficient of any length.              *)
(***************************************************************************)
bcdnum(neg, coef, exp) == [neg |-> neg, kind |-> "fin", coef |-> coef, exp |-> exp]

\* Digits of a coefficient with its leading zeros stripped.
CoefLength(coef) == Places(coef, 10)

\* A 0 or a 5 with nonzero digits after it must not look like an exact one.
DECSTICKYTAB(digit) == IF digit \in {0, 5} THEN digit + 1 ELSE digit

Sticky(digit, rest) == IF rest = 0 THEN digit ELSE DECSTICKYTAB(digit)

\* The digit to round at when drop digits go, and all beyond it.
Reround(coef, drop) ==
  IF drop > CoefLength(coef) THEN Sticky(0, coef)
  ELSE Sticky((coef \div Power(10, drop - 1)) % 10, coef % Power(10, drop - 1))

Kept(coef, drop) == IF drop >= CoefLength(coef) THEN 0 ELSE coef \div Power(10, drop)

\* Is the coefficient, kept to its digit lsd, to be incremented?
Bumps(round, neg, reround, lsd) ==
  CASE round = "HALF_EVEN" -> reround > 5 \/ (reround = 5 /\ lsd % 2 = 1)
    [] round = "DOWN" -> FALSE
    [] round = "HALF_DOWN" -> reround > 5
    [] round = "HALF_UP" -> reround >= 5
    [] round = "UP" -> reround > 0
    [] round = "CEILING" -> ~neg /\ reround > 0
    [] round = "FLOOR" -> neg /\ reround > 0
    [] round = "05UP" -> reround > 0 /\ lsd \in {0, 5}

\* (mutant) The carry out of the first digit is not looked at.
NotCarried(num) == num

\* All nines carry into one digit more: a full-length coefficient stays one.
Carried(num) == IF num.coef = Power(10, DECPMAX)
                THEN bcdnum(num.neg, Power(10, DECPMAX - 1), num.exp + 1) ELSE num

Bump(num, by) == Carried(bcdnum(num.neg, num.coef + by, num.exp))

\* Underflow is an inexact result that was below Nmin before the increment.
RoundFlags(num) ==
  {"Inexact"} \cup (IF num.exp < DECEMIN /\ num.exp + CoefLength(num.coef) - 1 < DECEMIN
                    THEN {"Underflow"} ELSE {})

RoundedAt(num, reround, set) ==
  IF reround = 0 THEN [num |-> num, status |-> {}]
  ELSE [num |-> Bump(num, IF Bumps(set.round, num.neg, reround, num.coef % 10) THEN 1 ELSE 0),
        status |-> RoundFlags(num)]

RoundOff(num, drop, set) ==
  IF drop <= 0 THEN [num |-> num, status |-> {}]
  ELSE RoundedAt(bcdnum(num.neg, Kept(num.coef, drop), num.exp + drop),
                 Reround(num.coef, drop), set)

\* (mutant) Only the length matters, and not how low the exponent is.
DropLong(num) == CoefLength(num.coef) - DECPMAX

\* How many digits must go: those too many, and those below the lowest exponent.
Drop(num) == LET long == CoefLength(num.coef) - DECPMAX
                 low == DECQTINY - num.exp
             IN  IF long < low THEN low ELSE long

\* Does a number too big become Nmax rather than infinite?
Confined(round, neg) == \/ round \in {"DOWN", "05UP"}
                        \/ round = "CEILING" /\ neg
                        \/ round = "FLOOR" /\ ~neg

Overflowed(num, set) ==
  Returns(IF Confined(set.round, num.neg) THEN Nmax(num.neg) ELSE InfinityDatum(num.neg),
          {"Overflow", "Inexact"})

\* A number that fits is laid out: the digits of a NaN without the first one,
\* and those of an infinity too (where they are not the canonical zeros).
decFloatFromBCD(neg, kind, coef, exp) ==
  CASE kind = "fin" -> Datum(neg, "fin", coef, exp)
    [] kind = "inf" -> Encoding(neg, "inf", 0, 0, coef % Power(10, DECPMAX - 1) = 0)
    [] OTHER -> Datum(neg, kind, coef % Power(10, DECPMAX - 1), 0)

LaidOut(num) == Quietly(decFloatFromBCD(num.neg, num.kind, num.coef, num.exp))

\* Zeros are clamped, and a short coefficient gains zeros to fit (fold-down).
HighEnd(num, set) ==
  IF num.exp <= DECQMAX THEN LaidOut(num)
  ELSE IF num.coef = 0 THEN LaidOut([num EXCEPT !.exp = DECQMAX])
  ELSE IF num.exp + CoefLength(num.coef) - 1 > DECEMAX THEN Overflowed(num, set)
  ELSE LaidOut([num EXCEPT !.coef = @ * Power(10, num.exp - DECQMAX), !.exp = DECQMAX])

Flagging(out, status) == Returns(out.n, out.status \cup status)

Finished(r, set) == Flagging(HighEnd(r.num, set), r.status)

decFinalize(num, set) ==
  IF num.kind = "fin" THEN Finished(RoundOff(num, Drop(num), set), set) ELSE LaidOut(num)
-----------------------------------------------------------------------------
(***************************************************************************)
(* The parts of a decFloat.                                                *)
(***************************************************************************)
\* The sign and the digits: none of an infinity.
decFloatGetCoefficient(df) == [neg |-> df.neg,
                               coef |-> IF DFISINF(df) THEN 0 ELSE df.coef]

\* The exponent, or what kind of special value there is instead.
decFloatGetExponent(df) == [kind |-> df.kind, exp |-> IF DFISSPECIAL(df) THEN 0 ELSE df.exp]

decFloatToBCD(df) == [neg |-> df.neg, coef |-> decFloatGetCoefficient(df).coef,
                      kind |-> df.kind, exp |-> decFloatGetExponent(df).exp]

decFloatSetCoefficient(df, coef, neg) ==
  decFloatFromBCD(neg, df.kind, IF DFISINF(df) THEN 0 ELSE coef, decFloatGetExponent(df).exp)

\* The new exponent may be out of range, or special.
decFloatSetExponent(df, set, kind, exp) ==
  decFinalize([neg |-> df.neg, kind |-> kind, coef |-> decFloatGetCoefficient(df).coef,
               exp |-> exp], set)

\* Packed decimal: a pad nibble (not in decSingle), the digits, and a sign
\* nibble, of which DECPMINUS and DECPMINUSALT are the negative ones.
DECPMINUS == 13
DECPMINUSALT == 11
DECPPLUS == 12
Packed(pad, coef, sign) == [pad |-> pad, coef |-> coef, sign |-> sign]

decFloatToPacked(df) ==
  [kind |-> df.kind, exp |-> decFloatGetExponent(df).exp,
   packed |-> Packed(0, decFloatGetCoefficient(df).coef,
                     IF df.neg THEN DECPMINUS ELSE DECPPLUS)]

\* The digits of an infinity are cleared, and the first digit of a NaN.
decFloatFromPacked(kind, exp, packed) ==
  decFloatFromBCD(packed.sign \in {DECPMINUS, DECPMINUSALT}, kind,
                  IF kind = "inf" THEN 0 ELSE packed.coef, exp)

\* (mutant) The exponent is not checked.
ChecksNibbles(kind, exp, packed) == packed.sign > 9 /\ packed.pad = 0

\* Is the input what decFloatToPacked returns, but for the code of the sign?
\* (Of the nibbles that are no digits, only the sign can be one here.)
PackedChecks(kind, exp, packed) ==
  /\ packed.sign > 9
  /\ packed.pad = 0
  /\ CASE kind = "fin" -> exp \in DECQTINY .. DECQMAX
       [] kind = "inf" -> packed.coef = 0
       [] OTHER -> packed.coef < Power(10, DECPMAX - 1)

\* The decFloat, or df as it was.
decFloatFromPackedChecked(df, kind, exp, packed) ==
  IF PackedChecks(kind, exp, packed) THEN decFloatFromPacked(kind, exp, packed) ELSE df

\* To and from the next wider format, in which wider is a decFloat.  Narrowing
\* rounds, and of a payload keeps the last digits; neither heeds an sNaN.
decFloatFromWider(wider, set) ==
  decFinalize([neg |-> wider.neg, kind |-> wider.kind, coef |-> wider.coef,
               exp |-> wider.exp], set)

decFloatToWider(df) == df
=============================================================================
