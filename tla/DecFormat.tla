------------------------------ MODULE DecFormat ------------------------------
(***************************************************************************)
(* The interchange formats (decimal32.c, decimal64.c, decimal128.c): the   *)
(* words in which a number is stored, and their conversions from and to    *)
(* decNumbers and strings.  The same words are the decFloats of            *)
(* decCommon.c, whose own conversions of strings are here too.             *)
(*                                                                         *)
(* A word has a sign, a combination field of five bits (the first digit    *)
(* and the top of the exponent), an exponent continuation of ECONL bits,   *)
(* and for every further three digits a declet of ten bits.                *)
(***************************************************************************)
EXTENDS DecText
LOCAL INSTANCE FiniteSetsExt

CONSTANTS ECONL,      \* bits of the exponent continuation (6, 8 or 12)
          DECLETS,    \* number of declets (2, 5 or 11)
          DECEMAXD,   \* digits of an exponent (3, 3 or 4)
          BUFFER      \* digits decFloatFromString converts in one piece

ASSUME WordAssumption == ECONL \in Nat \ {0} /\ DECLETS \in Nat \ {0}

Pmax == 3 * DECLETS + 1
Emax == 3 * 2^(ECONL - 1)
Emin == 1 - Emax
Bias == Emax + Pmax - 2
Ehigh == Emax + Bias - Pmax + 1       \* highest biased exponent

ASSUME BufferAssumption == /\ BUFFER \in Nat /\ BUFFER > Pmax
                           /\ DECEMAXD \in Nat /\ Emax < TenTo[DECEMAXD]

Words == [neg: BOOLEAN, comb: 0 .. 31, econ: 0 .. 2^ECONL - 1,
          declets: [0 .. DECLETS - 1 -> 0 .. 1023]]

\* The decFloat functions (decFinalize) of the same format.
Float == INSTANCE DecFloat WITH DECPMAX <- Pmax, DECEMAX <- Emax

\* decContextDefault for the format, with the rounding of the caller's context.
FormatContext(round) == [digits |-> Pmax, emax |-> Emax, emin |-> Emin, round |-> round,
                         traps |-> {}, status |-> {}, clamp |-> TRUE, extended |-> TRUE]
-----------------------------------------------------------------------------
(***************************************************************************)
(* The tables of decDPD.h.  A declet holds three digits: of the bits       *)
(* pqr stu v wxy, v tells whether all of them are below eight, and wx (and *)
(* st) which of them are not.                                              *)
(***************************************************************************)
Bit(dpd, i) == (dpd \div 2^i) % 2

\* A digit below eight, of three bits; 8 or 9, of one.
Small(dpd, i, j, k) == 4 * Bit(dpd, i) + 2 * Bit(dpd, j) + Bit(dpd, k)
Large(dpd, k) == 8 + Bit(dpd, k)

Hundreds(dpd, wx, st) ==
  IF Bit(dpd, 3) = 0 \/ wx \in {0, 1} \/ (wx = 3 /\ st = 2) THEN Small(dpd, 9, 8, 7)
  ELSE Large(dpd, 7)

Tens(dpd, wx, st) ==
  CASE Bit(dpd, 3) = 0 \/ wx \in {0, 2} -> Small(dpd, 6, 5, 4)
    [] Bit(dpd, 3) = 1 /\ wx = 3 /\ st = 1 -> Small(dpd, 9, 8, 4)
    [] OTHER -> Large(dpd, 4)

Units(dpd, wx, st) ==
  CASE Bit(dpd, 3) = 0 -> Small(dpd, 2, 1, 0)
    [] Bit(dpd, 3) = 1 /\ wx = 1 -> Small(dpd, 6, 5, 0)
    [] Bit(dpd, 3) = 1 /\ (wx = 2 \/ (wx = 3 /\ st = 0)) -> Small(dpd, 9, 8, 0)
    [] OTHER -> Large(dpd, 0)

Declet(dpd, wx, st) ==
  100 * Hundreds(dpd, wx, st) + 10 * Tens(dpd, wx, st) + Units(dpd, wx, st)

\* All 1024 declets are read, 24 of them as a number another one stands for.
DPD2BIN == [dpd \in 0 .. 1023 |->
              Declet(dpd, (dpd \div 2) % 4, (dpd \div 32) % 4)]

\* (mutant) The other end of the declets that stand for a number.
HighDeclets == [bin \in 0 .. 999 |->
                  CHOOSE dpd \in 0 .. 1023 : /\ DPD2BIN[dpd] = bin
                                             /\ \A e \in dpd + 1 .. 1023 : DPD2BIN[e] # bin]

\* The canonical declet of a number: its unused bits are zero.
BIN2DPD == [bin \in 0 .. 999 |->
              CHOOSE dpd \in 0 .. 1023 : /\ DPD2BIN[dpd] = bin
                                         /\ \A e \in 0 .. dpd - 1 : DPD2BIN[e] # bin]
-----------------------------------------------------------------------------
(***************************************************************************)
(* Packing and unpacking a word.                                           *)
(***************************************************************************)
\* The combination field: the top of the exponent (3 for a special value) and
\* the first digit (0 for an infinity, 1 for a NaN).
COMBEXP(comb) == IF comb < 24 THEN comb \div 8 ELSE (comb - 24) \div 2
COMBMSD(comb) == IF comb < 24 THEN comb % 8 ELSE IF comb < 30 THEN 8 + (comb % 2) ELSE comb % 2

Combination(top, msd) == IF msd >= 8 THEN 24 + 2 * top + (msd % 2) ELSE 8 * top + msd

decDigitsToDPD(coef) ==
  [i \in 0 .. DECLETS - 1 |-> BIN2DPD[(coef \div TenTo[3 * i]) % 1000]]

decDigitsFromDPD(declets) ==
  MapThenSumSet(LAMBDA i : DPD2BIN[declets[i]] * TenTo[3 * i], DOMAIN declets)

\* exp is the biased exponent.
FiniteWord(neg, coef, exp) ==
  [neg |-> neg, comb |-> Combination(exp \div 2^ECONL, coef \div TenTo[Pmax - 1]),
   econ |-> exp % 2^ECONL, declets |-> decDigitsToDPD(coef)]

\* The first bit of the exponent continuation tells a signalling NaN.
SpecialWord(neg, kind, coef) ==
  [neg |-> neg, comb |-> IF kind = "inf" THEN 30 ELSE 31,
   econ |-> IF kind = "snan" THEN 2^(ECONL - 1) ELSE 0,
   declets |-> decDigitsToDPD(coef)]

\* Of an infinity the rest of the word counts for nothing; of a NaN the other
\* bits of the exponent continuation.
WordKind(w) == CASE COMBEXP(w.comb) < 3 -> "fin"
                 [] w.comb = 30 -> "inf"
                 [] OTHER -> IF w.econ >= 2^(ECONL - 1) THEN "snan" ELSE "nan"

WordCoef(w, kind) ==
  CASE kind = "inf" -> 0
    [] kind = "fin" -> COMBMSD(w.comb) * TenTo[Pmax - 1] + decDigitsFromDPD(w.declets)
    [] OTHER -> decDigitsFromDPD(w.declets)

NumberOf(neg, kind, coef, exp) ==
  [neg |-> neg, kind |-> kind, coef |-> coef, digits |-> CountDigits(coef), exp |-> exp]

decimalToNumber(w) ==
  NumberOf(w.neg, WordKind(w), WordCoef(w, WordKind(w)),
           IF WordKind(w) = "fin" THEN COMBEXP(w.comb) * 2^ECONL + w.econ - Bias ELSE 0)
-----------------------------------------------------------------------------
(***************************************************************************)
(* decimalXXFromNumber.                                                    *)
(***************************************************************************)
\* A number that may be too long, too large or too small is rounded in the
\* context of the format, and keeps its sign.
MustRound(n) == LET ae == n.exp + n.digits - 1
                IN  n.digits > Pmax \/ ae > Emax \/ ae < Emin

Rounded(n, round) == [decNumberPlus(n, FormatContext(round)) EXCEPT !.n.neg = @ \/ n.neg]

\* A payload that does not fit is left out.
Payload(n) == IF n.kind # "inf" /\ n.digits < Pmax THEN n.coef ELSE 0

\* A zero's exponent is clamped at both ends.
ZeroWord(n, exp) ==
  IF exp < 0 THEN Converted(FiniteWord(n.neg, 0, 0), {"Clamped"})
  ELSE IF exp > Ehigh THEN Converted(FiniteWord(n.neg, 0, Ehigh), {"Clamped"})
  ELSE Converted(FiniteWord(n.neg, 0, exp), {})

\* A high exponent comes down, and the coefficient is padded to match.
Folded(n, exp) ==
  Converted(FiniteWord(n.neg, n.coef * TenTo[exp - Ehigh], Ehigh), {"Clamped"})

\* A number that fits.
PackedWord(n, exp) ==
  CASE IsSpecial(n) -> Converted(SpecialWord(n.neg, n.kind, Payload(n)), {})
    [] ISZERO(n) -> ZeroWord(n, exp)
    [] OTHER -> IF exp > Ehigh THEN Folded(n, exp)
                ELSE Converted(FiniteWord(n.neg, n.coef, exp), {})

PackedAfter(r) ==
  [PackedWord(r.n, r.n.exp + Bias) EXCEPT !.status = @ \cup r.status]

decimalFromNumber(n, round) ==
  PackedAfter(IF MustRound(n) THEN Rounded(n, round) ELSE Quiet(n))

\* (mutant) Read in the caller's context, which may hold more digits.
ReadWithRoom(string, round) ==
  decNumberFromString(string, [FormatContext(round) EXCEPT !.digits = @ + 1])

ReadInFormat(string, round) == decNumberFromString(string, FormatContext(round))

\* Read, and then packed; the flags of both are passed on.
decimalFromString(string, round) ==
  LET r == ReadInFormat(string, round)
  IN  [decimalFromNumber(r.n, round) EXCEPT !.status = @ \cup r.status]

decimalToString(w) == decNumberToString(decimalToNumber(w))
decimalToEngString(w) == decNumberToEngString(decimalToNumber(w))

decimalCanonical(w) == decimalFromNumber(decimalToNumber(w), "HALF_EVEN").n
decimalIsCanonical(w) == w = decimalCanonical(w)
-----------------------------------------------------------------------------
(***************************************************************************)
(* Strings of the decFloats (decCommon.c), which share nothing with those  *)
(* of decNumber.c.                                                         *)
(***************************************************************************)
\* An E-part of more digits than an exponent can have is taken for an overflow.
ShortEPart(exp) == CASE exp >= TenTo[DECEMAXD] -> 2 * Emax
                     [] exp <= -(TenTo[DECEMAXD]) -> -2 * Emax
                     [] OTHER -> exp

\* What decFinalize lays out, as a word.
Laid(out) ==
  LET df == out.n
  IN  Converted(IF df.kind = "fin" THEN FiniteWord(df.neg, df.coef, df.exp + Bias)
                ELSE SpecialWord(df.neg, df.kind, df.coef), out.status)

Finalized(neg, kind, coef, exp, round) ==
  Laid(Float!decFinalize([neg |-> neg, kind |-> kind, coef |-> coef, exp |-> exp],
                         [round |-> round]))

BadFloat == Converted(SpecialWord(FALSE, "nan", 0), {"Conversion_syntax"})

\* (mutant) The digits left over are not looked at.
CutDigits(coef, over) == coef \div TenTo[over]

\* The first digits of a long coefficient, the last of them sticky.
FirstDigits(coef, over) ==
  10 * (coef \div TenTo[over + 1])
    + Float!Sticky((coef \div TenTo[over]) % 10, coef % TenTo[over])

\* One digit more than fits is kept, and up to three more that are copied with
\* it; the exponent is adjusted for the others.
LongFloat(string, exp, length, extra, round) ==
  LET over == Greater(length - (Pmax + 1 + extra), 0)
  IN  Finalized(string.neg, "fin", FirstDigits(string.coef, over), exp + over, round)

\* Nothing but zeros before a point: all of them are stripped, and the empty
\* coefficient is no zero when its exponent is compared.
NothingLeft(string, exp, round) ==
  IF exp - 1 > Emax
  THEN Laid(Float!Overflowed([neg |-> string.neg], [round |-> round]))
  ELSE Finalized(string.neg, "fin", 0, exp, round)

FiniteFloat(string, exp, extra, round) ==
  CASE string.digits <= BUFFER -> Finalized(string.neg, "fin", string.coef, exp, round)
    [] string.digits > BUFFER /\ string.coef = 0 /\ string.dot ->
         NothingLeft(string, exp, round)
    [] OTHER -> LongFloat(string, exp, CountDigits(string.coef), extra, round)

\* extra stands for how the fours in which the digits are copied fall.
decFloatFromString(string, round, extra) ==
  CASE string.kind = "bad" -> BadFloat
    [] string.kind = "fin" ->
         FiniteFloat(string, ShortEPart(string.exp) - string.places, extra, round)
    [] OTHER -> IF string.coef >= TenTo[Pmax - 1] THEN BadFloat
                ELSE Finalized(string.neg, string.kind, string.coef, 0, round)

decFloatToString(w) == decToString(decimalToNumber(w), FALSE)
decFloatToEngString(w) == decToString(decimalToNumber(w), TRUE)
=============================================================================
