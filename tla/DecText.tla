------------------------------- MODULE DecText -------------------------------
(***************************************************************************)
(* The conversions of decNumber.c and decPacked.c: strings, integers, BCD  *)
(* and packed decimal.                                                     *)
(*                                                                         *)
(* A string is abstracted to what the scanner tells apart: the sign, what  *)
(* kind of word it is, the digits of its decimal part (how many, leading   *)
(* zeros included, and the integer they spell), how many of them follow    *)
(* the point, whether the point comes last, and the value of the E-part.   *)
(***************************************************************************)
EXTENDS DecDigits

String == [neg: BOOLEAN, kind: {"fin", "inf", "nan", "snan", "bad"},
           digits: Nat, coef: Nat, places: Nat, dot: BOOLEAN, exp: Int]

\* A converter's result, with the flags it sets.
Converted(x, status) == [n |-> x, status |-> status]
-----------------------------------------------------------------------------
(***************************************************************************)
(* decNumberFromString.                                                    *)
(***************************************************************************)
ConversionSyntax == Done(Work(decNumberZero, 0, {"Conversion_syntax"}))

\* An E-part that the accumulator may not hold becomes a certain overflow.
EPart(exp) == CASE exp > 2 * DECNUMMAXE + 1 -> 2 * DECNUMMAXE
                [] exp < -2 * DECNUMMAXE - 1 -> -2 * DECNUMMAXE
                [] OTHER -> exp

\* The number a string spells, leading zeros stripped.
Spelled(string) ==
  [neg |-> string.neg, kind |-> string.kind, coef |-> string.coef,
   digits |-> CountDigits(string.coef),
   exp |-> IF string.kind = "fin" THEN EPart(string.exp) - string.places ELSE 0]

\* Could n be subnormal, an overflow, or folded down?
MayNotFit(n, set) == \/ n.exp - 1 < set.emin - n.digits
                     \/ n.exp - 1 > set.emax - set.digits

\* Into a decNumber of set.digits digits.
Assembled(n, set) ==
  IF n.digits > set.digits THEN decFinalize(decCopyFit(n, set.digits, 0, {}), set)
  ELSE IF MayNotFit(n, set) THEN decFinalize(Work(n, 0, {}), set)
  ELSE Work(n, 0, {})

\* A payload may be as long as the precision, and when clamping one digit less.
PayloadFits(n, set) == n.digits <= set.digits - (IF set.clamp THEN 1 ELSE 0)

\* Infinities and NaNs; none in subset arithmetic.
decNumberFromWord(n, set) ==
  CASE ~set.extended -> ConversionSyntax
    [] set.extended /\ n.coef = 0 -> Quiet(n)
    [] OTHER -> IF PayloadFits(n, set) THEN Done(Assembled(n, set)) ELSE ConversionSyntax

decNumberFromString(string, set) ==
  CASE string.kind = "bad" -> ConversionSyntax
    [] string.kind = "fin" ->
         IF string.coef = 0 /\ ~set.extended THEN Quiet(decNumberZero)
         ELSE Done(Assembled(Spelled(string), set))
    [] OTHER -> decNumberFromWord(Spelled(string), set)
-----------------------------------------------------------------------------
(***************************************************************************)
(* decToString.                                                            *)
(***************************************************************************)
NoDigits(n) == [neg |-> n.neg, kind |-> n.kind, digits |-> 0, coef |-> 0, places |-> 0,
            dot |-> FALSE, exp |-> 0]

\* The digits of n with pre of them before the point, and the E-part e: zeros
\* are added after them, or in front.
LaidOut(n, pre, e) ==
  [NoDigits(n) EXCEPT
     !.coef = IF pre > n.digits THEN n.coef * TenTo[pre - n.digits] ELSE n.coef,
     !.digits = IF pre > 0 THEN Greater(pre, n.digits) ELSE 1 - pre + n.digits,
     !.places = IF pre < n.digits THEN n.digits - pre ELSE 0,
     !.exp = e]

\* (mutants) The remainder of C, which is negative for a negative E-part; and
\* a zero is padded like any number.
RemainderOfC(e) == IF e < 0 THEN (-e) % 3 ELSE e % 3
PaddedZero(n, e, adj) == LaidOut(n, 1 + adj, e - adj)

\* How far an E-part is above a multiple of three.
Adjustment(e) == e % 3

\* A zero keeps a single digit before the E, and may gain some after a point.
EngineeringZero(n, e, adj) ==
  IF adj = 0 THEN LaidOut(n, 1, e) ELSE LaidOut(n, -(2 - adj), e - adj + 3)

Engineering(n, e, adj) ==
  IF ISZERO(n) THEN EngineeringZero(n, e, adj) ELSE LaidOut(n, 1 + adj, e - adj)

\* pre digits would come before the point; too few or too many need an E-part.
decToStringFinite(n, pre, eng) ==
  IF n.exp <= 0 /\ pre >= -5 THEN LaidOut(n, pre, 0)
  ELSE IF eng THEN Engineering(n, pre - 1, Adjustment(pre - 1))
  ELSE LaidOut(n, 1, pre - 1)

\* The payload of a NaN is an integer; none is shown when it is not clean.
decToString(n, eng) ==
  IF IsSpecial(n) /\ (n.kind = "inf" \/ n.exp # 0 \/ (n.coef = 0 /\ n.digits = 1))
  THEN NoDigits(n) ELSE decToStringFinite(n, n.digits + n.exp, eng)

decNumberToString(n) == decToString(n, FALSE)
decNumberToEngString(n) == decToString(n, TRUE)
-----------------------------------------------------------------------------
(***************************************************************************)
(* Integers of the C types Int and uInt.                                   *)
(***************************************************************************)
decNumberFromUInt32(uin) == Integer(uin)

\* (mutant) The most negative integer is out of range like its negative.
NoReprieve(hi, lo, limit) == FALSE

\* The most negative integer, one beyond the others.
Reprieve(hi, lo, limit) == hi = limit \div 10 /\ lo = (limit % 10) + 1

\* An integer, split into its last digit and the others, is compared with the
\* largest one in two steps.
Within(hi, lo, limit) == ~(hi > limit \div 10 \/ (hi = limit \div 10 /\ lo > limit % 10))

\* No more digits than the largest integers, and a zero exponent.
Countable(n) == /\ ~IsSpecial(n)
                /\ n.digits <= CountDigits(2 * IntMax + 1)
                /\ n.exp = 0

Refused == Converted(0, {"Invalid_operation"})

decNumberToInt32(n) ==
  LET hi == n.coef \div 10
      lo == n.coef % 10
  IN  IF Countable(n) /\ (Within(hi, lo, IntMax) \/ (n.neg /\ Reprieve(hi, lo, IntMax)))
      THEN Converted(IF n.neg THEN -n.coef ELSE n.coef, {}) ELSE Refused

decNumberToUInt32(n) ==
  IF /\ Countable(n) /\ (n.neg => ISZERO(n))
     /\ Within(n.coef \div 10, n.coef % 10, 2 * IntMax + 1)
  THEN Converted(n.coef, {}) ELSE Refused
-----------------------------------------------------------------------------
(***************************************************************************)
(* The digits as an array of BCD bytes.                                    *)
(***************************************************************************)
BCD(digits, coef) == [digits |-> digits, coef |-> coef]

decNumberGetBCD(n) == BCD(n.digits, n.coef)

\* (mutant) The top Unit is taken for full.
SetBCDFull(n, bcd, junk) ==
  [n EXCEPT !.coef = bcd.coef * TenTo[D2U(n.digits) * DECDPUN - bcd.digits],
            !.digits = bcd.digits]

\* The Units are filled from the top one of the old digits down to the lowest.
\* More old Units than new ones: the new digits end up too high, and the Units
\* below take what follows the array.  Fewer: the last digits find no Unit, and
\* the Units above keep what they held.  junk is what is there.
decNumberSetBCD(n, bcd, junk) ==
  LET surplus == D2U(n.digits) - D2U(bcd.digits)
      shift == TenTo[DECDPUN * surplus]
      cut == TenTo[-DECDPUN * surplus]
  IN  [n EXCEPT !.digits = bcd.digits,
                !.coef = CASE surplus = 0 -> bcd.coef
                           [] surplus > 0 -> ((bcd.coef * shift) + (junk % shift))
                                               % TenTo[DECDPUN * D2U(bcd.digits)]
                           [] OTHER -> bcd.coef \div cut
                                         + ((junk % cut) * TenTo[DECDPUN * D2U(n.digits)])]
-----------------------------------------------------------------------------
(***************************************************************************)
(* Packed decimal: an array of bytes with a digit in each nibble and the   *)
(* sign in the last one, and apart from it the scale.  spoilt tells that a *)
(* nibble among the digits is none.                                        *)
(***************************************************************************)
DECPMINUS == 13
DECPMINUSALT == 11
DECPPLUS == 12

PackedDecimal == [length: Nat \ {0}, coef: Nat, spoilt: BOOLEAN, sign: 0 .. 15, scale: Int]

NULL == [null |-> TRUE]

decPackedFromNumber(length, n) ==
  IF n.digits > length * 2 - 1 \/ IsSpecial(n) THEN NULL
  ELSE [length |-> length, coef |-> n.coef, spoilt |-> FALSE,
        sign |-> IF n.neg THEN DECPMINUS ELSE DECPPLUS, scale |-> -n.exp]

\* (mutant) The scale is tested alone.
ScaleAlone(digits, scale) == scale < -DECNUMMAXE \/ scale > DECNUMMAXE

\* Is the adjusted exponent out of range?  (A scale beyond the range is refused
\* before it is added to, which might wrap.)
OutOfScale(digits, scale) ==
  IF scale >= 0 THEN digits - scale - 1 < -DECNUMMAXE
  ELSE scale < -DECNUMMAXE \/ digits - scale - 1 > DECNUMMAXE

decPackedToNumber(packed) ==
  LET digits == CountDigits(packed.coef)
  IN  IF packed.sign <= 9 \/ OutOfScale(digits, packed.scale) \/ packed.spoilt THEN NULL
      ELSE [neg |-> packed.sign \in {DECPMINUS, DECPMINUSALT}, kind |-> "fin",
            digits |-> digits, coef |-> packed.coef, exp |-> -packed.scale]
=============================================================================
