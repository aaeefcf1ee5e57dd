----------------------------- MODULE DecExchange -----------------------------
(***************************************************************************)
(* A number on its way through the conversions of the library: strings,    *)
(* interchange formats, packed decimal, integers and BCD.  A program holds *)
(* it in one form at a time, and converts it again and again.              *)
(***************************************************************************)
EXTENDS DecFormat

CONSTANTS Starts,      \* what the program reads first, each [form, x]
          Contexts,    \* the contexts it may use
          Arrays,      \* BCD arrays it sets the digits of a number from
          Lengths,     \* lengths of its packed decimals, in bytes
          Junk,        \* what else may be in memory
          MaxCalls     \* bound on the number of conversions

ASSUME ExchangeAssumption == /\ Contexts \subseteq decContext
                             /\ Lengths \subseteq Nat \ {0}
                             /\ Junk \subseteq Nat
                             /\ MaxCalls \in Nat

VARIABLES item,        \* the number, in its present form
          set,         \* the context
          seen,        \* the flags set so far
          origin,      \* history: the number as it was first
          used,        \* history: the conversions it went through
          last,        \* history: the last one, what it had and what it set
          calls        \* conversions so far, at most MaxCalls

vars == <<item, set, seen, origin, used, last, calls>>

Form(form, x) == [form |-> form, x |-> x]

Init == /\ item \in Starts
        /\ set \in Contexts
        /\ seen = {}
        /\ origin = item
        /\ used = {}
        /\ last = [op |-> "none", from |-> item, flags |-> {}]
        /\ calls = 0

\* The conversion op gives out, of the given form.
Convert(op, form, out) ==
  /\ item' = Form(form, out.n)
  /\ seen' = seen \cup out.status
  /\ used' = used \cup {op}
  /\ last' = [op |-> op, from |-> item, flags |-> out.status]
  /\ calls' = calls + 1
  /\ UNCHANGED <<set, origin>>

\* A number that was spoilt (see NumberSetBCD) is put to no further use.
Holds(form) == item.form = form /\ calls < MaxCalls /\ "Misfit" \notin used

\* A converter that returns NULL leaves the program with what it had.
ConvertUnlessNull(op, form, x) ==
  IF x = NULL THEN Convert(op, item.form, Quiet(item.x)) ELSE Convert(op, form, Quiet(x))

NumberToString ==
  /\ Holds("number")
  /\ \/ Convert("ToString", "string", Quiet(decNumberToString(item.x)))
     \/ Convert("ToEngString", "string", Quiet(decNumberToEngString(item.x)))

NumberFromString ==
  Holds("string") /\ Convert("FromString", "number", decNumberFromString(item.x, set))

FormatFromNumber ==
  Holds("number") /\ Convert("Pack", "word", decimalFromNumber(item.x, set.round))
FormatToNumber ==
  Holds("word") /\ Convert("Unpack", "number", Quiet(decimalToNumber(item.x)))
FormatFromString ==
  Holds("string") /\ Convert("FormatFromString", "word", decimalFromString(item.x, set.round))
FormatToString ==
  /\ Holds("word")
  /\ \/ Convert("ToString", "string", Quiet(decimalToString(item.x)))
     \/ Convert("ToEngString", "string", Quiet(decimalToEngString(item.x)))
FormatCanonical ==
  Holds("word") /\ Convert("Canonical", "word", Quiet(decimalCanonical(item.x)))

FloatFromString ==
  /\ Holds("string")
  /\ \E extra \in 0 .. 3 :
       Convert("FloatFromString", "word", decFloatFromString(item.x, set.round, extra))
FloatToString ==
  /\ Holds("word")
  /\ \/ Convert("ToString", "string", Quiet(decFloatToString(item.x)))
     \/ Convert("ToEngString", "string", Quiet(decFloatToEngString(item.x)))

PackedFromNumber ==
  /\ Holds("number")
  /\ \E length \in Lengths :
       ConvertUnlessNull("PackedFromNumber", "packed", decPackedFromNumber(length, item.x))
PackedToNumber ==
  /\ Holds("packed")
  /\ ConvertUnlessNull("PackedToNumber", "number", decPackedToNumber(item.x))

NumberToInt ==
  /\ Holds("number")
  /\ \/ Convert("ToInt32", "int", decNumberToInt32(item.x))
     \/ Convert("ToUInt32", "uint", decNumberToUInt32(item.x))
NumberFromInt ==
  \/ Holds("int") /\ Convert("FromInt32", "number", Quiet(decNumberFromInt32(item.x)))
  \/ Holds("uint") /\ Convert("FromUInt32", "number", Quiet(decNumberFromUInt32(item.x)))

\* Each digit is replaced by its difference from nine, unless that gives a
\* leading zero, which a number must not have.
Complement(bcd) ==
  LET other == TenTo[bcd.digits] - 1 - bcd.coef
  IN  IF CountDigits(other) = bcd.digits THEN [bcd EXCEPT !.coef = other] ELSE bcd

\* The arrays that keep a number in the range of exponents, which is not checked.
Settable(n) == {bcd \in Arrays : n.exp + bcd.digits - 1 \in -DECNUMMAXE .. DECNUMMAXE}

\* The digits of a number are taken out and come back changed, or are set from
\* another array: a new number, which has the digits of the array.  An array of
\* another number of Units spoils the number it is set in.
NumberSetBCD ==
  /\ Holds("number")
  /\ item.x.kind = "fin"
  /\ \E bcd \in Settable(item.x) \cup {Complement(decNumberGetBCD(item.x))}, junk \in Junk :
       /\ item' = Form("number", decNumberSetBCD(item.x, bcd, junk))
       /\ origin' = Form("number", NumberOf(item.x.neg, "fin", bcd.coef, item.x.exp))
       /\ used' = IF D2U(bcd.digits) = D2U(item.x.digits) THEN {} ELSE {"Misfit"}
  /\ last' = [op |-> "SetBCD", from |-> item, flags |-> {}]
  /\ seen' = {}
  /\ calls' = calls + 1
  /\ UNCHANGED set

Next == \/ NumberToString \/ NumberFromString
        \/ FormatFromNumber \/ FormatToNumber \/ FormatCanonical
        \/ FormatFromString \/ FormatToString
        \/ FloatFromString \/ FloatToString
        \/ PackedFromNumber \/ PackedToNumber
        \/ NumberToInt \/ NumberFromInt \/ NumberSetBCD

Spec == Init /\ [][Next]_vars
-----------------------------------------------------------------------------
(***************************************************************************)
(* Properties.                                                             *)
(***************************************************************************)
Ref == INSTANCE DecReference

IsItem(i) == CASE i.form = "number" -> i.x \in Number
               [] i.form = "string" -> i.x \in String
               [] i.form = "word" -> i.x \in Words
               [] i.form = "packed" -> i.x \in PackedDecimal
               [] i.form = "int" -> i.x \in -IntMax - 1 .. IntMax
               [] i.form = "uint" -> i.x \in 0 .. 2 * IntMax + 1

\* A number has an adjusted exponent the library supports, and no digits
\* beyond those it says it has.
TypeOK == /\ IsItem(item) /\ IsItem(origin) /\ IsItem(last.from)
          /\ (item.form = "number" /\ item.x.kind = "fin") =>
               /\ item.x.exp + item.x.digits - 1 \in -DECNUMMAXE .. DECNUMMAXE
               /\ item.x.coef < TenTo[item.x.digits] \/ "Misfit" \in used
          /\ set \in Contexts
          /\ seen \subseteq DEC_Flags
          /\ calls \in 0 .. MaxCalls

\* The number a form stands for, whatever the library makes of it.
Exact(i) ==
  CASE i.form = "number" -> i.x
    [] i.form = "string" -> NumberOf(i.x.neg, i.x.kind, i.x.coef, i.x.exp - i.x.places)
    [] i.form = "word" -> decimalToNumber(i.x)
    [] i.form = "packed" -> NumberOf(i.x.sign \in {DECPMINUS, DECPMINUSALT}, "fin",
                                     i.x.coef, -i.x.scale)
    [] OTHER -> NumberOf(i.x < 0, "fin", IF i.x < 0 THEN -i.x ELSE i.x, 0)

\* The same value: trailing zeros and the exponent of a zero aside, and its
\* sign where there are no negative zeros.
Shortest(n) == IF n.coef = 0 THEN [coef |-> 0, exp |-> 0]
               ELSE [coef |-> n.coef \div TenTo[TrailingZeros(n)],
                     exp |-> n.exp + TrailingZeros(n)]

SameValue(a, b) ==
  /\ a.kind = b.kind
  /\ a.neg # b.neg => a.coef = 0 /\ (~set.extended \/ used \cap {"ToInt32", "ToUInt32"} # {})
  /\ IF a.kind = "fin" THEN Shortest(a) = Shortest(b) ELSE a.coef = b.coef

\* What no number stands behind, and a payload as long as the precision, which
\* a format has no room for.
Unkept(n) == n.kind = "bad" \/ (IsNaN(n) /\ n.digits >= Pmax)

\* The strings a decFloat reads right: those with an E-part it takes as it is,
\* or too few digits to make up for another; and of which digits are left.
WellRead(string) ==
  /\ \/ string.exp \in 1 - TenTo[DECEMAXD] .. TenTo[DECEMAXD] - 1
     \/ string.digits <= Emax - Pmax
  /\ ~(string.coef = 0 /\ string.dot /\ string.digits > BUFFER)

\* However often a number is converted, and through whatever forms: until a
\* flag tells that digits were lost, it has the value, sign, kind and payload
\* it had; and until any flag, the same digits and exponent, unless it was
\* written with an engineering exponent (which pads all but a zero), or read by
\* the decFloats, which set no flag when they pad a number to fit (and misread
\* some strings, see WellRead).  A number whose digits decNumberSetBCD replaced
\* has those of the array, if that takes as many Units as the old digits did:
\* otherwise (a Misfit) it has neither.
ChainsKeepNumber ==
  LET a == Exact(origin)
      b == Exact(item)
      plain == set.extended /\ "FloatFromString" \notin used
                 /\ ("ToEngString" \in used => a.coef = 0)
      wellRead == "FloatFromString" \in used /\ origin.form = "string" => WellRead(origin.x)
  IN  wellRead /\ ~Unkept(a) /\ "Misfit" \notin used /\ seen \subseteq {"Rounded", "Clamped", "Subnormal"} =>
        /\ SameValue(a, b)
        /\ (seen = {} /\ plain) => (a.coef = b.coef /\ a.exp = b.exp)

Conversions == {"FromString", "Pack", "FormatFromString", "FloatFromString"}

\* The flags decFloats do not have: they are informational.
Told(op, flags) ==
  IF op = "FloatFromString" THEN flags \ {"Rounded", "Clamped", "Subnormal"} ELSE flags

\* The number from stands for, rounded once to the context ctx.
RoundsTo(from, ctx) ==
  LET exact == Ref!RoundTo(from.neg, from.coef, from.exp, ctx)
      now == Exact(item)
  IN  /\ [now EXCEPT !.digits = exact.n.digits] = exact.n
      /\ last.flags = Told(last.op, exact.status)

\* A conversion into a shorter form is the exact number rounded once, with the
\* flags of that rounding: through the scanner's assembly of Units or its copy
\* of BCD bytes, the work context and the packing of a format, for zeros and
\* subnormals, carries, overflows and fold-downs.
RoundedOnce ==
  LET from == Exact(last.from)
      ctx == IF last.op = "FromString" THEN set ELSE FormatContext(set.round)
  IN  last.op \in Conversions /\ from.kind = "fin" /\ set.extended =>
        \/ last.op = "FloatFromString" /\ ~WellRead(last.from.x)
        \/ RoundsTo(from, ctx)

\* decimalXXFromString (over decNumbers) and decFloatFromString read a string
\* as the same word, special values and bad syntax included, and agree on
\* which errors there are.
ReadersAgree ==
  last.op = "FloatFromString" /\ WellRead(last.from.x) =>
    LET other == decimalFromString(last.from.x, set.round)
    IN  item.x = other.n /\ Told(last.op, other.status) = last.flags

\* No bit that counts for nothing is set: in the rest of an infinity, in the
\* exponent continuation of a NaN, in the declets of three large digits.
NoSpareBits(w) ==
  /\ w.comb = 30 => w.econ = 0 /\ \A i \in DOMAIN w.declets : w.declets[i] = 0
  /\ w.comb = 31 => w.econ \in {0, 2^(ECONL - 1)}
  /\ \A i \in DOMAIN w.declets :
       \A bits \in {w.declets[i]} : (\A j \in {1, 2, 3, 5, 6} : Bit(bits, j) = 1) => bits < 256

\* Every number has one canonical word, which all conversions produce; making
\* a word canonical leads to it and changes nothing else, and the test for it
\* tells exactly the words with no spare bit set.
CanonicalIsUnique ==
  item.form = "word" =>
    /\ decimalIsCanonical(item.x) <=> NoSpareBits(item.x)
    /\ NoSpareBits(decimalCanonical(item.x))
    /\ decimalToNumber(decimalCanonical(item.x)) = decimalToNumber(item.x)
    /\ last.op # "none" => NoSpareBits(item.x)

\* An engineering string has an exponent that is a multiple of three, and one
\* to three digits before the point.
EngineeringExponent ==
  last.op = "ToEngString" /\ item.x.exp # 0 =>
    /\ item.x.exp % 3 = 0
    /\ item.x.digits - item.x.places \in 1 .. 3

\* A number is an Int or a uInt exactly when it is written as an integer and in
\* range, the most negative one included.
IntegersInRange ==
  LET from == last.from.x
      value == IF from.neg THEN -from.coef ELSE from.coef
      range == IF last.op = "ToInt32" THEN -IntMax - 1 .. IntMax ELSE 0 .. 2 * IntMax + 1
  IN  last.op \in {"ToInt32", "ToUInt32"} =>
        IF from.kind = "fin" /\ from.exp = 0 /\ value \in range
        THEN item.x = value /\ last.flags = {}
        ELSE item.x = 0 /\ last.flags = {"Invalid_operation"}
=============================================================================
