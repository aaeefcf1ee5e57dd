------------------------- MODULE DecFloatCalculator -------------------------
(***************************************************************************)
(* A program that computes with decFloats of one format: its registers,    *)
(* and the decContext all calls share.  Of the context the functions read  *)
(* the rounding mode, and they or flags into its status; they never trap.  *)
(***************************************************************************)
EXTENDS DecFloatOps

CONSTANTS Reg,         \* the program's variables
          Literals,    \* the decFloats it writes down or reads from a file
          Triples,     \* those it takes fused multiply-adds of
          Wider,       \* the numbers of the next wider format it reads
          Modes,       \* the rounding modes it uses
          Ops,         \* the operations it uses
          MaxCalls     \* bound on the number of calls

\* Of whatever width.
WiderFloat == [neg: BOOLEAN, kind: {"fin", "inf", "nan", "snan"}, coef: Nat, exp: Int,
               canonical: BOOLEAN]

ASSUME FloatCalculatorAssumption == /\ Literals \subseteq decFloat
                                    /\ Triples \subseteq Literals \X Literals \X Literals
                                    /\ Wider \subseteq WiderFloat
                                    /\ Modes \subseteq Roundings
                                    /\ MaxCalls \in Nat

VARIABLES regs, round, status,
          last,        \* history: the last call, its inputs and its outcome
          calls        \* operations called so far, at most MaxCalls

vars == <<regs, round, status, last, calls>>

NoCall == [op |-> "none", l |-> decFloatZero, r |-> decFloatZero, f |-> decFloatZero,
           round |-> "HALF_EVEN", n |-> decFloatZero, int |-> 0, status |-> {}]

Init == /\ regs = [x \in Reg |-> decFloatZero]
        /\ round \in Modes
        /\ status = {}
        /\ last = NoCall
        /\ calls = 0

\* What the functions see of the decContext.
set == [round |-> round]

\* A call reports what happened through the status.
Report(op, l, r, f, n, int, flags) ==
  /\ status' = status \cup flags
  /\ last' = [op |-> op, l |-> l, r |-> r, f |-> f, round |-> round, n |-> n, int |-> int,
              status |-> flags]
  /\ calls' = calls + 1
  /\ UNCHANGED round

CallWith(op, res, l, r, f, out) ==
  /\ regs' = [regs EXCEPT ![res] = out.n]
  /\ Report(op, l, r, f, out.n, 0, out.status)

Ready(op) == op \in Ops /\ calls < MaxCalls

Args == Literals \cup {regs[x] : x \in Reg}

Binary(op, F(_, _, _)) ==
  Ready(op) /\ \E res \in Reg, l, r \in Args : CallWith(op, res, l, r, l, F(l, r, set))
Unary(op, F(_, _)) ==
  Ready(op) /\ \E res \in Reg, df \in Args : CallWith(op, res, df, df, df, F(df, set))

FloatAdd == Binary("Add", decFloatAdd)
FloatSubtract == Binary("Subtract", decFloatSubtract)
FloatMultiply == Binary("Multiply", decFloatMultiply)
FloatDivide == Binary("Divide", decFloatDivide)
FloatDivideInteger == Binary("DivideInteger", decFloatDivideInteger)
FloatRemainder == Binary("Remainder", decFloatRemainder)
FloatRemainderNear == Binary("RemainderNear", decFloatRemainderNear)
FloatQuantize == Binary("Quantize", decFloatQuantize)
FloatCompare == Binary("Compare", decFloatCompare)
FloatCompareSignal == Binary("CompareSignal", decFloatCompareSignal)
FloatMax == Binary("Max", decFloatMax)
FloatMin == Binary("Min", decFloatMin)
FloatMaxMag == Binary("MaxMag", decFloatMaxMag)
FloatMinMag == Binary("MinMag", decFloatMinMag)
FloatNextToward == Binary("NextToward", decFloatNextToward)
FloatShift == Binary("Shift", decFloatShift)
FloatRotate == Binary("Rotate", decFloatRotate)
FloatScaleB == Binary("ScaleB", decFloatScaleB)
FloatAnd == Binary("And", decFloatAnd)
FloatOr == Binary("Or", decFloatOr)
FloatXor == Binary("Xor", decFloatXor)
FloatCopySign == Binary("CopySign", LAMBDA l, r, s : decFloatCopySign(l, r))

\* What two uninitialised bytes compare as.
Feet == {-1, 0, 1}

FloatCompareTotal ==
  \E foot \in Feet :
    Binary("CompareTotal", LAMBDA l, r, s : decFloatCompareTotal(l, r, foot))
FloatCompareTotalMag ==
  \E foot \in Feet :
    Binary("CompareTotalMag", LAMBDA l, r, s : decFloatCompareTotalMag(l, r, foot))

FloatPlus == Unary("Plus", decFloatPlus)
FloatMinus == Unary("Minus", decFloatMinus)
FloatAbs == Unary("Abs", decFloatAbs)
FloatReduce == Unary("Reduce", decFloatReduce)
FloatNextPlus == Unary("NextPlus", decFloatNextPlus)
FloatNextMinus == Unary("NextMinus", decFloatNextMinus)
FloatToIntegralExact == Unary("ToIntegralExact", decFloatToIntegralExact)
FloatToIntegralValue ==
  Unary("ToIntegralValue", LAMBDA df, s : decFloatToIntegralValue(df, s, s.round))
FloatInvert == Unary("Invert", decFloatInvert)
FloatLogB == Unary("LogB", decFloatLogB)
FloatCopyAbs == Unary("CopyAbs", LAMBDA df, s : decFloatCopyAbs(df))
FloatCopyNegate == Unary("CopyNegate", LAMBDA df, s : decFloatCopyNegate(df))

FloatFMA ==
  /\ Ready("FMA")
  /\ \E res \in Reg, t \in Triples :
       CallWith("FMA", res, t[1], t[2], t[3], decFloatFMA(t[1], t[2], t[3], set))

\* To a signed or unsigned Int; the rounding mode is an argument.
FloatToInt32 ==
  /\ Ready("ToInt32")
  /\ \E df \in Args, exact, unsign \in BOOLEAN :
       LET out == decToInt32(df, set, round, exact, unsign)
       IN  /\ Report(IF unsign THEN "ToUInt32" ELSE "ToInt32", df, df, df, df, out.n,
                     out.status)
           /\ UNCHANGED regs

\* The sign and digits of one number replace those of another.
FloatSetCoefficient ==
  /\ Ready("SetCoefficient")
  /\ \E res \in Reg, l, r \in Args :
       LET from == decFloatGetCoefficient(r)
       IN  CallWith("SetCoefficient", res, l, r, l,
                    Quietly(decFloatSetCoefficient(l, from.coef, from.neg)))

\* Any exponent may be set, also one out of range.
FloatSetExponent ==
  /\ Ready("SetExponent")
  /\ \E res \in Reg, df \in Args, kind \in {"fin", "inf", "nan"},
        exp \in DECQTINY - DECPMAX .. DECQMAX + DECPMAX :
       CallWith("SetExponent", res, df, Datum(FALSE, kind, 0, exp), df,
                decFloatSetExponent(df, set, kind, exp))

\* From and to the next wider format.
FloatFromWider ==
  /\ Ready("FromWider")
  /\ \E res \in Reg, wider \in Wider \cup {decFloatToWider(df) : df \in Args} :
       CallWith("FromWider", res, wider, wider, wider, decFloatFromWider(wider, set))

\* A number is put away as packed decimal (of whose six sign codes another
\* program may have chosen another one, or damaged the rest in a way that
\* shows), and read again with a check.
SignCodes(neg) == IF neg THEN {DECPMINUS, DECPMINUSALT} ELSE {10, DECPPLUS, 14, 15}

Damages(image) ==
  {[image EXCEPT !.packed.sign = 5],
   IF image.kind = "fin" THEN [image EXCEPT !.exp = DECQMAX + 1]
                         ELSE [image EXCEPT !.packed.coef = Power(10, DECPMAX - 1)],
   IF image.kind = "fin" THEN [image EXCEPT !.exp = DECQTINY - 1]
                         ELSE [image EXCEPT !.packed.pad = 1]}

Unpack(op, res, df, image) ==
  CallWith(op, res, df, regs[res], df,
           Quietly(decFloatFromPackedChecked(regs[res], image.kind, image.exp,
                                             image.packed)))

FloatPacked ==
  /\ Ready("Packed")
  /\ \E res \in Reg, df \in Args :
       LET image == decFloatToPacked(df)
       IN  \/ \E code \in SignCodes(df.neg) :
                Unpack("Packed", res, df, [image EXCEPT !.packed.sign = code])
           \/ \E damaged \in Damages(image) : Unpack("Damaged", res, df, damaged)

Next == \/ FloatAdd \/ FloatSubtract \/ FloatMultiply \/ FloatFMA
        \/ FloatDivide \/ FloatDivideInteger
        \/ FloatRemainder \/ FloatRemainderNear
        \/ FloatQuantize \/ FloatToIntegralExact \/ FloatToIntegralValue
        \/ FloatToInt32 \/ FloatCompare \/ FloatCompareSignal
        \/ FloatCompareTotal \/ FloatCompareTotalMag
        \/ FloatMax \/ FloatMin \/ FloatMaxMag \/ FloatMinMag
        \/ FloatPlus \/ FloatMinus \/ FloatAbs \/ FloatReduce
        \/ FloatNextPlus \/ FloatNextMinus \/ FloatNextToward
        \/ FloatShift \/ FloatRotate \/ FloatScaleB \/ FloatLogB
        \/ FloatAnd \/ FloatOr \/ FloatXor \/ FloatInvert
        \/ FloatCopySign \/ FloatCopyAbs \/ FloatCopyNegate
        \/ FloatSetCoefficient \/ FloatSetExponent \/ FloatFromWider
        \/ FloatPacked

Spec == Init /\ [][Next]_vars
-----------------------------------------------------------------------------
(***************************************************************************)
(* Properties of the last call.                                            *)
(***************************************************************************)
Ref == INSTANCE DecReference

TypeOK == /\ regs \in [Reg -> decFloat]
          /\ round \in Roundings
          /\ status \subseteq DEC_Flags
          /\ calls \in 0 .. MaxCalls

\* The context of decNumber arithmetic that the format stands for.
FormatContext == [digits |-> DECPMAX, emax |-> DECEMAX, emin |-> DECEMIN,
                  round |-> last.round, traps |-> {}, status |-> {},
                  clamp |-> TRUE, extended |-> TRUE]

\* The flags decFloats do not have: they are informational.
Told(flags) == flags \ {"Rounded", "Subnormal", "Clamped"}
Untold == SUBSET {"Rounded", "Subnormal", "Clamped"}

\* A product so long that an addend which overlaps it lies beyond the rounding
\* digit: reduced to one digit, the addend carries nothing into the product.
SwallowsAddend ==
  LET product == decFiniteMultiply(last.l, last.r)
  IN  /\ last.op = "FMA" /\ ~AnySpecial(last.l, last.r) /\ ~DFISSPECIAL(last.f)
      /\ product.exp - last.f.exp \in 1 .. CoefLength(last.f.coef) - 1
      /\ Reduced(product, Num(last.f)) # Num(last.f)

\* A total order of NaNs of which the payloads differ before the last word: it
\* goes on after the first difference, and may return that of a later one.
PayloadsMisread(op, l, r) ==
  /\ op \in {"CompareTotal", "CompareTotalMag"} /\ DFISNAN(l) /\ l.kind = r.kind
  /\ op = "CompareTotal" => l.neg = r.neg
  /\ l.coef \div Power(10, WORD) # r.coef \div Power(10, WORD)

\* The calls on which decFloats differ from decNumbers by design (the sign of a
\* zero under plus and minus in FLOOR, the exponent of a number shifted out,
\* and a quiet NaN added to infinity times zero), or from the exact result.
Differs == \/ last.op \in {"Plus", "Minus"} /\ last.round = "FLOOR" /\ DFISZERO(last.l)
           \/ last.op = "Shift" /\ last.r.coef = DECPMAX
           \/ last.op = "FMA" /\ DFISNAN(last.f)
           \/ SwallowsAddend
           \/ PayloadsMisread(last.op, last.l, last.r)

\* Whatever operation was called, in any rounding mode, on any two decFloats
\* (zeros of any exponent, subnormals, the largest numbers, infinities, NaNs,
\* non-canonical encodings): the result and the flags are those of the exact
\* result rounded once.  Fast paths, sticky digits, the clamped gap of an
\* addition and the reduced addend of a fused multiply-add change nothing, unless
\* that addend overlaps a product longer than the format (SwallowsAddend); and
\* total orders tell NaNs apart by payloads that differ in the last four digits
\* only (those that differ before them may come out in the wrong order, see
\* PayloadsMisread).
FloatsAreCorrect ==
  LET result(flags) == [n |-> AsNumber(last.n), status |-> Told(last.status) \cup flags]
      l == AsNumber(last.l)
      r == AsNumber(last.r)
  IN  ~Differs =>
        /\ last.op \in Ref!Promised =>
             \E flags \in Untold : Ref!Correct(last.op, l, r, FormatContext, result(flags))
        /\ last.op = "FMA" =>
             \E flags \in Untold :
               Ref!CorrectFMA(l, r, AsNumber(last.f), FormatContext, result(flags))

\* Setting an exponent and narrowing round the number once too, whether it
\* comes out tiny, as an overflow, as a zero or folded down; a special value
\* keeps its kind and sign, and of its payload the last digits.
NarrowingRounds ==
  LET exp == IF last.op = "SetExponent" THEN last.r.exp ELSE last.l.exp
      kind == IF last.op = "SetExponent" THEN last.r.kind ELSE last.l.kind
      exact == Ref!RoundTo(last.l.neg, IF DFISINF(last.l) THEN 0 ELSE last.l.coef, exp,
                           FormatContext)
  IN  last.op \in {"SetExponent", "FromWider"} =>
        IF kind = "fin"
        THEN AsNumber(last.n) = exact.n /\ Told(exact.status) = last.status
        ELSE /\ last.n.kind = kind /\ last.n.neg = last.l.neg /\ last.status = {}
             /\ last.n.coef = IF kind = "inf" \/ DFISINF(last.l) THEN 0
                              ELSE last.l.coef % Power(10, DECPMAX - 1)

\* An integer is returned exactly when the number, rounded, is in the range of
\* the type; the exact forms tell when it was rounded.
IntegersInRange ==
  LET whole == Ref!RefToIntegral(AsNumber(last.l), last.round).n
      value == Ref!Signed(whole) * Power(10, IF whole.exp > 0 THEN whole.exp ELSE 0)
      ok == /\ last.l.kind = "fin"
            /\ value \in IF last.op = "ToUInt32" THEN 0 .. 2 * INT32MAX + 1
                                                 ELSE -INT32MAX - 1 .. INT32MAX
  IN  last.op \in {"ToInt32", "ToUInt32"} =>
        IF ok THEN last.int = value /\ last.status \subseteq {"Inexact"}
        ELSE last.int = 0 /\ "Invalid_operation" \in last.status

\* A number put away as packed decimal is read back as it was, canonical,
\* unless it was damaged: then the register keeps what it had.
PackedRoundTrip ==
  /\ last.op = "Packed" => last.n = decCanonical(last.l)
  /\ last.op = "Damaged" => last.n = last.r
=============================================================================
