---------------------------- MODULE DecCalculator ----------------------------
(***************************************************************************)
(* A program that computes with decNumbers in one context.  Its variables  *)
(* are the registers; the operands of a call are registers or literals,    *)
(* any register may take the result, and the context is shared by all      *)
(* calls (a decContext of the C API, or the thread_local context that      *)
(* DecNumber.hh passes to every operator).  The context and its trap       *)
(* signal are those of DecContext.                                         *)
(***************************************************************************)
EXTENDS DecElementary, DecUnits

CONSTANTS Reg,         \* the program's variables
          Literals,    \* the numbers it writes down
          Singles,     \* those it takes one-operand operations of
          Fused,       \* the triples it takes fused multiply-adds of
          Elementary,  \* its calls of elementary functions, with their operands
          Contexts,    \* the contexts a program may start with
          Ops,         \* the operations it uses
          MaxCalls,    \* bound on the number of calls
          DECEXTFLAG, DecNumDigits, Words, Names, Modes   \* of DecContext

ASSUME CalculatorAssumption == /\ Literals \subseteq Number
                               /\ Singles \subseteq Number
                               /\ Fused \subseteq Number \X Number \X Number
                               /\ Elementary \subseteq [op: STRING, l: Number, r: Number]
                               /\ Contexts \subseteq decContext
                               /\ Modes \subseteq Roundings
                               /\ MaxCalls \in Nat

VARIABLES regs, ctx, saved, signal, snapshot,
          last,        \* history: the last call, its inputs and its outcome
          calls        \* operations called so far, at most MaxCalls

Context == INSTANCE DecContext

vars == <<regs, ctx, saved, signal, snapshot, last, calls>>

NoCall == [op |-> "none", l |-> decNumberZero, r |-> decNumberZero,
           f |-> decNumberZero, set |-> {}, n |-> decNumberZero, status |-> {}]

Init == /\ regs = [x \in Reg |-> decNumberZero]
        /\ ctx \in Contexts
        /\ saved = {}
        /\ signal = {}
        /\ snapshot = [status |-> {}, mask |-> {}]
        /\ last = NoCall
        /\ calls = 0

(***************************************************************************)
(* The result is stored first; then the flags are or-ed into the context,  *)
(* and trap.  ToIntegralValue updates the status without trapping.         *)
(***************************************************************************)
CallWith(op, res, l, r, f, out) ==
  /\ regs' = [regs EXCEPT ![res] = out.n]
  /\ Context!Update([ctx EXCEPT !.status = @ \cup out.status],
                    IF op = "ToIntegralValue" THEN {} ELSE out.status)
  /\ last' = [op |-> op, l |-> l, r |-> r, f |-> f, set |-> ctx,
              n |-> out.n, status |-> out.status]
  /\ calls' = calls + 1
  /\ UNCHANGED <<saved, snapshot>>

\* Only FMA has a third operand.
Call(op, res, l, r, out) == CallWith(op, res, l, r, decNumberZero, out)

\* A call can be made: no handler is running, and (the bound) not too many were.
Ready(op) == op \in Ops /\ signal = {} /\ calls < MaxCalls

Values == {regs[x] : x \in Reg}
Args == Literals \cup Values

Binary(op, F(_, _, _)) ==
  Ready(op) /\ \E res \in Reg, l, r \in Args : Call(op, res, l, r, F(l, r, ctx))
Unary(op, F(_, _)) ==
  Ready(op) /\ \E res \in Reg, n \in Singles \cup Values : Call(op, res, n, n, F(n, ctx))

NumberAdd == Binary("Add", decNumberAdd)
NumberSubtract == Binary("Subtract", decNumberSubtract)
NumberMultiply == Binary("Multiply", decNumberMultiply)
NumberDivide == Binary("Divide", decNumberDivide)
NumberDivideInteger == Binary("DivideInteger", decNumberDivideInteger)
NumberRemainder == Binary("Remainder", decNumberRemainder)
NumberRemainderNear == Binary("RemainderNear", decNumberRemainderNear)
NumberAnd == Binary("And", decNumberAnd)
NumberOr == Binary("Or", decNumberOr)
NumberXor == Binary("Xor", decNumberXor)
NumberShift == Binary("Shift", decNumberShift)
NumberRotate == Binary("Rotate", decNumberRotate)
NumberScaleB == Binary("ScaleB", decNumberScaleB)
NumberQuantize == Binary("Quantize", decNumberQuantize)
NumberRescale == Binary("Rescale", decNumberRescale)
NumberCompare == Binary("Compare", decNumberCompare)
NumberCompareSignal == Binary("CompareSignal", decNumberCompareSignal)
NumberCompareTotal == Binary("CompareTotal", decNumberCompareTotal)
NumberCompareTotalMag == Binary("CompareTotalMag", decNumberCompareTotalMag)
NumberMax == Binary("Max", decNumberMax)
NumberMin == Binary("Min", decNumberMin)
NumberMaxMag == Binary("MaxMag", decNumberMaxMag)
NumberMinMag == Binary("MinMag", decNumberMinMag)
NumberSameQuantum == Binary("SameQuantum", decNumberSameQuantum)
NumberCopySign == Binary("CopySign", decNumberCopySign)
NumberNextToward == Binary("NextToward", decNumberNextToward)

NumberInvert == Unary("Invert", decNumberInvert)
NumberLogB == Unary("LogB", decNumberLogB)
NumberPlus == Unary("Plus", decNumberPlus)
NumberMinus == Unary("Minus", decNumberMinus)
NumberAbs == Unary("Abs", decNumberAbs)
NumberReduce == Unary("Reduce", decNumberReduce)
NumberNextMinus == Unary("NextMinus", decNumberNextMinus)
NumberNextPlus == Unary("NextPlus", decNumberNextPlus)
NumberToIntegralExact == Unary("ToIntegralExact", decNumberToIntegralExact)
NumberToIntegralValue == Unary("ToIntegralValue", decNumberToIntegralValue)
NumberCopyAbs == Unary("CopyAbs", decNumberCopyAbs)
NumberCopyNegate == Unary("CopyNegate", decNumberCopyNegate)

NumberFMA ==
  /\ Ready("FMA")
  /\ \E res \in Reg, t \in Fused :
       CallWith("FMA", res, t[1], t[2], t[3], decNumberFMA(t[1], t[2], t[3], ctx))

\* The elementary functions, of operands chosen for each (a logarithm that
\* has to be iterated is not modelled).
Called(op) == {e \in Elementary : e.op = op}

NumberSquareRoot ==
  /\ Ready("SquareRoot")
  /\ \E res \in Reg, e \in Called("SquareRoot") : \E approx \in RootChoices(e.l, ctx) :
       Call("SquareRoot", res, e.l, e.l, decNumberSquareRoot(e.l, approx, ctx))

NumberPower ==
  /\ Ready("Power")
  /\ \E res \in Reg, e \in Called("Power") :
       /\ ~NeedsLogarithm(e.l, e.r, ctx)
       /\ Call("Power", res, e.l, e.r, decNumberPower(e.l, e.r, ctx))

NumberExp ==
  /\ Ready("Exp")
  /\ \E res \in Reg, e \in Called("Exp") :
       Call("Exp", res, e.l, e.l, decNumberExp(e.l, ctx))

NumberLn ==
  /\ Ready("Ln")
  /\ \E res \in Reg, e \in Called("Ln") :
       /\ ~NeedsIteration("Ln", e.l, ctx)
       /\ Call("Ln", res, e.l, e.l, decNumberLn(e.l, ctx))

NumberLog10 ==
  /\ Ready("Log10")
  /\ \E res \in Reg, e \in Called("Log10") :
       /\ ~NeedsIteration("Log10", e.l, ctx)
       /\ Call("Log10", res, e.l, e.l, decNumberLog10(e.l, ctx))

\* In place.
NumberTrim ==
  /\ Ready("Trim")
  /\ \E x \in Reg : Call("Trim", x, regs[x], regs[x], decNumberTrim(regs[x], ctx))

\* Between calls the program looks after its context; a conversion from a
\* string reports through decContextSetStatus too.  (Saving and restoring
\* the status is checked with DecContext alone.)
Housekeeping ==
  /\ \/ \E word \in Words : \/ Context!decContextClearStatus(word)
                            \/ Context!decContextSetStatus(word)
                            \/ Context!setTraps(word)
     \/ \E mode \in Modes : Context!decContextSetRounding(mode)
     \/ Context!HandleSignal
  /\ UNCHANGED <<regs, last, calls>>

Next == \/ NumberAdd \/ NumberSubtract \/ NumberMultiply
        \/ NumberDivide \/ NumberDivideInteger
        \/ NumberRemainder \/ NumberRemainderNear \/ NumberFMA
        \/ NumberAnd \/ NumberOr \/ NumberXor \/ NumberInvert
        \/ NumberShift \/ NumberRotate \/ NumberScaleB \/ NumberLogB
        \/ NumberQuantize \/ NumberRescale \/ NumberCompare
        \/ NumberCompareSignal \/ NumberCompareTotal
        \/ NumberCompareTotalMag \/ NumberMax \/ NumberMin
        \/ NumberMaxMag \/ NumberMinMag \/ NumberSameQuantum
        \/ NumberCopySign \/ NumberNextToward \/ NumberPlus
        \/ NumberMinus \/ NumberAbs \/ NumberReduce
        \/ NumberNextMinus \/ NumberNextPlus
        \/ NumberToIntegralExact \/ NumberToIntegralValue
        \/ NumberCopyAbs \/ NumberCopyNegate \/ NumberTrim
        \/ NumberSquareRoot \/ NumberPower \/ NumberExp
        \/ NumberLn \/ NumberLog10
        \/ Housekeeping

Spec == Init /\ [][Next]_vars
-----------------------------------------------------------------------------
(***************************************************************************)
(* Properties of the last call.                                            *)
(***************************************************************************)
Ref == INSTANCE DecReference

\* Registers hold numbers (at least one digit, a natural coefficient); the
\* context keeps its types through every call.
TypeOK == /\ regs \in [Reg -> Number]
          /\ calls \in 0 .. MaxCalls
          /\ Context!TypeOK

Arithmetic == {"Add", "Subtract", "Multiply", "Plus", "Minus", "Abs", "Reduce",
               "Divide", "DivideInteger", "Remainder", "RemainderNear",
               "FMA", "And", "Or", "Xor", "Invert", "Shift", "Rotate",
               "ScaleB", "LogB", "Max", "Min", "MaxMag", "MinMag",
               "Quantize", "Rescale"}

Rescales == last.op \in {"Quantize", "Rescale"}
Integrates == last.op \in {"ToIntegralExact", "ToIntegralValue"}

\* The remainder of a zero is not finished: its exponent is the lower one of
\* the operands, which may both lie outside the context.
ZeroRemains == Remains(last.op) /\ ISZERO(last.l) /\ last.r.kind = "fin"
                 /\ ~(/\ Ref!IsRepresentable(last.l, last.set)
                      /\ Ref!IsRepresentable(last.r, last.set))

\* Shift, rotate and scaleB take their operand as it is, however long.
LongMoves == last.op \in {"Shift", "Rotate", "ScaleB"}
               /\ last.l.digits > last.set.digits

\* The inverse that a negative power starts with overflows.
InverseOverflows ==
  last.op = "Power" /\ last.l.kind = "fin" /\ last.r.kind = "fin" /\ last.r.neg
    /\ "Overflow" \in Ref!RefDivide(One, last.l, [last.set EXCEPT !.round = "HALF_EVEN"]).status

\* The exponential overflows.
ExpOverflows == last.op = "Exp" /\ "Overflow" \in last.status

\* Log10 copies a NaN with the payload its logarithm was worked out with.
LongPayload == last.op = "Log10" /\ IsNaN(last.l) /\ last.l.digits > last.set.digits

\* A sum whose higher addend is so long that the lower one, which overlaps it,
\* lies beyond the rounding digit: decAddOp takes the lower one for a residue
\* (decNumber.c:3999), and what it would carry into the higher one is lost.
Swallowed(a, b) ==
  LET low == IF a.exp > b.exp THEN b ELSE a
      high == IF a.exp > b.exp THEN a ELSE b
  IN  /\ a.kind = "fin" /\ b.kind = "fin" /\ ~ISZERO(a) /\ ~ISZERO(b)
      /\ high.exp - low.exp \in 1 .. low.digits - 1
      /\ high.digits + high.exp > low.digits + low.exp + last.set.digits + 1

SwallowsAddend ==
  \/ last.op \in {"Add", "Subtract"} /\ Swallowed(last.l, last.r)
  \/ /\ last.op = "FMA" /\ last.l.kind = "fin" /\ last.r.kind = "fin"
     /\ Swallowed(Ref!Finite(FALSE, last.l.coef * last.r.coef, last.l.exp + last.r.exp), last.f)

\* The calls on which the code departs from the promise below: each is the
\* subject of a property of its own, or named in ResultFits.
Departs == \/ ZeroRemains \/ LongMoves \/ InverseOverflows \/ LongPayload \/ SwallowsAddend
           \/ Rescales /\ "Overflow" \in last.status
           \/ Integrates /\ last.set.status # {}

\* The calls on which clamping moves the exponent an operation asks for.
\* (ToIntegral works at the length of its operand, and folds down from there.)
Folds == \/ Rescales /\ "Clamped" \in last.status
         \/ Integrates /\ last.l.kind = "fin" /\ last.l.digits > last.set.emax + 1

\* What such a call returns: the same value, or a NaN for an integer beyond
\* the range of the context.
FoldedFrom(exact) ==
  /\ exact.kind = "fin"
  /\ \/ last.n.kind = "fin" /\ Ref!RefCompare(last.n, exact) = 0
     \/ /\ Integrates /\ last.n.kind = "nan"
        /\ exact.exp + exact.digits - 1 > last.set.emax

\* Every operation returns, to the digit and to the flag, what exact
\* arithmetic followed by one rounding returns: in any rounding mode, for
\* operands longer than the precision (but see SwallowsAddend), beyond the exponent range, zero,
\* infinite or NaN, and whichever path (one Unit, residue, aligned) the code
\* takes.  Where clamping moves the exponent, the value is the same, and only
\* an integer beyond the range of the context is refused.  (Extended
\* arithmetic.  When quantize gives up after rounding, the flags of that
\* rounding may stay; they are left out here.)
CorrectResult ==
  LET stale == IF Rescales /\ "Invalid_operation" \in last.status
               THEN {"Inexact", "Rounded"} ELSE {}
      result == [n |-> last.n, status |-> last.status \ stale]
  IN  last.op \in Ref!Promised \cup {"FMA"} /\ last.set.extended /\ ~Departs =>
        IF last.op = "FMA"
        THEN Ref!CorrectFMA(last.l, last.r, last.f, last.set, result)
        ELSE IF Folds
        THEN FoldedFrom(Ref!Reference(last.op, last.l, last.r, last.set).n)
        ELSE Ref!Correct(last.op, last.l, last.r, last.set, result)

\* The square root is the nearest number of the context, whichever the
\* approximation it was corrected from, and exact as well as rounded roots are
\* told apart, with the exponent closest to half the operand's.
RootsAreNearest ==
  last.op = "SquareRoot" /\ last.set.extended =>
    Ref!Correct("SquareRoot", last.l, last.l, last.set, [n |-> last.n, status |-> last.status])

\* A power or an exponential is one of the two numbers of the context around
\* the exact value ("up to 1 ulp in error"), with the flags of that value: no
\* more is lost in the squarings, and the series ends late enough.
WithinOneUnit ==
  last.op \in {"Power", "Exp"} /\ last.set.extended /\ ~Departs =>
    Ref!Correct(last.op, last.l, last.r, last.set, [n |-> last.n, status |-> last.status])

\* The comment of decCheckNumber: a number that comes out of an operation is
\* one it accepts (no leading zeros, a clean infinity, an exponent in range).
\* Not so when exp overflows: decExpOp (decNumber.c:5480) takes the infinity
\* for digits with more to come, and a rounding upward makes its coefficient 1.
ValidNumbers ==
  \A x \in Reg :
    LET n == regs[x]
    IN  /\ n.kind = "inf" => n = Infinity(n.neg) \/ ExpOverflows
        /\ IsNaN(n) => n.exp = 0
        /\ n.kind = "fin" =>
             /\ n.digits = decGetDigits(n.coef, n.digits)
             /\ n.coef < TenTo[n.digits]
             /\ n.exp + n.digits - 1 \in 1 - 2 * DECNUMMAXE .. DECNUMMAXE

\* The flags of an arithmetic operation tell one story (see OneStory); one that
\* reports an error returns a NaN.
FlagsTellOneStory ==
  last.op \in Arithmetic =>
    /\ OneStory(last.status)
    /\ last.status \cap DEC_NaNs # {} => last.n.kind = "nan"

\* What an arithmetic operation returns fits the context it ran in, whatever
\* its operands were.  (The remainder of a zero, a shift, a rotation and scaleB
\* do so if they did; shift and rotate do not look at the exponent, so that a
\* digit moved left from an exponent above Etop may leave the range.)
ResultFits ==
  /\ last.op \in Arithmetic
  /\ ~ZeroRemains
  /\ last.op \in {"Shift", "Rotate", "ScaleB"} => Ref!IsRepresentable(last.l, last.set)
  /\ last.op \in {"Shift", "Rotate"} => last.l.exp <= Etop(last.set)
  => Ref!IsRepresentable(last.n, last.set)

\* On arrays of Units, in the order the code reads and writes them, a sum, a
\* short product, a comparison, a shift or a rotation gives the same number and
\* flags as on values, whether the result has storage of its own or takes that
\* of an operand or of both.
UnitsKeepValues ==
  OnUnits(last.op, last.l, last.r, last.set) =>
    \A s \in Sharings(last.l, last.r) :
      InPlace(last.op, last.l, last.r, s, last.set) = [n |-> last.n, status |-> last.status]

\* The answers of CompareTotal are those of one total order on the literals:
\* antisymmetric and transitive, so that a sort by it is well defined.
TotalOrderIsTotal ==
  last.op = "CompareTotal" =>
    LET total(l, r) == decNumberCompareTotal(l, r, last.set).n.neg
    IN  \A z \in Literals :
          /\ ~(total(last.l, last.r) /\ total(last.r, last.l))
          /\ total(last.l, last.r) /\ total(last.r, z) => total(last.l, z)

\* Stepping back from the neighbour of a number of the context returns to it.
NeighboursInvert ==
  LET back == IF last.op = "NextPlus" THEN decNumberNextMinus(last.n, last.set).n
                                      ELSE decNumberNextPlus(last.n, last.set).n
  IN  /\ last.op \in {"NextPlus", "NextMinus"}
      /\ last.l.kind = "fin"
      /\ Ref!IsRepresentable(last.l, last.set)
      => Ref!RefCompare(back, last.l) = 0

\* Subset arithmetic reports Lost_digits exactly when an operand had nonzero
\* digits beyond the precision.
LostDigits ==
  LET lost(n) == /\ n.digits > last.set.digits
                 /\ n.coef % TenTo[n.digits - last.set.digits] # 0
  IN  /\ last.op \in Arithmetic
      /\ ~last.set.extended
      /\ last.l.kind = "fin" /\ last.r.kind = "fin"
      => ("Lost_digits" \in last.status <=> lost(last.l) \/ lost(last.r))

\* Trimming a register changes neither its value nor its sign, whatever came
\* before, and leaves no fraction that ends in a zero.
TrimKeepsValue ==
  LET n == last.n
  IN  last.op = "Trim" /\ last.l.kind = "fin" =>
        /\ Ref!RefCompare(n, last.l) = 0 /\ n.neg = last.l.neg
        /\ n.exp < 0 => n.coef % 10 # 0

\* A trap finds the flags that caused it recorded and enabled, after any
\* sequence of calls.
SignalSeesStatus == Context!SignalSeesStatus
-----------------------------------------------------------------------------
(***************************************************************************)
(* What the comments promise and the code does not keep.                   *)
(***************************************************************************)
\* decQuantizeOp: "an overflow here is a 'don't fit' situation", an invalid
\* operation and not an overflow.
QuantizeNeverOverflows == Rescales => "Overflow" \notin last.status

\* decNumberToIntegralExact: "have a finite number; no error possible".
IntegralNeverFails ==
  Integrates /\ last.l.kind = "fin" => last.n.kind = "fin"

\* decNumberPower: "The final result is rounded according to the context; it
\* will almost always be correctly rounded, but may be up to 1 ulp in error in
\* rare cases."
PowerIsRounded ==
  last.op = "Power" /\ last.set.extended =>
    Ref!Correct("Power", last.l, last.r, last.set, [n |-> last.n, status |-> last.status])

\* decNumberFMA: "This computes D = (A * B) + C with only one rounding".
FusedRoundsOnce ==
  last.op = "FMA" /\ last.set.extended =>
    Ref!CorrectFMA(last.l, last.r, last.f, last.set, [n |-> last.n, status |-> last.status])
==============================================================================
