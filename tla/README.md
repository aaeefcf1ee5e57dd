# CppDecimal in TLA+

CppDecimal wraps Mike Cowlishaw's decNumber library (C) in C++ classes. The
library computes with decimal numbers under a *context*: a precision, an
exponent range, a rounding mode, a word of sticky status flags and a word of
traps. It stores them in interchange formats and packed decimal, and has a
second arithmetic, the decFloats, that works on a format directly. This
directory specifies all of these, model-checks them with TLC against
an independent statement of what decimal arithmetic promises, and proves with
TLAPS what section 4 says is proved.

All line numbers refer to the files under `src/src/`.

## 1. The system

### Components

| Component | Code | State | Operations |
|---|---|---|---|
| Context | `decContext.c/.h` | `digits`, `emax`, `emin`, `round`, `traps`, `status`, `clamp`, `extended` | clear / zero / set / quietly set / save / restore / test status, status from and to a name, rounding, defaults |
| C++ context | `DecContext.hh/.cc` | one `decContext`; a `thread_local` one shared by all `DecNumber`s of a thread | constructor, setters, the C calls |
| Numbers | `decNumber.h` | sign, kind, digits, exponent, array of Units of DECDPUN (2) digits | |
| Rounding chain | `decNumber.c` 6900-7540, 7650-7760 | a result in the making: coefficient, residue, flags | `decSetCoeff`, `decCopyFit`, `decApplyRound`, `decFinalize`, `decSetOverflow`, `decSetSubnormal`, `decNaNs`, `decStatus` |
| Sum, product, quantize | `decNumber.c` 3820-4260, 4870-5160, 5800-5990 | none (values in, value and flags out) | `decAddOp`, `decMultiplyOp`, `decQuantizeOp` and the public functions around them |
| Division | `decNumber.c` 4270-4800 | the dividend being reduced, the quotient being accumulated | divide, divideInteger, remainder, remainderNear |
| Comparison | `decNumber.c` 5990-6330 | none | compare, signal, total order, min, max, their magnitude forms |
| One operand | `decNumber.c` | none | plus, minus, abs, reduce, trim, next minus/plus/toward, to-integral, copies |
| Digits | `decNumber.c` | none | fma, and/or/xor/invert, shift, rotate, scaleB, logB |
| Elementary functions | `decNumber.c` | the iterate | squareRoot, power, exp, ln, log10 |
| Conversions | `decNumber.c` | none | from/to string, Int, uInt, BCD |
| Formats | `decimal32/64/128.c`, `decDPD.h` | words: sign, combination field, exponent continuation, declets | from/to number and string, canonical |
| Packed decimal | `decPacked.c` | nibbles with a scale | from/to number |
| decFloats | `decBasic.c`, `decCommon.c`, `decSingle/Double/Quad.c` | the same words | arithmetic, comparison, conversions straight on the format |
| C++ numbers | `DecNumber.hh`, `DecSingle/Double/Quad.hh`, `DecPacked.hh` | one number each | operators and methods over the C calls |
| Stack allocator, tests | `short_alloc.h`, `src/tst` | none | |

### Interaction

A call of `decNumber.c` takes operands, a result and a context. It checks
nothing but the operands' kinds, computes in a working number, stores the
result, and *last* of all calls `decStatus`, which makes the result a NaN if an
error occurred, or-s the flags into `status` and raises `SIGFPE` if a
raised flag is trapped. A handler may `longjmp` out, hence the order. Many
public functions call other functions of the library in a changed copy of the
context: `decNumberNextMinus` adds in a private context with FLOOR and a tiny
operand, `decNumberToIntegralExact` quantizes in a clone with the precision of
the operand, a fused multiply-add multiplies at a precision that keeps every
digit, powers and exponentials compute at a few digits more.

Numbers travel: a string becomes a number or, directly, a decFloat; a number is
written into a format, or into packed decimal, and read back. decFloats and
decNumbers of one format share the words but no code: strings are read
by two different scanners, and rounded by two different routines.

### What is hard

Nothing in the library runs concurrently, waits, persists or sends messages.
What is hard is:

* *Rounding with residues.* The exact result is never formed. Digits that are
  dropped leave a small signed number, the residue, and what is dropped
  later is folded into it. There is one route per DECDPUN and position of
  the cut, a carry (99 -> 100) and a borrow (100 -> 99) that move the
  exponent, and a second rounding for subnormals. decFloats use sticky digits
  instead, with fast paths that must agree with the slow ones.
* *Alternative paths* for the same sum: one Unit, a zero operand, an operand so
  small it is a mere residue, alignment. Each decides digits, exponent, sign
  of zero and flags on its own.
* *Long division* guesses each Unit of the quotient from the leading Units, in a
  buffer computed beforehand; a guess too high has no way back, a guess of
  zero would not end the loop.
* *Limits.* Overflow to infinity or to the largest number, the subnormal
  range, fold-down when clamping, exponents that wrap around in 32 bits.
* *Encodings.* One value has many: cohorts, redundant declets, ignored
  bits, payloads, negative zeros; a chain of conversions must keep what it can and
  say what it cannot.
* *The flags.* Sticky, shared by all calls, saved and restored by groups,
  seen by a handler in the middle of a call, and left over from calls long ago.
* *Two arithmetics.* With `extended = 0` (subset) operands are rounded first, and
  some paths skip the final clean-up.

`PROJECT.json` lists these at their lines ("hazards") with the property
that would notice each going wrong.

### What makes each component correct

* Context: trap handlers find their flags; saved flags come back; names and
  flags correspond; nothing but the named flags changes.
* Arithmetic: every result is the exact result rounded once, in every
  mode, with exactly the flags of the standard; it fits the context; it is
  well formed in the library's own sense (`decCheckNumber`); errors are NaNs.
* Division: the estimate never exceeds the digit, the buffers suffice, the loop
  ends, and what it hands to the rounding chain is quotient or remainder.
* Square root: the nearest number. Power and exponential: at most one unit in the
  last place from the exact value, flagged accordingly.
* Comparison: agreement with the order of the values; the total order is one.
* Neighbours: nothing in between, and stepping back returns.
* Conversions, formats: round trips, one rounding, canonical forms, ranges.
* decFloats: the same results as decNumbers, by the same reference.

## 2. Modules

```
DecTypes -- DecContext ------------------------- MCContext, DecContextProofs
  |  \
  |   DecFloat -- DecFloatArith -- DecFloatDivide -- DecFloatOps
  |                                                     |
  |                                        DecFloatCalculator -- MCFloat, DecFloatProofs
DecRounding -- DecArith -- DecOps -- DecDivide -- DecDigits
                                                  /  |   \
                               DecElementary ----+   |    DecText -- DecFormat
                                   |   DecUnits -----+                  |
                                   |  /                                 |
                               DecCalculator -- MCCalculator       DecExchange
                                   |                                    |
            DecCalculatorProofs, DecCorrectProofs           MCExchange

DecPowers -- DecTypes (above), DecQuotient
   |                               |
   |                         DecLongDivision -- MCLongDivision     refines DecQuotient
   |                               |
DecPowersProofs ----------- DecLongDivisionProofs
   `-- DecContextProofs, DecCorrectProofs (above), DecFloatProofs -- DecFloatCorrectProofs -- DecFloatCallsProofs

DecReference                          instance Ref of DecCalculator, DecExchange
                                      and DecFloatCalculator
```

Lines are EXTENDS. Besides, `DecCalculator` has `DecContext` as the instance
`Context` (its context calls are steps of the calculator), and `DecFormat` has
`DecFloat` as the instance `Float` (the decFloats of the same format).
`DecCalculator` has its proofs in two modules: `DecCalculatorProofs` (flags and traps, for
all operations) and `DecCorrectProofs` (digits: the rounding chain, and operations that end in
it). `DecFloatCalculator` has its proofs in a chain of three:
`DecFloatProofs` (what `decFinalize` and the integer conversions do, and that every
result is a datum), `DecFloatCorrectProofs` (right answers, tails and their rounding, sums,
products, quantize, exponents) and `DecFloatCallsProofs` (comparisons, operations on digits,
and the calls themselves).
`DecPowersProofs` holds what proofs about digits and Units need of powers, and least members of sets.

| Module | Models |
|---|---|
| `DecTypes` | `decNumber`, `decContext`, flags, roundings, `Etiny`, `Etop`, `decGetDigits`. |
| `DecContext` | `decContext.c`, and the class around it. One action per call. |
| `DecRounding` | The rounding chain: `SetCoeff` up to `Finalize`, overflow, subnormal, NaN propagation, rounding of subset operands. |
| `DecArith` | `decAddOp`, `decMultiplyOp`, `decQuantizeOp`, one operator per path of the code. |
| `DecOps` | Comparison and one-operand operations, up to the public functions, which end in `decStatus`. |
| `DecDivide` | `decDivideOp` on values: special operands, quick exits, the quotient with its residue, the clean-up of zeros and of remainders. |
| `DecDigits` | Fused multiply-add, logical operations, shift, rotate, scaleB, logB, `decGetInt`. |
| `DecUnits` | Coefficients as arrays of Units in buffers that a result may share with its operands: `decUnitAddSub`, `decAddOp`, short products, `decUnitCompare`, shift and rotate, each reading and writing in the order of the code. |
| `DecElementary` | Square root, powers by integers, exponential, logarithms without iteration. |
| `DecCalculator` | A program that uses the library: registers, a shared context, one action per public function, housekeeping of flags between calls. |
| `DecQuotient`, `DecLongDivision` | What a long division promises: quotient digits that keep `lhs = quotient * rhs + rest`, until there are enough or none are left; and the two loops of `decDivideOp` that keep it. |
| `DecPowers` | Powers of a base (`Power`) and how many places a number has to it (`Places`), as recursive functions, about which can be proved what `^` keeps to itself. Division, decFloats and the reference count with them. |
| `DecText` | Strings, Int and uInt, BCD, packed decimal. |
| `DecFormat` | The words of the formats, declets bit by bit, their conversions; the string reader of decFloats. |
| `DecExchange` | A program that sends one number through a chain of conversions. |
| `DecFloat`, `DecFloatArith`, `DecFloatDivide`, `DecFloatOps` | `decFinalize` and parts; sum, product, fma; division; everything else of `decBasic.c`. |
| `DecFloatCalculator` | A program that computes with decFloats. |
| `...Proofs` | Theorems and lemmas about the module they are named for. |
| `DecReference` | The abstract specification: exact integers rounded once. Translated from no code. |
| `MC...` | Small sets of words, operands and contexts for TLC. |

How code maps to model ("map" in `PROJECT.json` gives the lines):

* *A number* is a record `[neg, kind, digits, coef, exp]`. The Unit array is the
  integer `coef` it holds (except in `DecUnits`, below); `digits` stays a field of its own because the code
  carries it separately and gets it wrong if a path forgets to recount.
  DECDPUN is a constant: the routes that depend on it (`decSetCoeff` cutting at
  a Unit boundary, the one-Unit sum, the NaN payload cut) are modelled.
  `INT_MAX` is the constant `IntMax`, and the exponent sum of a product wraps
  modulo `2 * (IntMax + 1)`.
* *A result in the making* is `[n, residue, status]`; each C routine with
  `decContext *set, Int *residue, uInt *status` parameters is an operator from
  one such record to the next, in the order of the calls.
* *A call* (`DecCalculator!Call`) is one step: result stored, flags or-ed in,
  `SIGFPE` raised. What a handler may observe is the state after that step,
  with `signal` holding the bits; no call is made until `HandleSignal`.
* *The long division* is the exception: there a step is one turn of a loop.
  The Units of dividend and divisor are the digits, to the base
  `Radix^DECDPUN`, of the integers `var1` and `var2`.
* *A square root* starts from any approximation within `RootError` units of
  its last digit (an exact root is found exactly, as the code's iteration
  does); the steps from there to the result are the code's.
* *A word* is a record of its fields. A declet is its ten bits; `BIN2DPD` and
  `DPD2BIN` are computed by the rule the tables were generated from, redundant
  declets included. The order of the fields' bits within machine words is left out.
* *A string* is what the scanners tell apart: sign, special word, leading zeros,
  digits, places after the point, E-part with its own length.
* *A decFloat* is the number its words encode and whether they are canonical;
  the base-billion units and DPD of its arithmetic are the integers they hold.
* *History variables* (`last`, `snapshot`, `origin`, `used`) record the calls to
  be judged. The code has no such state, and no guard reads them.
* *Values and storage.* The operators compute on values, where a result
  overwriting its operand cannot go wrong. `DecUnits` therefore has the operations
  that write digits before they have read all of them once more, on a memory of
  named buffers: a place is a buffer and an index, each write is a new memory,
  a sum is one `Put` per Unit. What is above the digits of a number, or in
  storage just allocated, is `Junk`. Where the code goes on to the common rounding
  chain, so does the model, with the value in `res` (`Held`). Allocation succeeds.

`DecReference` knows no residue and no path: `RoundTo` divides by a power of ten
and looks at the remainder. `CorrectResult` and `FloatsAreCorrect` say that what
the code-shaped operators returned is what the reference returns.

## 3. Runs

| Run | Explores | Properties |
|---|---|---|
| `MCContext` | all sequences of context calls over four words and four names, one of them no flag's | `TypeOK`, `SignalSeesStatus`, `NamesRoundTrip`, `RestoreUndoes` |
| `Arithmetic` | sums, products, quotients, remainders, fma, quantize, rescale, one-operand and elementary functions; eight modes, clamping in four, subset in three | `CorrectResult`, `RootsAreNearest`, `WithinOneUnit`, `ValidNumbers`, `FlagsTellOneStory`, `ResultFits`, `LostDigits` |
| `Compare` | comparisons, min/max, total order, neighbours, logical operations, shift, rotate, scaleB, logB on all pairs of literals; sums and products; all of them with three and six digits | `CorrectResult`, `TotalOrderIsTotal`, `NeighboursInvert`, `TypeOK`, `ValidNumbers`, `FlagsTellOneStory`, `ResultFits`, `UnitsKeepValues` |
| `Session` | two calls with flags, traps and rounding changed in between; products whose exponent wraps | `CorrectResult`, `SignalSeesStatus`, `TrimKeepsValue` |
| `LongDivision` | the division loops, for dividends to 1023 and divisors to 271 in base 4 | `NeverOverestimated`, `InsideBuffers`, `ResultIsRight`, `Terminates`, `KeepsPromise` |
| `Exchange` | chains of three conversions over a format of four digits | `TypeOK`, `ChainsKeepNumber`, `RoundedOnce`, `ReadersAgree`, `CanonicalIsUnique`, `EngineeringExponent`, `IntegersInRange` |
| `Floats` | all operations of decFloats of two digits, eight modes | `FloatsAreCorrect`, `IntegersInRange`, `NarrowingRounds`, `PackedRoundTrip`, `TypeOK` |

The five runs that expect a violation are in section 6. The runs of a program
end after `MaxCalls` calls, and a division ends with its result, hence
`CHECK_DEADLOCK FALSE`; `MCContext` checks deadlock.

### Bounds, and why they are enough

* `Arithmetic`: `Precision = 2`, `Emax = 2` (hence Etiny = -2, Etop = 1). The
  code compares digits, exponents and limits and adds them; two digits give a
  guard digit, a digit below it, a carry that lengthens the coefficient and a
  borrow that shortens it, and every exponent of `WideExps` (-4 .. 2) meets
  another limit. Coefficients of three digits (995) are longer than the
  precision and span two Units; five digits and an odd cut occur in NaN
  payloads (12345). The gap -4 .. 2 exceeds the precision, so the residue path
  of a sum is taken. One-operand operations run on every coefficient near a
  tie, a carry or a borrow, at ten exponents. All eight modes, since a residue
  decides; clamping in four and subset arithmetic in three, one of each
  direction. The same properties hold of both arithmetics, so they share a run.
* The operands of elementary functions: radicands with even and odd exponents,
  ties, exact roots and powers of ten up to beyond the range, approximated to
  four digits with an error of two units, worse than the method leaves;
  powers -3 .. 3, zeros, infinities and fractions that are refused;
  exponentials of -0.99 .. 0.99, of tiny operands and of 1E+8. Longer powers, longer
  exponents and exponentials from 1 on need more digits than TLC's integers hold.
* `Compare`: `Precision = 3`, odd and so not a multiple of DECDPUN: shifts and
  rotations end inside a Unit. One mode, for comparisons do not round. A second
  context of six digits (`Wide`) gives arrays of three Units and, with 1100 and
  10012 at exponents -3 .. 2, sums with whole Units below, gaps, borrows through
  every Unit and a longer rotation. `UnitsKeepValues` tries each call with the
  result apart from its operands, in the place of either, and of both when they
  are equal. Without clamping, since a fold-down pads in place afterwards.
* `Session` scales C's integers down (`IntMax = 10`, `DECNUMMAXE = 5`): the
  square of 5E-6 has an exponent that wraps, as at 2^31 with exponents near
  -10^9. `DECNUMMAXE <= IntMax / 2` holds as in C.
* `MaxCalls = 1` in `Arithmetic`, `Compare` and `Floats`: an operation reads only
  its operands and the context. The exception, to-integral reading old flags,
  is what `Session` (two calls) is for.
* `LongDivision`: `Radix = 4`, `DECDPUN = 2`, so that a Unit is 0 .. 15 and several
  Units meet; divisors just above and below powers of the base, where the
  estimate is worst; precisions 1 and 3, both parities against DECDPUN; scales
  from -3 to 5, so that a remainder's quotient has no digit, some, or too many.
* `Exchange`: one declet, hence four digits, and three bits of exponent
  continuation (Emax = 12, two digits), with integers of eight bits. Strings
  have fewer digits than the format, as many, and more than the reader's buffer
  (`BUFFER = 7`), exponents within and beyond the range, and up to eight leading
  zeros. Three conversions are enough to read, move and write. BCD arrays have one to
  five digits, so that they take as many Units as the digits they replace, with the top
  one full or not, or fewer, or more. In the last two cases `decNumberSetBCD` spoils the
  number (section 6); the step is taken, with two values for what is in memory, and
  ends there: `ChainsKeepNumber` and `TypeOK` except such a `Misfit`, and without
  that exception TLC finds it.
* `Floats`: `DECPMAX = 2`, `DECEMAX = 3`, divisions by units of two digits
  (`DIVUNIT`), Int32 up to 31; coefficients at ties, all nines and the integer
  limits. Payloads have one digit here, hence one word. The loop that compares those of several words
  is modelled for formats of every size (`PayloadDifference`) and proved right where the
  last word decides; where it is not (`PayloadsMisread`, section 6), nothing is claimed.
* `MCWords` has an error, an informational flag, both and none: the context
  code treats bits uniformly except for the groups `DEC_NaNs` and the traps.

The operators were also run side by side with the compiled library on some
26,000 operand pairs and contexts, with no difference in value, digits or flags.

### Fairness

`LongDivision` assumes `WF_vars(Next)`: a call of `decDivideOp`, once made,
runs to its end, and nothing else runs in the meantime. `Terminates` (every division
returns) needs it, for it is the loop, not the scheduler, that might not end.
`DecQuotient` states the same fairness, and `KeepsPromise` includes it: each
turn of the outer loop is a step of `DecQuotient`, each turn of the inner loop a
stutter, and stuttering does not go on for ever.

Nowhere else is fairness assumed or liveness stated. The library is sequential: every
other call is one step, and whether a program makes another is the program's
affair.

### Mutants

Each property has, in `PROJECT.json`, a mutant: a definition changed in the way
a slip in the code would change it (a guard digit taken without the digits
below it, a carry without the exponent, a restore that only or-s, an exponent
sum that is not checked for wrap, a root that is not corrected, a quotient
buffer without the room for leading zeros). The mutated forms stand in the
modules, marked `(mutant)`, beside what they mutate.

## 4. Theorems

| Theorem | Says, for all values of the constants |
|---|---|
| `ContextTypeOK` | every sequence of context calls keeps the types |
| `ContextSignalSeesStatus` | during a trap the raising flags are recorded and enabled |
| `ContextRestoreUndoes` | a restore reproduces the saved group and touches nothing else |
| `CalculatorSignalSeesStatus` | the promise about traps, for a program that makes any calls, elementary functions included |
| `CalculatorFlagsTellOneStory` | flags of every arithmetic operation are consistent, and errors are NaNs |
| `CalculatorCorrectResult` | of 14 operations of decNumbers (`Proved`: add, subtract, multiply, plus, minus, abs, the comparisons, total orders, maxima and minima): the exact result rounded once, to the digit and to the flag, at every precision, exponent range, mode, Unit size and length of operand |
| `NeverOverestimatedAlways` | the guess of a Unit of a quotient is never too high: what is subtracted in place stays positive, and the Unit below the base |
| `InsideBuffersAlways` | quotient and rest never outgrow the buffers that `decDivideOp` computed from precision and lengths, and nothing below them is read |
| `ResultIsRightAlways` | what the loops return is the quotient to the precision with a residue that says on which side of half the rest lies, the integer quotient, or the remainder |
| `TakesTheTurns` | each turn of the outer loop is a step of `DecQuotient`, each turn of the inner loop a stutter |
| `ContextNamesRoundTrip` | a status with one bit has a name that sets this bit again, one with several is named as such, with and without DECEXTFLAG |
| `FloatTypeOKAlways` | whatever functions of decFloats are called, on whatever arguments, the registers hold numbers the words can encode and the status flags |
| `NarrowingRoundsAlways` | setting an exponent and narrowing round as the reference does, to the flag, in formats of every precision and exponent range |
| `PackedRoundTripAlways` | what was put away as packed decimal is read back as it was; what was damaged changes nothing |
| `FloatsAreCorrectAlways` | of 27 operations of decFloats (`Proved`): whatever was called before, in formats of every size, the result is the exact one rounded once, and so are the flags, but for the calls of `Differs`; of NaNs it says so for the total orders only where payloads differ in the last four digits at most |
| `IntegersInRangeAlways` | an integer taken from a decFloat is the number rounded, or 0 with Invalid_operation where no integer of the type is |

*Context.* `Inv == TypeOK /\ SignalSeesStatus` is inductive: a signal is set
only by `Update`, with bits of the new status intersected with the new traps,
and calls that change status or traps without raising need `signal = {}`
(`Quietly`). `RestoreUndoes` is not an invariant: it needs `SavedInv`
(`saved` is the snapshot's flags, within its mask), which is inductive by itself.

*Flags.* `OneStory(status)` says Overflow and Underflow are Inexact, Inexact is
Rounded, Underflow is Subnormal, Lost_digits is Inexact. It is not preserved
by an arbitrary routine of the chain, so the argument follows the chain.
`Extends(a, b)`: b adds to a only flags that come together with what they
imply; `decSetCoeff`, `decApplyRound`, `decSetOverflow`, `decSetSubnormal` and
`decFinalize` are each shown to extend. `Lossy(a, b)` is the weaker step of operand
rounding. `Clean` (one story and rounding flags only) is kept by both and
carried through each path of the sum, the product, the quotient, the remainder and
the fused multiply-add, whose intermediate product contributes flags of its own.
Quantize removes Underflow and may give up after having rounded: it ends
`Settled`. `Good` is what the public functions hand to `decStatus`, and
`Outcome` what is left after it: one story, and an error means a NaN. Every
operation of `Arithmetic`, those on digits included, ends in an `Outcome`, and
the theorem follows with one case per action. The proof makes no assumption on
operands, precision, exponent range, DECDPUN or mode: flags do not depend on
numbers being well formed. The elementary functions are not in `Arithmetic`: a
subset power reverses its flags and breaks the story (section 6).

*Right answers of decNumbers.* The rounding chain never holds the exact number: it
holds a coefficient cut to the precision and a residue from -8 to 8 for what was cut, which a
later cut reads again. The argument says what a residue tells and that every
routine of the chain keeps it telling:

* `Tells(r, c, unit)`: residue r tells how c (what was cut off, less than a unit) compares to
  zero and to half a unit. `DropTells` and `StepTells`: dropping digits, with an older
  residue below them, leaves a residue that tells of everything below, whether or not the
  cut falls between Units. `CutRight` is `decSetCoeff` and `decSetCoeff`
  after it, for any DECDPUN.
* `RoundApplied`: `decApplyRound` then returns the coefficient of the reference in
  each of the eight modes, nines that carry into the exponent included.
* `NormalRight`, `TinyRight`, `ZeroRight`: so does `decFinalize`, with the flags, for
  numbers in range, beyond it and below Emin, where digits are cut a second time
  from the residue of the first. `IsCut` collects what a coefficient and residue must satisfy
  to stand for an exact number, and `CutGives` is all that operations need: what is such a cut
  gives `Ref!RoundTo` of that number.
* `PlusMinusAbsRight` and `MultiplyRight` show that what these hand on is such a cut,
  NaNs, infinities and zeros apart.
* `AddSubtractRight` takes the ways of `decAddOp` one by one. `FastRight`: where the sum
  stays in the lowest Unit nothing needs rounding. `AlignedRight`: digit for digit, the sum
  is exact before it is cut. `FarRight`: where the lower addend lies below the rounding digit
  (`Apart`), it leaves a residue, which is a cut of the sum when it is added (`PlusCut`). When it is
  taken away the residue is below zero, and what is handed on is either such a cut or
  the next number above it (`MinusCut`, `Borrows`). `BorrowGives` follows that through the
  chain: a residue below zero under q is one well above a half under q - 1 (`BumpDown`),
  in the normal range (`BorrowNormal`), at a power of ten, where the bump has to find one more nine
  (`HundredsIs`), at the smallest normal number, where it may not (`BorrowNmin`), and below it,
  where digits are dropped from a number that is too big by then (`BorrowDropped`, `BorrowTiny`).
* `UnitCompareIs` is `decUnitCompare`: two coefficients, of which one is shifted by whole
  Units and the digits left over, compare as integers, whatever the shift: where
  the numbers of Units differ by more than one, they settle it (`MoreUnits`), otherwise the units
  are subtracted. `SameSignCompare` and `CompareRight` make of it that `decCompare` compares
  numbers, signs, zeros and infinities included, and `TotalRight` that `CompareTotal` is the
  total order of the reference. `ChoosesRight` follows the maxima and minima through numbers
  that are equal but not the same (signs first, then exponents), and the choice is rounded like
  plus (`MaxMinKept`).

`CorrectInv` says that the last call kept its promise under the settings it ran with, and that
the settings have their types (`Typed`), which no step disturbs. Two premises remain in
the theorem. `HasPromise`: the operands are numbers as `decCheckNumber` accepts them
(`Sound`), and the exponent of a product is one that an int32_t holds (it wraps otherwise, section 6).
For a sum, one addend does not swallow the other (`SwallowedAt`: that is `FusedAddend` of section 6)
and the precision is two digits at least: with one, a residue below zero has no digit to
borrow from, and 05UP is wrong by a unit (section 6). For the total order, NaNs have exponent 0,
as `decCheckNumber` demands of special values.
`Roomy`: arithmetic is extended, and with clamp there is an exponent to clamp to
(precision at most emax+1); subset arithmetic rounds operands first, and follows
`LostDigits` in the runs.

*Traps.* `TrapInv` adds to `SignalSeesStatus` that the context is a function
with the fields of a context (`Shape`), without which
`[ctx EXCEPT !.status = ...]` says nothing.

*Names.* The code compares the status with one name after another and takes the
first that matches (that there is a first is `LeastMember`). Each name is one bit or,
with DECEXTFLAG=0, shares a bit with others or has none: the name found need
not be the one the flag was set by, but it has the same bit. Some name has each bit
(`BitHasName`), provided that the status holds no bit without one. That is the invariant
`BitsInv`, of the status and of what was saved of it: the words that programs
pass consist of bits that exist (`Word`), and every call keeps to them.

*decFloats.* `FloatInv == TypeOK /\ LastCallOK` is inductive, `LastCallOK` being
`NarrowingRounds`, `PackedRoundTrip` and `IntegersInRange`: what the last call
returned follows from its arguments, if the registers it took them from are typed.
The argument has three parts:

* `FinalizeRounds`: for *any* coefficient and exponent, `decFinalize` returns the
  number and flags of `Ref!RoundTo`. The code cuts
  digits, bumps the last one kept, moves an all-nines carry into the exponent and
  looks at the range afterwards, by cases; the reference divides by one
  power of ten and fits. The lemmas follow the code's cases: `DroppedDigits` (what
  was cut, seen as quotient and rest), `BumpsRight` (the eight modes), `OverflowRight`,
  `UnderflowSame` (tiny before rounding), `HighEndRight` (folding down), `ZeroRounds`.
* The `...Safe` lemmas: each function returns a datum of at most `DECPMAX` digits
  and an exponent in range, the quick exits that skip `decFinalize` included
  (`decFloatQuantize`, `decFloatShift`, the digit-by-digit operations, the neighbours,
  the integer part of a division). For a quotient they need that there is a number of
  units that is enough, and what its digits then come to (`UnitsSuffice`, `QuotientIs`).
* `QuantizedIs`: what `decFloatQuantize` returns for the exponent zero is the number
  rounded there, as `Ref!RoundAt` has it, and it refuses only what has more digits
  than the format. That is where `ToInt32Right` needs `IntAssumption`: an
  integer of the type has no more digits than the format (of 16 or 34), so
  that what quantize refuses, and the code calls invalid, is outside the type.

*Right answers of decFloats.* `LastCallRight` says `Right` of the last call: number and
flags are among those `Ref!Correct` admits, `Rounded`, `Subnormal` and `Clamped` apart. It needs
only that operands are typed, so that it rests on `FloatInv`, and the work is one
lemma per operation (`AddRight`, `MultiplyRight`, ...). All of them share `NaNsRight` and
`FinalizeAnswers`, the form in which `FinalizeRounds` is used. What is particular:

* Sums. `decFloatAdd` does not compute the sum of numbers that lie far apart: it moves the
  smaller one closer, down to a digit 1 below everything that can be kept. The lemmas on *tails*
  (`Tails`, `TailSums`) say when two numbers of more digits than the format keeps round alike:
  when they agree in the digits kept and, where the tail begins at the rounding digit, in how it
  compares to half, in all eight modes, subnormal and overflowing results included. They use that
  the format has two digits (`FormatAssumption`).
* Fused multiply-add. An addend far below a product of up to twice the format's digits is
  replaced by its first digit, moved closer (`ReducedSum`): by the same tails the sum rounds
  like the exact one where the addend lies clear of the product or stays as it is (`Clear`). Where
  it overlaps a product longer than the format it may not: that is the disagreement
  `SwallowsAddend` leaves out (section 6).
* Quantize and integral values. The code checks by digit counts beforehand what the reference
  finds by rounding, including the carry that makes a number one digit too long.
* Comparisons. The code aligns digits or decides by exponents where they do not
  overlap; the reference compares products. The total order has the
  exponents for equal values, turned around for negative ones, and payloads for NaNs: those that differ in the last word
  only come out right, whatever lies behind the buffers (`PayloadsInOrder`). Of others
  nothing is proved, for the code may misorder them.
* Reduce. Zeros are counted from the end by the code and are a maximum of divisors in the
  reference; on the way the result may be folded down, which puts zeros back.
* Digits. A number is the sum of its digits (`DigitsMake`, by the least place at which it is not),
  and it is enough to follow each digit through shift, rotate and the logical operations.

The exceptions are those of `FloatsAreCorrect`, plus and minus of a zero under FLOOR and a shift
by DECPMAX among them (section 6).

For packed decimal, `ImageParts` takes digits, pad nibble and sign apart again,
and `DamagedIs` shows that each damage fails the check it was made for.

*Long division.* Base, `DECDPUN`, precision, dividend and divisor are any
numbers, so the three invariants hold for Units of one to nine decimal digits
and coefficients of any length. None of them is inductive; what is (`IInv`) has
six parts:

* `Typed`: the variables are in their sets, so the rest is never negative. To
  keep that needs a guess that is low.
* `Slides`: the divisor is aligned somewhere between its own length and that of
  the padded dividend, and the exponent of the quotient moves down with it.
* `Balance`: dividend (with its padding) = what is found * divisor + rest, at that
  position. It makes the result right whatever the guesses were.
* `Bounded`: before a Unit is known, rest and what was taken in this round are
  below the divisor one Unit up; after it, the rest is below the divisor. Hence a
  Unit stays below the base, which `Balance` alone does not say.
* `Single`: against a divisor that is down to the last Unit one subtraction is
  enough, so that the guess never reads a Unit below the last (`msu1-1`).
* `Counted`: `accunits` and `accdigits`, which the code counts on its own, are
  those of the quotient found, and it is not yet full; this bounds the buffers.

A guess is low because it divides the leading two Units of the rest by the leading
Units of the divisor *plus one* if there are more (`EstimateLow`); a guess of zero
is raised to one only where the rest is not below the divisor. `RInv` adds how the
loops were left: `Ended` (the quotient is enough), `NotBefore` (an exact one
was not there a Unit earlier) and `Returned`. The result follows from `RInv`
with a lemma per kind of division (`DivideIsRight`, `IntegerQuotientFits`,
`ResidueIs`, `RemainderIsRight`). The refinement needs no further invariant:
what `DecQuotient` asks of a digit is what `Balance` and `Bounded` say before and
after a Unit is stored.

*Powers and places.* The division of Units rests on powers of the base and on
how many digits a number has, defined by recursion. The library's induction
takes an operator as a parameter, which the provers cannot instantiate; but a
set can do what a predicate does. `DecPowersProofs` takes, of the set of all
n for which a statement fails, the least (`LeastMember`, from the
well-foundedness of `<` on `Nat`), and refutes it. From there on powers are
known by their laws (`PowerNext`, `PowerSum`, `PowerMono`, `PowerGap`) and
places by their bounds (`PlacesBounds`: a number of n places lies in
`Power(b, n-1) .. Power(b, n) - 1`; `PlacesUnique`, `PlacesShift`, `PlacesPacked`).

Assumptions used: `DivisionAssumption` (what is divided is positive) and
`QuotientAssumption` (an even base, positive `DECDPUN`) for the division;
`UnitAssumption` (DECDPUN in 1 .. 9, the values the headers accept),
`ContextAssumption` and `CalculatorAssumption` (the words are flags, the literals
numbers, the operations and modes known) for flags, traps and names;
`IntegerAssumption` (the widths of exponents are numbers) for `CorrectResult`;
`FormatAssumption` (two digits at least, and no more than `DECEMAX`), `LogBAssumption`
(an adjusted exponent fits the coefficient), `DivUnitAssumption`, `IntAssumption`
(an integer of 32 bits has no more digits than the format)
and `FloatCalculatorAssumption` (the literals are decFloats) for decFloats: decSingle,
decDouble and decQuad satisfy all of them. The other modules name
theirs (`RootAssumption`, `WordAssumption`, `BufferAssumption`,
`ExchangeAssumption`). TLC evaluates them all in the runs.

*Only model-checked:* `CorrectResult` for the operations outside `Proved`
of `DecCorrectProofs`; `FloatsAreCorrect` for the quotients and remainders of
decFloats and their neighbours; the properties of `Exchange` and every other statement about the digits of rounded results
beyond those in the table. In decNumbers the chain is proved for
whatever is a cut of the exact number; that quotients and the rest hand it one is
not yet. In decFloats what `decFinalize` does
is proved, and for the operations of `Proved` what they give it; what quotients
give it is known to be in range but not, yet, to be the exact result. `TypeOK` of `DecCalculator` and `DecExchange`,
`ResultFits`, `ValidNumbers` and `UnitsKeepValues` wait for the same argument;
`TotalOrderIsTotal` is finite enough for TLC to settle for the values
used. The reference quotient looks for an end of its digits within `MaxZeros`
places, which holds for the bounds of the runs: division has to be proved against
a reference without. `Terminates`
and the fairness in `KeepsPromise` are
liveness, which TLAPS 1.4 does not treat: `TakesTheTurns` proves the rest of `KeepsPromise`.

## 5. Not modelled

* Logarithms that need the iteration, and powers by numbers that are not
  integers, which are made of one: they start from tables and iterate with
  some ten digits more than the result, beyond TLC's 32-bit integers. The calls are
  not made (`NeedsIteration`, `NeedsLogarithm`). Square root's Newton iteration is
  the choice of an approximation, its correction is modelled in full.
* Words of digits: the chunks of the fast multiplication (more than four digits in
  the shorter operand) and the base-billion products of decFloats are the integer
  operation they compute. The logical operations and the estimates of a long
  division are not among those of `DecUnits`.
* Storage: operations in place in subset arithmetic, where operands are copied
  before they are rounded, and under clamping; a division, which always works in
  buffers of its own; allocation failure (Insufficient_storage); lengths beyond
  DECNUMDIGITS.
* The character level of strings; the bits' order in words and endianness.
* `DECCHECK`, tracing and formatting (`decFloatShow`, `decNumberShow`).
* The setters of `digits`, `emax`, `emin`, `clamp` and `setDefault` of the C++ class;
  their values are constants of the runs. The C++ operators, streams, hashes and the
  conversions from and to double.
* The stack allocator and the programs under `src/tst`, which are no part of the
  library.

## 6. Where the code does something else

Five disagreements between the code and its comments, each with a run in which
TLC shows it:

| Run | Property | What happens |
|---|---|---|
| `QuantizeOverflow` | `QuantizeNeverOverflows` | `decApplyRound` (5921) runs before the range check (5954) and overflows when the carry leaves the exponent range: quantize returns Infinity with Overflow where its comment says Invalid_operation. |
| `IntegralStale` | `IntegralNeverFails` | to-integral clones the context with its flags (3195): an error flag left by an earlier call turns a finite result into NaN. |
| `PowerOverflow` | `PowerIsRounded` | a negative power inverts its base first (2175). If 1/x overflows, the accumulator is 1 by then (2186), the loop is left at once (2198), and 1 is returned with Overflow: 1E-390 to the -1 in the context of decimal64. |
| `NarrowContext` | `ValidNumbers` | with more digits than emax + 1 (each `DecContext(DECIMAL32)`, which has 500) Etop is negative, and fold-down (7327) gives an overflowed infinity a coefficient and an exponent. |
| `FusedAddend` | `FusedRoundsOnce` | an addend below the higher one's digits but not below all of them is taken for a residue (3999), and what it carries is lost: with three digits, 501 * 999 + 1.1 = 500500.1 is rounded down to 500E+3. |

The last one needs a higher addend of at least three digits more than the precision, which
the products of a fused multiply-add are by themselves, and the operands of a sum may
be. `decFloatFMA` reduces its addend in the same way (`decBasic.c:2144`, "as it stays
clear of hi digits", :2137). That takes a format of four digits at least, with
products beyond TLC's integers: in a decDouble 8913361590759119 * 9616240553937704 +
9999999999999.999 is 8571302920096852|5009... and comes out as 8571302920096852E+16.

`CorrectResult`, `WithinOneUnit` and `FloatsAreCorrect` leave out the first three and the
last (`Departs`, `SwallowsAddend`), and
where clamping moves the exponent (`Folds`) `CorrectResult` asks only for the same value:

* quantize under clamping may return another exponent than asked for
  (5826, 7323);
* to-integral under clamping sets the precision to the length of its operand
  (3196), which lowers Etop: a long operand comes back with a negative
  exponent, or, beyond emax, as a NaN.

Seen while modelling, modelled as the code does it (those marked * are outside the
model), without a run:

* Sums and products. The one-Unit sum returns before `decFinish` (3954), so that
  in subset arithmetic 1E+1 + 1E+1 is 2E+1 where any other path gives 20. A
  subset product handles infinities before it rounds its operands (4932), and
  an operand that rounds to Infinity is multiplied as zero.
* Remainders and moves. A zero remainder is not finished (`ZeroRemains`); shift,
  rotate and scaleB take operands longer than the precision as they are
  (`LongMoves`).
* Neighbours. The number they add is 1E-1000000000 (1673), "smaller than
  tiniest" (1648): contexts with emin = -999999999 have smaller subnormals.
* `decTrim` on a positive exponent strips zeros without the limit it observes
  otherwise (6579, 6622).
* Powers. In subset arithmetic 9E+300 to the -2 is an Infinity with Underflow;
  an excess inside a power gives an Infinity whatever the rounding mode; a
  clamping context flags Clamped and pads on the way.
* Exponentials and logarithms. The last rounding uses the caller's mode (e^0.5 is
  1.64 at three digits under DOWN), though rounding mode "has no effect" (1019).
  An overflow under CEILING, UP or 05UP leaves an Infinity with coefficient 1
  (5480), which `decCheckNumber` (7983) refuses; `ValidNumbers` excepts it. The
  payload of a NaN given to `decNumberLog10` may stay longer than the precision,
  though "[will fit]" (1479).
* Contexts. With DECEXTFLAG=0 a clear status has the name of a flag that has no
  bit (`decContext.c:336`, `:352`). `DecContext::setStatus` (`DecContext.hh:143`)
  assigns the status, where its comment (:136) says it sets bits in it. *`setDefault`
  (:169) arms traps the constructor had disarmed.
* Sums rounded by 05UP to a single digit: -1000 + 0.1 is -1E+3 (7079), where the digit of
  -999.9 that is kept is a 9.
* Conversions. `decFloatFromString` strips the zeros of a long string but for its last
  character (`decCommon.c:909`): if that is the point, no digit is left, against
  "There is no limit to the coefficient length" (:770). An E-part too long for the
  format is cut to twice Emax before the places after the point are subtracted (:854). The
  properties of `Exchange` leave both out (`WellRead`). `decNumberSetBCD` fills Units from the top one of
  the number's old digits (3490), against "set (replace) the coefficient" (:3478): an array
  with more Units loses its last digits, and one with fewer comes out too high, with
  whatever follows it in memory. `ChainsKeepNumber` excepts both (`Misfit`). A NaN's payload of all the format's digits is dropped
  silently (`decimal64.c:114`).
* decFloats. `decFloatCompareTotal` orders NaNs of the same kind and sign by payload ("must
  compare payload", `decBasic.c:1743`), word by word. The `break` at :1769 leaves only the
  loop by bytes; the one by words goes on four bytes later, in the middle of a word, and a
  later difference decides: the decDoubles NaN10000 and NaN9999 come out the wrong way round.
  The last word may then reach beyond what was written (a choice, `Feet`). Payloads that
  differ in the last four digits only are safe. `decFloatCompareTotalMag` does the same.
  `FloatsAreCorrect` leaves these calls out (`PayloadsMisread`). Reduce and SetExponent call their result canonical and may return
  words that are not. A shift by DECPMAX resets the exponent to 0 (`decBasic.c:3418`, against
  :3390). Plus and Minus of a zero are +0 under FLOOR too. A quiet NaN added to infinity
  times zero is not what it is for decNumbers (`Differs`).
* *`DecPacked::toDecNumber` passes on the NULL of a packed decimal that was refused
  (`DecPacked.cc:67`), `fromDecNumber` keeps old bytes (:45). `operator>` of a
  `DecNumber` is the negation of `<=`, true for NaNs (`DecNumber.hh:369`).

## 7. Plan

What is left, in this order:

1. `DecUnits`: the chunked multiplication, whose accumulator becomes Units in
   place, and allocation that may fail.
2. Logarithms: the iteration as a choice of approximations, like that of the
   root, its checks and roundings as they are; with them powers by any number.
3. Proofs: that each call of `DecCalculator` is a step or a stutter of
   `DecContext` (refinement); its `TypeOK`; that exponents after
   `decFinalize` lie between Etiny and emax; that the total order is
   antisymmetric and transitive (now that `TotalRight` gives it by the reference); `FloatsAreCorrect` for the operations not in `Proved`: the neighbours; the division, whose
   sticky digit has to be shown not to matter.
4. The C++ operators, as calls with a conversion before them.

New operations join the `Ops` of an existing run when the question is the same,
and get a run of their own only for a new question.
