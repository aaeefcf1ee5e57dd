-------------------------- MODULE DecCalculatorProofs --------------------------
(***************************************************************************)
(* Flags, NaNs and traps of programs that compute with decNumbers: for     *)
(* every set of registers, literals, contexts and operations, and any      *)
(* number of calls.  First, for every operand, every context and every     *)
(* path through the code, the flags that the operations leave: the         *)
(* rounding chain, the operations that add, multiply and compare,          *)
(* division, fused multiply-add and the operations on digits.              *)
(***************************************************************************)
EXTENDS DecCalculator, TLAPS

(***************************************************************************)
(* The rounding chain.                                                     *)
(***************************************************************************)
RoundingFlags == {"Inexact", "Rounded", "Overflow", "Underflow", "Subnormal",
                  "Clamped"}

\* What a routine of the chain may do to the accumulator: it forgets nothing,
\* adds rounding flags only, and keeps the story straight.
Extends(a, b) == /\ a \subseteq b
                 /\ b \subseteq a \cup RoundingFlags
                 /\ OneStory(a) => OneStory(b)

LEMMA ExtendsRefl == ASSUME NEW a PROVE Extends(a, a)
BY DEF Extends

LEMMA ExtendsTrans == ASSUME NEW a, NEW b, NEW c, Extends(a, b), Extends(b, c)
                      PROVE  Extends(a, c)
BY DEF Extends

\* Every error flag stays out of the chain.
LEMMA NoErrors == RoundingFlags \cap DEC_NaNs = {}
BY DEF RoundingFlags, DEC_NaNs

\* The ways the chain extends an accumulator.
LEMMA ExtendClamped == ASSUME NEW a PROVE Extends(a, a \cup {"Clamped"})
BY DEF Extends, OneStory, RoundingFlags, DEC_NaNs

LEMMA ExtendRounded == ASSUME NEW a PROVE Extends(a, a \cup {"Rounded"})
BY DEF Extends, OneStory, RoundingFlags, DEC_NaNs

LEMMA ExtendInexact == ASSUME NEW a PROVE Extends(a, a \cup {"Inexact", "Rounded"})
BY DEF Extends, OneStory, RoundingFlags, DEC_NaNs

LEMMA ExtendOverflow ==
  ASSUME NEW a PROVE Extends(a, a \cup {"Overflow", "Inexact", "Rounded"})
BY DEF Extends, OneStory, RoundingFlags, DEC_NaNs

LEMMA ExtendSubnormal == ASSUME NEW a PROVE Extends(a, a \cup {"Subnormal"})
BY DEF Extends, OneStory, RoundingFlags, DEC_NaNs

LEMMA ExtendUnderflow ==
  ASSUME NEW a
  PROVE  Extends(a, a \cup {"Underflow", "Subnormal", "Inexact", "Rounded"})
BY DEF Extends, OneStory, RoundingFlags, DEC_NaNs

LEMMA ExtendTiny ==
  ASSUME NEW a, "Subnormal" \in a
  PROVE  Extends(a, a \cup When("Inexact" \in a, {"Underflow"}))
BY DEF Extends, OneStory, RoundingFlags, DEC_NaNs, When
-----------------------------------------------------------------------------
LEMMA InexactlyExtends ==
  ASSUME NEW w PROVE Extends(w.status, Inexactly(w).status)
<1>1. \/ Inexactly(w).status = w.status
      \/ Inexactly(w).status = w.status \cup {"Inexact", "Rounded"}
  BY DEF Inexactly, Flagged, Work, When
<1> QED BY <1>1, ExtendsRefl, ExtendInexact

LEMMA SetCoeffExtends ==
  ASSUME NEW w, NEW length, NEW coef, NEW len
  PROVE  Extends(w.status, decSetCoeff(w, length, coef, len).status)
<1>1. \E v : /\ decSetCoeff(w, length, coef, len) = Inexactly(v)
             /\ v.status = w.status \/ v.status = w.status \cup {"Rounded"}
  BY DEF decSetCoeff, Holding, Work
<1>2. PICK v : /\ decSetCoeff(w, length, coef, len) = Inexactly(v)
               /\ v.status = w.status \/ v.status = w.status \cup {"Rounded"}
  BY <1>1
<1>3. Extends(w.status, v.status)
  BY <1>2, ExtendsRefl, ExtendRounded
<1> QED BY <1>2, <1>3, InexactlyExtends, ExtendsTrans

LEMMA SetOverflowExtends ==
  ASSUME NEW w, NEW set
  PROVE  Extends(w.status, decSetOverflow(w, set).status)
<1>1. \/ decSetOverflow(w, set).status = w.status
      \/ decSetOverflow(w, set).status = w.status \cup {"Clamped"}
      \/ decSetOverflow(w, set).status =
           w.status \cup {"Overflow", "Inexact", "Rounded"}
  BY DEF decSetOverflow, Flagged, Holding, Work
<1> QED BY <1>1, ExtendsRefl, ExtendClamped, ExtendOverflow

LEMMA ApplyRoundExtends ==
  ASSUME NEW w, NEW set
  PROVE  Extends(w.status, decApplyRound(w, set).status)
<1>1. ASSUME NEW v, v.status = w.status
      PROVE  Extends(w.status, decSetOverflow(v, set).status)
  BY <1>1, SetOverflowExtends
<1>2. Extends(w.status, BumpNines(w, set).status)
  BY <1>1, ExtendsRefl DEF BumpNines, Holding, Work
<1>3. Extends(w.status, BumpHundreds(w, set).status)
  BY ExtendsRefl, ExtendUnderflow DEF BumpHundreds, Holding, Flagged, Work
<1>4. ASSUME NEW b PROVE Extends(w.status, Bumped(w, b, set).status)
  <2>1. \/ Bumped(w, b, set) = w
        \/ Bumped(w, b, set) = BumpNines(w, set)
        \/ Bumped(w, b, set) = BumpHundreds(w, set)
        \/ Bumped(w, b, set).status = w.status
    BY DEF Bumped, Holding, Work
  <2> QED BY <1>2, <1>3, <2>1, ExtendsRefl
<1> QED BY <1>4 DEF decApplyRound

LEMMA CopyFitExtends ==
  ASSUME NEW src, NEW length, NEW residue, NEW status
  PROVE  Extends(status, decCopyFit(src, length, residue, status).status)
BY SetCoeffExtends DEF decCopyFit, Work

\* A subnormal stays one: underflow is reported only with it.
LEMMA UnderflowedExtends ==
  ASSUME NEW w, "Subnormal" \in w.status
  PROVE  Extends(w.status, Underflowed(w).status)
<1>1. Underflowed(w).status
        = w.status \cup When("Inexact" \in w.status, {"Underflow"})
  BY DEF Underflowed, Flagged, Work
<1> QED BY <1>1, ExtendTiny

LEMMA AtEtinyExtends ==
  ASSUME NEW r, NEW etiny, "Subnormal" \in r.status
  PROVE  Extends(r.status, AtEtiny(r, etiny).status)
<1> DEFINE u == Underflowed(r)
<1>1. Extends(r.status, u.status)
  BY UnderflowedExtends
<1> HIDE DEF u
<1>2. \/ AtEtiny(r, etiny).status = u.status
      \/ AtEtiny(r, etiny).status = u.status \cup {"Clamped"}
  BY DEF AtEtiny, u, Flagged, Holding, Work, When
<1>3. Extends(u.status, AtEtiny(r, etiny).status)
  BY <1>2, ExtendsRefl, ExtendClamped
<1> QED BY <1>1, <1>3, ExtendsTrans

LEMMA SetSubnormalExtends ==
  ASSUME NEW w, NEW set
  PROVE  Extends(w.status, decSetSubnormal(w, set).status)
<1> DEFINE etiny == Etiny(set)
           adjust == etiny - w.n.exp
           sub == Flagged(w, {"Subnormal"})
           length == w.n.digits - adjust
           workset == [set EXCEPT !.digits = length, !.emin = @ - adjust]
           cut == decSetCoeff(sub, length, w.n.coef, w.n.digits)
           r == decApplyRound(cut, workset)
<1>1. \/ decSetSubnormal(w, set).status =
           w.status \cup {"Underflow", "Subnormal", "Inexact", "Rounded"}
      \/ decSetSubnormal(w, set).status = w.status \cup {"Clamped"}
      \/ decSetSubnormal(w, set) = w
      \/ decSetSubnormal(w, set) = Underflowed(sub)
      \/ decSetSubnormal(w, set) = AtEtiny(r, etiny)
  BY DEF decSetSubnormal, Flagged, Holding, Work
<1>2. sub.status = w.status \cup {"Subnormal"}
  BY DEF Flagged, Work
<1>3. Extends(w.status, sub.status) /\ "Subnormal" \in sub.status
  BY <1>2, ExtendSubnormal
<1>4. Extends(sub.status, cut.status) /\ Extends(cut.status, r.status)
  BY SetCoeffExtends, ApplyRoundExtends
<1> HIDE DEF sub, cut, r, etiny
<1>5. Extends(w.status, r.status) /\ "Subnormal" \in r.status
  <2>1. Extends(sub.status, r.status)
    BY <1>4, ExtendsTrans
  <2> QED BY <1>3, <2>1, ExtendsTrans DEF Extends
<1>6. /\ Extends(w.status, Underflowed(sub).status)
      /\ Extends(w.status, AtEtiny(r, etiny).status)
  <2>1. /\ Extends(sub.status, Underflowed(sub).status)
        /\ Extends(r.status, AtEtiny(r, etiny).status)
    BY <1>3, <1>5, UnderflowedExtends, AtEtinyExtends
  <2> QED BY <1>3, <1>5, <2>1, ExtendsTrans
<1> QED BY <1>1, <1>6, ExtendsRefl, ExtendClamped, ExtendUnderflow

LEMMA WithinRangeExtends ==
  ASSUME NEW r, NEW set
  PROVE  Extends(r.status, WithinRange(r, set).status)
<1>1. Extends(r.status, FoldDown(r, set).status)
  BY ExtendClamped DEF FoldDown, Flagged, Holding, Work
<1> QED BY <1>1, SetOverflowExtends, ExtendsRefl DEF WithinRange

LEMMA FinalizeExtends ==
  ASSUME NEW w, NEW set
  PROVE  Extends(w.status, decFinalize(w, set).status)
<1> DEFINE r == decApplyRound(w, set)
<1>1. Extends(w.status, r.status)
  BY ApplyRoundExtends
<1> HIDE DEF r
<1>2. \/ decFinalize(w, set) = decSetSubnormal(w, set)
      \/ decFinalize(w, set) = decSetSubnormal(r, set)
      \/ decFinalize(w, set) = WithinRange(r, set)
  BY DEF decFinalize, InRange, r
<1>3. /\ Extends(w.status, decSetSubnormal(r, set).status)
      /\ Extends(w.status, WithinRange(r, set).status)
  BY <1>1, SetSubnormalExtends, WithinRangeExtends, ExtendsTrans
<1> QED BY <1>2, <1>3, SetSubnormalExtends

LEMMA FinishExtends ==
  ASSUME NEW w, NEW set
  PROVE  Extends(w.status, decFinish(w, set).status)
<1>1. ASSUME NEW v, v.status = w.status
      PROVE  Extends(w.status, decFinalize(v, set).status)
  BY <1>1, FinalizeExtends
<1>2. \/ \E v : v.status = w.status /\ decFinish(w, set) = decFinalize(v, set)
      \/ decFinish(w, set).status = w.status
  BY DEF decFinish, Holding, Work
<1> QED BY <1>1, <1>2, ExtendsRefl
-----------------------------------------------------------------------------
\* Subset arithmetic: shortening the operands may lose digits, which is the
\* one more flag it reports.
Lossy(a, b) == /\ a \subseteq b
               /\ b \subseteq a \cup RoundingFlags \cup {"Lost_digits"}
               /\ OneStory(a) => OneStory(b)

LEMMA RoundOperandLossy ==
  ASSUME NEW n, NEW set, NEW status
  PROVE  Lossy(status, decRoundOperand(n, set, status).status)
<1> DEFINE cut == decCopyFit(n, set.digits, 0, {})
           r == decApplyRound(cut, set)
<1>1. Extends({}, cut.status) /\ Extends(cut.status, r.status)
  BY CopyFitExtends, ApplyRoundExtends
<1>2. Extends({}, r.status)
  BY <1>1, ExtendsTrans
<1>3. decRoundOperand(n, set, status).status =
        status \cup r.status \cup When("Inexact" \in r.status, {"Lost_digits"})
  BY DEF decRoundOperand, RoundedOperand, Lost
<1> HIDE DEF cut, r
<1>4. OneStory({})
  BY DEF OneStory
<1> QED BY <1>2, <1>3, <1>4
        DEF Extends, Lossy, OneStory, When, RoundingFlags, DEC_NaNs

LEMMA SubsetOperandLossy ==
  ASSUME NEW n, NEW set, NEW status
  PROVE  Lossy(status, SubsetOperand(n, set, status).status)
BY RoundOperandLossy DEF SubsetOperand, Lossy

LEMMA SubsetOperandsLossy ==
  ASSUME NEW lhs, NEW rhs, NEW set, NEW status
  PROVE  Lossy(status, SubsetOperands(lhs, rhs, set, status).status)
<1> DEFINE l == SubsetOperand(lhs, set, status)
           r == SubsetOperand(rhs, set, l.status)
<1>1. Lossy(status, l.status) /\ Lossy(l.status, r.status)
  BY SubsetOperandLossy
<1>2. SubsetOperands(lhs, rhs, set, status).status = r.status
  BY DEF SubsetOperands, WithRight, Operands
<1> HIDE DEF l, r
<1> QED BY <1>1, <1>2 DEF Lossy

-----------------------------------------------------------------------------
(***************************************************************************)
(* Operations.                                                             *)
(***************************************************************************)
Clean(a) == a \subseteq RoundingFlags \cup {"Lost_digits"} /\ OneStory(a)

\* What an operation hands to decStatus: a consistent accumulator, and a NaN
\* already in place when the private bit says so.
Good(w) == OneStory(w.status) /\ ("sNaN" \in w.status => w.n.kind = "nan")

\* What the caller gets.
Outcome(out) == /\ OneStory(out.status)
                /\ out.status \cap DEC_NaNs # {} => out.n.kind = "nan"

LEMMA CleanEmpty == Clean({})
BY DEF Clean, OneStory

LEMMA CleanExtends == ASSUME NEW a, NEW b, Clean(a), Extends(a, b) PROVE Clean(b)
BY DEF Clean, Extends

LEMMA CleanLossy == ASSUME NEW a, NEW b, Clean(a), Lossy(a, b) PROVE Clean(b)
BY DEF Clean, Lossy

LEMMA CleanGood == ASSUME NEW w, Clean(w.status) PROVE Good(w)
BY DEF Clean, Good, RoundingFlags

LEMMA InvalidGood ==
  ASSUME NEW st, st \subseteq RoundingFlags \cup {"Lost_digits"}
  PROVE  Good(Invalid(st))
BY DEF Good, Invalid, Work, OneStory, DEC_NaNs, RoundingFlags

LEMMA NaNsGood ==
  ASSUME NEW l, NEW r, NEW set, NEW st, OneStory(st)
  PROVE  Good(decNaNs(l, r, set, st))
<1>1. decNaNs(l, r, set, st).n.kind = "nan"
  BY DEF decNaNs, Work
<1>2. \/ decNaNs(l, r, set, st).status = st
      \/ decNaNs(l, r, set, st).status = st \cup {"Invalid_operation", "sNaN"}
  BY DEF decNaNs, Work, When
<1> QED BY <1>1, <1>2 DEF Good, OneStory, DEC_NaNs

\* decStatus: whatever reports an error returns a NaN.
LEMMA DoneOutcome == ASSUME NEW w, Good(w) PROVE Outcome(Done(w))
<1>1. Done(w).status = w.status \ {"sNaN"}
  BY DEF Done, decStatus
<1>2. OneStory(Done(w).status)
  BY <1>1 DEF Good, OneStory, DEC_NaNs
<1>3. ASSUME Done(w).status \cap DEC_NaNs # {}
      PROVE  Done(w).n.kind = "nan"
  <2>1. w.status \cap DEC_NaNs # {}
    BY <1>1, <1>3
  <2>2. CASE "sNaN" \in w.status
    BY <2>2 DEF Done, decStatus, Good
  <2>3. CASE "sNaN" \notin w.status
    BY <2>1, <2>3 DEF Done, decStatus, decNumberZero
  <2> QED BY <2>2, <2>3
<1> QED BY <1>2, <1>3 DEF Outcome
-----------------------------------------------------------------------------
(***************************************************************************)
(* Addition.                                                               *)
(***************************************************************************)
LEMMA PadDownExtends ==
  ASSUME NEW w, NEW exp, NEW set
  PROVE  Extends(w.status, PadDown(w, exp, set).status)
<1>1. \/ PadDown(w, exp, set).status = w.status
      \/ PadDown(w, exp, set).status = w.status \cup {"Rounded"}
  BY DEF PadDown, Flagged, Holding, Work, When
<1> QED BY <1>1, ExtendsRefl, ExtendRounded

LEMMA FinishClean ==
  ASSUME NEW w, NEW set, Clean(w.status)
  PROVE  Clean(decFinish(w, set).status)
BY FinishExtends, CleanExtends

LEMMA AddToZeroClean ==
  ASSUME NEW lhs, NEW w, NEW set, Clean(w.status)
  PROVE  Clean(AddToZero(lhs, w, set).status)
<1>1. Clean(PadDown(w, lhs.exp, set).status)
  BY PadDownExtends, CleanExtends
<1> QED BY <1>1 DEF AddToZero, Holding, Work

LEMMA AddZeroClean ==
  ASSUME NEW w, NEW rhs, NEW set, Clean(w.status)
  PROVE  Clean(AddZero(w, rhs, set).status)
<1>1. Clean(PadDown(w, rhs.exp, set).status)
  BY PadDownExtends, CleanExtends
<1> QED BY <1>1 DEF AddZero

LEMMA AddResidueClean ==
  ASSUME NEW high, NEW diffsign, NEW set, NEW status, Clean(status)
  PROVE  Clean(AddResidue(high, diffsign, set, status).status)
<1> DEFINE w == decCopyFit(high, set.digits, IF diffsign THEN -1 ELSE 1, status)
<1>1. Clean(w.status)
  BY CopyFitExtends, CleanExtends
<1> HIDE DEF w
<1>2. AddResidue(high, diffsign, set, status)
        = PadToPrecision(w, set.digits - high.digits)
  BY DEF AddResidue, w
<1> QED BY <1>1, <1>2 DEF PadToPrecision, Holding, Work

LEMMA RoundSubsetClean ==
  ASSUME NEW w, NEW set, Clean(w.status)
  PROVE  Clean(RoundSubset(w, set).status)
<1>1. Clean(decApplyRound(w, set).status)
  BY ApplyRoundExtends, CleanExtends
<1> QED BY <1>1 DEF RoundSubset, NoResidue, Work

LEMMA AddAlignedClean ==
  ASSUME NEW low, NEW high, NEW diffsign, NEW set, NEW status, Clean(status)
  PROVE  Clean(AddAligned(low, high, diffsign, set, status).status)
<1> DEFINE end(w) == AddEnd(w, diffsign, set)
<1>1. \E n, coef, len : AddAligned(low, high, diffsign, set, status)
        = end(decSetCoeff(Work(n, 0, status), set.digits, coef, len))
  BY Zenon DEF AddAligned
<1>2. ASSUME NEW n, NEW coef, NEW len
      PROVE  Clean(decSetCoeff(Work(n, 0, status), set.digits, coef, len).status)
  <2>1. Clean(Work(n, 0, status).status)
    BY DEF Work
  <2> QED BY <2>1, SetCoeffExtends, CleanExtends
<1>3. ASSUME NEW w, Clean(w.status) PROVE Clean(end(w).status)
  <2>1. Clean(RoundSubset(w, set).status)
    BY <1>3, RoundSubsetClean
  <2>2. Clean(Counted(RoundSubset(w, set)).status)
    BY <2>1 DEF Counted, Holding, Work
  <2>3. Clean(decFinish(Counted(RoundSubset(w, set)), set).status)
    BY <2>2, FinishClean
  <2> QED BY <2>3 DEF SignZero, Holding, Work, AddEnd
<1> HIDE DEF end
<1> QED BY <1>1, <1>2, <1>3

LEMMA AddFiniteClean ==
  ASSUME NEW lhs, NEW rhs, NEW negate, NEW set, NEW status, Clean(status)
  PROVE  Clean(AddFinite(lhs, rhs, negate, set, status).status)
<1>1. ASSUME NEW diffsign PROVE Clean(AddFast(lhs, rhs, diffsign, status).status)
  BY DEF AddFast, Work
<1>2. ASSUME NEW n PROVE Clean(decCopyFit(n, set.digits, 0, status).status)
  BY CopyFitExtends, CleanExtends
<1>3. ASSUME NEW n
      PROVE  Clean(decFinish(AddWithZero(lhs, rhs, decCopyFit(n, set.digits, 0, status),
                                         set), set).status)
  <2>1. Clean(AddWithZero(lhs, rhs, decCopyFit(n, set.digits, 0, status), set).status)
    BY <1>2, AddToZeroClean, AddZeroClean DEF AddWithZero
  <2> QED BY <2>1, FinishClean
<1>4. ASSUME NEW high, NEW diffsign
      PROVE  Clean(decFinish(AddResidue(high, diffsign, set, status), set).status)
  BY AddResidueClean, FinishClean
<1> QED BY <1>1, <1>3, <1>4, AddAlignedClean DEF AddFinite

LEMMA AddOperandsGood ==
  ASSUME NEW o, NEW set, NEW negate, Clean(o.status)
  PROVE  Good(AddOperands(o, set, negate))
<1>1. Good(decNaNs(o.lhs, o.rhs, set, o.status))
  BY NaNsGood DEF Clean
<1>2. Good(AddInfinite(o.lhs, o.rhs, negate, o.status))
  <2>1. ASSUME NEW n PROVE Good(Work(n, 0, o.status))
    BY CleanGood DEF Work
  <2>2. Good(Invalid(o.status))
    BY InvalidGood DEF Clean
  <2> QED BY <2>1, <2>2 DEF AddInfinite
<1>3. Good(AddFinite(o.lhs, o.rhs, negate, set, o.status))
  BY AddFiniteClean, CleanGood
<1> QED BY <1>1, <1>2, <1>3 DEF AddOperands

\* The operands of any operation start clean.
LEMMA OperandsClean ==
  ASSUME NEW l, NEW r, NEW set PROVE Clean(SubsetOperands(l, r, set, {}).status)
BY SubsetOperandsLossy, CleanEmpty, CleanLossy

LEMMA AddOpGood ==
  ASSUME NEW l, NEW r, NEW set, NEW negate PROVE Good(decAddOp(l, r, set, negate, {}))
BY OperandsClean, AddOperandsGood DEF decAddOp
-----------------------------------------------------------------------------
(***************************************************************************)
(* Multiplication.                                                         *)
(***************************************************************************)
LEMMA MultiplyFiniteClean ==
  ASSUME NEW o, NEW neg, NEW set, Clean(o.status)
  PROVE  Clean(MultiplyFinite(o, neg, set).status)
<1>1. \E n, coef, len : MultiplyFinite(o, neg, set)
        = decFinish(decSetCoeff(Work(n, 0, o.status), set.digits, coef, len), set)
  BY Zenon DEF MultiplyFinite
<1>2. ASSUME NEW n, NEW coef, NEW len
      PROVE  Clean(decSetCoeff(Work(n, 0, o.status), set.digits, coef, len).status)
  <2>1. Clean(Work(n, 0, o.status).status)
    BY DEF Work
  <2> QED BY <2>1, SetCoeffExtends, CleanExtends
<1> QED BY <1>1, <1>2, FinishClean

LEMMA MultiplyOpGood ==
  ASSUME NEW l, NEW r, NEW set PROVE Good(decMultiplyOp(l, r, set, {}))
<1>1. Good(decNaNs(l, r, set, {}))
  BY CleanEmpty, NaNsGood DEF Clean
<1>2. Good(Invalid({})) /\ Good(Work(Infinity(l.neg # r.neg), 0, {}))
  BY InvalidGood, CleanEmpty, CleanGood DEF Work
<1>3. ASSUME NEW a, NEW b, NEW neg
      PROVE  Good(MultiplyFinite(SubsetOperands(a, b, set, {}), neg, set))
  BY OperandsClean, MultiplyFiniteClean, CleanGood
<1> QED BY <1>1, <1>2, <1>3 DEF decMultiplyOp
-----------------------------------------------------------------------------
(***************************************************************************)
(* Quantize and rescale.  On the way an invalid operation may have taken   *)
(* the flags of its rounding back; it is Invalid before anything is lost.  *)
(***************************************************************************)
Settled(w) == \/ Clean(w.status)
              \/ "Invalid_operation" \in w.status /\ "sNaN" \notin w.status

LEMMA SettledGood == ASSUME NEW w, Settled(w) PROVE Good(w)
<1>1. CASE Clean(w.status)
  BY <1>1, CleanGood
<1>2. CASE "Invalid_operation" \in w.status /\ "sNaN" \notin w.status
  BY <1>2 DEF Good, OneStory, DEC_NaNs
<1> QED BY <1>1, <1>2 DEF Settled

LEMMA InvalidSettled ==
  ASSUME NEW st, st \subseteq RoundingFlags \cup {"Lost_digits"}
  PROVE  Settled(Invalid(st))
BY DEF Settled, Invalid, Work, RoundingFlags

LEMMA QuantizeUpSettled ==
  ASSUME NEW n, NEW reqexp, NEW set, NEW st, Clean(st)
  PROVE  Settled(QuantizeUp(n, reqexp, set, st))
<1>1. ASSUME NEW r, Clean(r.status) PROVE Settled(QuantizeRounded(r, reqexp, set))
  <2>1. Settled(Invalid(r.status \ {"Inexact", "Rounded"}))
    BY <1>1, InvalidSettled DEF Clean
  <2>2. ASSUME NEW m PROVE Settled(Work(m, 0, r.status))
    BY <1>1 DEF Settled, Work
  <2> QED BY <2>1, <2>2, Zenon DEF QuantizeRounded
<1>2. ASSUME NEW length, NEW workset
      PROVE  Clean(decApplyRound(decCopyFit(n, length, 0, st), workset).status)
  <2>1. Clean(decCopyFit(n, length, 0, st).status)
    BY CopyFitExtends, CleanExtends
  <2> QED BY <2>1, ApplyRoundExtends, CleanExtends
<1> QED BY <1>1, <1>2 DEF QuantizeUp

LEMMA QuantizeToSettled ==
  ASSUME NEW n, NEW reqexp, NEW set, NEW st, Clean(st)
  PROVE  Settled(QuantizeTo(n, reqexp, set, st))
<1>1. ASSUME NEW x PROVE Settled(Work(x, 0, st))
  BY DEF Settled, Work
<1>2. Settled(Invalid(st))
  BY InvalidSettled DEF Clean
<1> QED BY <1>1, <1>2, QuantizeUpSettled DEF QuantizeTo

LEMMA QuantizeEndGood ==
  ASSUME NEW w, NEW set, Settled(w) PROVE Good(QuantizeEnd(w, set))
<1>1. CASE "Invalid_operation" \in w.status
  BY <1>1, SettledGood DEF QuantizeEnd
<1>2. CASE "Invalid_operation" \notin w.status
  <2>1. Clean(w.status)
    BY <1>2 DEF Settled
  <2>2. Clean(decFinalize(w, set).status)
    BY <2>1, FinalizeExtends, CleanExtends
  <2>3. ASSUME NEW v, Clean(v.status) PROVE Clean(NoUnderflow(v).status)
    BY <2>3 DEF Clean, OneStory, NoUnderflow, Work, DEC_NaNs
  <2>4. Good(NoUnderflow(decFinalize(w, set)))
    BY <2>2, <2>3, CleanGood
  <2>5. Good(Invalid(w.status))
    BY <2>1, InvalidGood DEF Clean
  <2> QED BY <1>2, <2>4, <2>5 DEF QuantizeEnd
<1> QED BY <1>1, <1>2

LEMMA QuantizeOperandsGood ==
  ASSUME NEW o, NEW reqexp, NEW set, Clean(o.status)
  PROVE  Good(QuantizeOperands(o, reqexp, set))
<1>1. Good(decNaNs(o.lhs, o.rhs, set, o.status))
  BY NaNsGood DEF Clean
<1>2. Good(Invalid(o.status)) /\ Good(Work(o.lhs, 0, o.status))
  BY CleanGood, InvalidGood DEF Clean, Work
<1>3. Good(QuantizeEnd(QuantizeTo(o.lhs, reqexp, set, o.status), set))
  BY QuantizeToSettled, QuantizeEndGood
<1> QED BY <1>1, <1>2, <1>3, Zenon DEF QuantizeOperands

LEMMA QuantizeOpGood ==
  ASSUME NEW l, NEW r, NEW set, NEW quant
  PROVE  Good(decQuantizeOp(l, r, set, quant, {}))
BY OperandsClean, QuantizeOperandsGood DEF decQuantizeOp
-----------------------------------------------------------------------------
(***************************************************************************)
(* Maximum, minimum and reduce.                                            *)
(***************************************************************************)
LEMMA MaxMinClean ==
  ASSUME NEW l, NEW r, NEW op, NEW set, NEW st, Clean(st)
  PROVE  Clean(MaxMin(l, r, op, set, st).status)
<1>1. ASSUME NEW x PROVE Clean(decFinish(decCopyFit(x, set.digits, 0, st), set).status)
  BY CopyFitExtends, CleanExtends, FinishClean
<1> QED BY <1>1, Zenon DEF MaxMin

LEMMA ExtremumGood ==
  ASSUME NEW l, NEW r, NEW set, NEW op \in {"Max", "Min", "MaxMag", "MinMag"}
  PROVE  Good(decCompareOp(l, r, op, set))
<1>1. ASSUME NEW o, Clean(o.status) PROVE Good(CompareOperands(o, op, set))
  <2>1. Good(MaxMin(o.lhs, o.rhs, op, set, o.status))
    BY <1>1, MaxMinClean, CleanGood
  <2>2. Good(decNaNs(o.lhs, o.rhs, set,
                     o.status \cup When(op = "CompareSignal",
                                        {"Invalid_operation", "sNaN"})))
    BY <1>1, NaNsGood DEF Clean, When
  <2>3. op # "CompareTotal"
    OBVIOUS
  <2> QED BY <2>1, <2>2, <2>3, Zenon DEF CompareOperands
<1> QED BY <1>1, OperandsClean DEF decCompareOp

LEMMA ReduceGood ==
  ASSUME NEW n, NEW set PROVE Good(ReduceOperand(SubsetOperand(n, set, {}), set))
<1> DEFINE o == SubsetOperand(n, set, {})
           w == decFinish(decCopyFit(o.n, set.digits, 0, o.status), set)
<1>1. Clean(o.status)
  BY SubsetOperandLossy, CleanEmpty, CleanLossy
<1> HIDE DEF o
<1>2. Clean(w.status)
  BY <1>1, CopyFitExtends, CleanExtends, FinishClean
<1> HIDE DEF w
<1>3. Good(Reduced(w, set))
  BY <1>2, CleanGood DEF Reduced, Holding, Work
<1>4. Good(decNaNs(o.n, o.n, set, o.status))
  BY <1>1, NaNsGood DEF Clean
<1>5. Good(ReduceOperand(o, set))
  BY <1>3, <1>4 DEF ReduceOperand, w
<1> QED BY <1>5 DEF o

-----------------------------------------------------------------------------
(* Division.                                                               *)
(***************************************************************************)
LEMMA KeptGood ==
  ASSUME NEW n, NEW st, Clean(st) PROVE Good(Work(n, 0, st))
BY CleanGood DEF Work

LEMMA BrokenGood ==
  ASSUME NEW n, NEW st, Clean(st),
         NEW flag \in {"Division_impossible", "Division_undefined"}
  PROVE  Good(Work(n, 0, st \cup {flag}))
BY DEF Good, Work, OneStory, DEC_NaNs, Clean, RoundingFlags

LEMMA ByZeroGood ==
  ASSUME NEW n, NEW st, Clean(st)
  PROVE  Good(Work(n, 0, st \cup {"Division_by_zero"}))
BY DEF Good, Work, OneStory, DEC_NaNs, Clean, RoundingFlags

LEMMA InvalidCleanGood == ASSUME NEW st, Clean(st) PROVE Good(Invalid(st))
BY InvalidGood DEF Clean

LEMMA CopyFinishClean ==
  ASSUME NEW n, NEW set, NEW st, Clean(st)
  PROVE  Clean(decFinish(decCopyFit(n, set.digits, 0, st), set).status)
BY CopyFitExtends, CleanExtends, FinishClean

LEMMA DivideResultClean ==
  ASSUME NEW neg, NEW coef, NEW exp, NEW residue, NEW set, NEW st, Clean(st)
  PROVE  Clean(DivideResult(neg, coef, exp, residue, set, st).status)
<1> DEFINE w == Work([decNumberZero EXCEPT !.neg = neg, !.exp = exp], residue, st)
           s == decSetCoeff(w, set.digits, coef, CountDigits(coef))
<1>1. Clean(s.status)
  <2>1. Clean(w.status)
    BY DEF Work
  <2> HIDE DEF w
  <2> QED BY <2>1, SetCoeffExtends, CleanExtends
<1> HIDE DEF s
<1>2. DivideResult(neg, coef, exp, residue, set, st) = decFinish(s, set)
  BY DEF DivideResult, s
<1> QED BY <1>1, <1>2, FinishClean

LEMMA QuotientResultClean ==
  ASSUME NEW neg, NEW t, NEW e, NEW ideal, NEW set, NEW st, Clean(st)
  PROVE  Clean(QuotientResult(neg, t, e, ideal, set, st).status)
<1>1. \E coef, exp, residue : QuotientResult(neg, t, e, ideal, set, st)
        = TrimSubset(DivideResult(neg, coef, exp, residue, set, st), set)
  BY Zenon DEF QuotientResult
<1>2. ASSUME NEW w, Clean(w.status) PROVE Clean(TrimSubset(w, set).status)
  BY <1>2 DEF TrimSubset, Holding, Work
<1> QED BY <1>1, <1>2, DivideResultClean

LEMMA RemainderResultGood ==
  ASSUME NEW lhs, NEW rhs, NEW t, NEW op, NEW set, NEW st, Clean(st)
  PROVE  Good(RemainderResult(lhs, rhs, t, op, set, st))
<1>1. ASSUME NEW neg, NEW coef, NEW e PROVE Good(DivideResult(neg, coef, e, 0, set, st))
  BY DivideResultClean, CleanGood
<1>2. ASSUME NEW q, NEW rem, NEW y, NEW e
      PROVE  Good(RemainderNonzero(lhs, q, rem, y, e, op, set, st))
  BY <1>1, BrokenGood, Zenon DEF RemainderNonzero
<1>3. ASSUME NEW n PROVE Good(decFinish(Work(n, 0, st), set))
  <2>1. Clean(Work(n, 0, st).status)
    BY DEF Work
  <2> QED BY <2>1, FinishClean, CleanGood
<1> QED BY <1>2, <1>3, Zenon DEF RemainderResult

LEMMA DivideFiniteGood ==
  ASSUME NEW lhs, NEW rhs, NEW op, NEW set, NEW st, Clean(st)
  PROVE  Good(DivideFinite(lhs, rhs, op, set, st))
<1>1. ASSUME NEW t, NEW e PROVE Good(DivideEnd(lhs, rhs, t, e, op, set, st))
  <2>1. ASSUME NEW neg, NEW ideal PROVE Good(QuotientResult(neg, t, e, ideal, set, st))
    BY QuotientResultClean, CleanGood
  <2>2. ASSUME NEW neg, NEW q PROVE Good(DivideResult(neg, q, e, 0, set, st))
    BY DivideResultClean, CleanGood
  <2>3. Good(Work(decNumberZero, 0, st \cup {"Division_impossible"}))
    BY BrokenGood
  <2> QED BY <2>1, <2>2, <2>3, RemainderResultGood, Zenon DEF DivideEnd
<1>2. ASSUME NEW e PROVE Good(LongDivide(lhs, rhs, e, op, set, st))
  BY <1>1 DEF LongDivide
<1>3. Good(decFinish(decCopyFit(lhs, set.digits, 0, st), set))
  BY CopyFinishClean, CleanGood
<1> QED BY <1>2, <1>3, KeptGood, Zenon DEF DivideFinite

LEMMA DivideSpecialGood ==
  ASSUME NEW lhs, NEW rhs, NEW op, NEW set, NEW st, Clean(st)
  PROVE  /\ Good(DivideInfinite(lhs, rhs, op, set, st))
         /\ Good(DivideByZero(lhs, rhs, op, st))
         /\ Good(DivideZero(lhs, rhs, op, set, st))
<1>1. ASSUME NEW n, NEW clamped \in {{}, {"Clamped"}}
      PROVE  Good(decFinish(Work(n, 0, st \cup clamped), set))
  <2>1. Clean(Work(n, 0, st \cup clamped).status)
    BY DEF Clean, Work, OneStory, RoundingFlags, DEC_NaNs
  <2> QED BY <2>1, FinishClean, CleanGood
<1>2. Good(DivideInfinite(lhs, rhs, op, set, st))
  <2>1. Good(decFinish(decCopyFit(lhs, set.digits, 0, st), set))
    BY CopyFinishClean, CleanGood
  <2>2. When(op = "Divide", {"Clamped"}) \in {{}, {"Clamped"}}
    BY DEF When
  <2> QED BY <1>1, <2>1, <2>2, InvalidCleanGood, KeptGood, Zenon DEF DivideInfinite
<1>3. Good(DivideByZero(lhs, rhs, op, st))
  BY BrokenGood, ByZeroGood, InvalidCleanGood, Zenon DEF DivideByZero
<1>4. ASSUME NEW n PROVE Good(decFinalize(Work(n, 0, st), set))
  <2>1. Clean(Work(n, 0, st).status)
    BY DEF Work
  <2> QED BY <2>1, FinalizeExtends, CleanExtends, CleanGood
<1>5. Good(DivideZero(lhs, rhs, op, set, st))
  BY <1>4, KeptGood, Zenon DEF DivideZero
<1> QED BY <1>2, <1>3, <1>5

LEMMA DivideOpGood ==
  ASSUME NEW l, NEW r, NEW set, NEW op PROVE Good(decDivideOp(l, r, set, op, {}))
<1>1. ASSUME NEW o, Clean(o.status) PROVE Good(DivideOperands(o, op, set))
  <2>1. Good(decNaNs(o.lhs, o.rhs, set, o.status))
    BY <1>1, NaNsGood DEF Clean
  <2> QED BY <1>1, <2>1, DivideSpecialGood, DivideFiniteGood, Zenon DEF DivideOperands
<1> QED BY <1>1, OperandsClean DEF decDivideOp
-----------------------------------------------------------------------------
(***************************************************************************)
(* Fused multiply-add.                                                     *)
(***************************************************************************)
\* What a product hands to the addition.
Product(p) == \/ Clean(p.status)
              \/ p.status = {"Invalid_operation"}
              \/ p.status = {"Invalid_operation", "sNaN"} /\ p.n.kind = "nan"

LEMMA MultiplyOpProduct ==
  ASSUME NEW l, NEW r, NEW set PROVE Product(decMultiplyOp(l, r, set, {}))
<1>1. Product(decNaNs(l, r, set, {}))
  <2>1. decNaNs(l, r, set, {}).n.kind = "nan"
    BY DEF decNaNs, Work
  <2>2. \/ decNaNs(l, r, set, {}).status = {}
        \/ decNaNs(l, r, set, {}).status = {"Invalid_operation", "sNaN"}
    BY DEF decNaNs, Work, When
  <2> QED BY <2>1, <2>2, CleanEmpty DEF Product
<1>2. Product(Invalid({})) /\ Product(Work(Infinity(l.neg # r.neg), 0, {}))
  BY CleanEmpty DEF Product, Invalid, Work
<1>3. ASSUME NEW a, NEW b, NEW neg
      PROVE  Product(MultiplyFinite(SubsetOperands(a, b, set, {}), neg, set))
  BY OperandsClean, MultiplyFiniteClean DEF Product
<1> QED BY <1>1, <1>2, <1>3 DEF decMultiplyOp

LEMMA AddProductGood ==
  ASSUME NEW p, NEW f, NEW set, Product(p), set.extended
  PROVE  Good(AddProduct(p, f, set))
<1>1. ASSUME Clean(p.status) PROVE Good(decAddOp(p.n, f, set, FALSE, p.status))
  <2>1. Clean(SubsetOperands(p.n, f, set, p.status).status)
    BY <1>1, SubsetOperandsLossy, CleanLossy
  <2> QED BY <2>1, AddOperandsGood DEF decAddOp
<1>2. ASSUME p.status = {"Invalid_operation", "sNaN"}, p.n.kind = "nan"
      PROVE  Good(decAddOp(p.n, decNumberZero, set, FALSE, p.status))
  <2> DEFINE o == SubsetOperands(p.n, decNumberZero, set, p.status)
  <2>1. o.lhs = p.n /\ o.status = p.status
    BY DEF SubsetOperands, SubsetOperand, WithRight, Operands
  <2> HIDE DEF o
  <2>2. AddOperands(o, set, FALSE) = decNaNs(o.lhs, o.rhs, set, o.status)
    BY <1>2, <2>1 DEF AddOperands, IsNaN
  <2>3. OneStory(o.status)
    BY <1>2, <2>1 DEF OneStory, DEC_NaNs
  <2> QED BY <2>2, <2>3, NaNsGood DEF decAddOp, o
<1>3. ASSUME p.status = {"Invalid_operation"}, NEW n
      PROVE  Good(Work(n, 0, p.status)) /\ "sNaN" \notin p.status
  BY <1>3 DEF Good, Work, OneStory, DEC_NaNs
<1>4. Clean(p.status) => "Invalid_operation" \notin p.status
  BY DEF Clean, RoundingFlags
<1> QED BY <1>1, <1>2, <1>3, <1>4 DEF AddProduct, Product

LEMMA MathStatusGood ==
  ASSUME NEW args, NEW set, NEW n PROVE Good(Work(n, 0, MathStatus(args, set)))
<1>1. ASSUME NEW x, NEW s
      PROVE  decCheckMath(x, s) \in {{}, {"Invalid_context"}, {"Invalid_operation"}}
  BY DEF decCheckMath, When
<1>2. \/ MathStatus(args, set) = {}
      \/ \E x : MathStatus(args, set) = decCheckMath(x, set)
  BY Zenon DEF MathStatus
<1>3. MathStatus(args, set) \in {{}, {"Invalid_context"}, {"Invalid_operation"}}
  BY <1>1, <1>2
<1> QED BY <1>3 DEF Good, Work, OneStory, DEC_NaNs

LEMMA FMAOutcome ==
  ASSUME NEW l, NEW r, NEW f, NEW set PROVE Outcome(decNumberFMA(l, r, f, set))
<1>1. CASE ~set.extended
  <2>1. Good(Work(decNumberZero, 0, {"Invalid_operation"}))
    BY DEF Good, Work, OneStory, DEC_NaNs
  <2> QED BY <1>1, <2>1, DoneOutcome DEF decNumberFMA
<1>2. CASE set.extended
  <2>1. Good(AddProduct(ExactProduct(l, r, set), f, set))
    BY <1>2, MultiplyOpProduct, AddProductGood DEF ExactProduct
  <2>2. Good(Work(decNumberZero, 0, MathStatus(<<l, r, f>>, set)))
    BY MathStatusGood
  <2> QED BY <1>2, <2>1, <2>2, DoneOutcome DEF decNumberFMA
<1> QED BY <1>1, <1>2
-----------------------------------------------------------------------------
(***************************************************************************)
(* Digits and exponents.                                                   *)
(***************************************************************************)
LEMMA EmptyGood == ASSUME NEW n PROVE Good(Work(n, 0, {}))
BY CleanEmpty, KeptGood

LEMMA LogicalOutcome ==
  ASSUME NEW l, NEW r, NEW set
  PROVE  /\ Outcome(decNumberAnd(l, r, set))
         /\ Outcome(decNumberOr(l, r, set))
         /\ Outcome(decNumberXor(l, r, set))
         /\ Outcome(decNumberInvert(l, set))
<1>1. ASSUME NEW valid, NEW places PROVE Outcome(LogicalResult(valid, places))
  BY EmptyGood, InvalidCleanGood, CleanEmpty, DoneOutcome, Zenon DEF LogicalResult
<1> QED BY <1>1 DEF decNumberAnd, decNumberOr, decNumberXor, decNumberInvert

LEMMA MoveOutcome ==
  ASSUME NEW l, NEW r, NEW set
  PROVE  /\ Outcome(decNumberShift(l, r, set))
         /\ Outcome(decNumberRotate(l, r, set))
         /\ Outcome(decNumberScaleB(l, r, set))
<1>1. Good(decNaNs(l, r, set, {})) /\ Good(Invalid({}))
  BY NaNsGood, InvalidCleanGood, CleanEmpty DEF Clean
<1>2. ASSUME NEW by PROVE Good(ScaleBy(l, by, set))
  <2>1. ASSUME NEW n PROVE Good(decFinalize(Work(n, 0, {}), set))
    <3>1. Clean(Work(n, 0, {}).status)
      BY CleanEmpty DEF Work
    <3> QED BY <3>1, FinalizeExtends, CleanExtends, CleanGood
  <2> QED BY <2>1, EmptyGood DEF ScaleBy
<1> QED BY <1>1, <1>2, EmptyGood, DoneOutcome, Zenon
    DEF decNumberShift, decNumberRotate, decNumberScaleB

LEMMA LogBOutcome ==
  ASSUME NEW n, NEW set PROVE Outcome(decNumberLogB(n, set))
<1>1. Outcome(Done(decNaNs(n, n, set, {})))
  BY NaNsGood, CleanEmpty, DoneOutcome DEF Clean
<1>2. ASSUME NEW x PROVE Outcome(Quiet(x))
  BY DEF Outcome, Quiet, OneStory
<1>3. Outcome(Done(Work(Infinity(TRUE), 0, {"Division_by_zero"})))
  <2>1. Good(Work(Infinity(TRUE), 0, {"Division_by_zero"}))
    BY DEF Good, Work, OneStory, DEC_NaNs
  <2> QED BY <2>1, DoneOutcome
<1>4. ASSUME NEW x PROVE Outcome(decNumberPlus(x, set))
  BY AddOpGood, DoneOutcome DEF decNumberPlus, decNumberAdd
<1> QED BY <1>1, <1>2, <1>3, <1>4, Zenon DEF decNumberLogB

(***************************************************************************)
(* Programs.                                                               *)
(***************************************************************************)
\* What every arithmetic operation returns is consistent.
LEMMA AdditionOutcome ==
  ASSUME NEW l, NEW r, NEW set
  PROVE  /\ Outcome(decNumberAdd(l, r, set))
         /\ Outcome(decNumberSubtract(l, r, set))
         /\ Outcome(decNumberPlus(l, set))
         /\ Outcome(decNumberMinus(l, set))
         /\ Outcome(decNumberAbs(l, set))
<1>1. ASSUME NEW a, NEW b, NEW negate
      PROVE  Outcome(Done(decAddOp(a, b, set, negate, {})))
  BY AddOpGood, DoneOutcome
<1> QED BY <1>1 DEF decNumberAdd, decNumberSubtract, decNumberPlus,
           decNumberMinus, decNumberAbs

LEMMA OtherOutcome ==
  ASSUME NEW l, NEW r, NEW set
  PROVE  /\ Outcome(decNumberMultiply(l, r, set))
         /\ Outcome(decNumberQuantize(l, r, set))
         /\ Outcome(decNumberRescale(l, r, set))
         /\ Outcome(decNumberReduce(l, set))
BY MultiplyOpGood, QuantizeOpGood, ReduceGood, DoneOutcome
   DEF decNumberMultiply, decNumberQuantize, decNumberRescale, decNumberReduce

LEMMA ExtremumOutcome ==
  ASSUME NEW l, NEW r, NEW set
  PROVE  /\ Outcome(decNumberMax(l, r, set))
         /\ Outcome(decNumberMin(l, r, set))
         /\ Outcome(decNumberMaxMag(l, r, set))
         /\ Outcome(decNumberMinMag(l, r, set))
<1>1. ASSUME NEW op \in {"Max", "Min", "MaxMag", "MinMag"}
      PROVE  Outcome(Done(decCompareOp(l, r, op, set)))
  BY ExtremumGood, DoneOutcome
<1> QED BY <1>1 DEF decNumberMax, decNumberMin, decNumberMaxMag, decNumberMinMag

LEMMA DivisionOutcome ==
  ASSUME NEW l, NEW r, NEW set
  PROVE  /\ Outcome(decNumberDivide(l, r, set))
         /\ Outcome(decNumberDivideInteger(l, r, set))
         /\ Outcome(decNumberRemainder(l, r, set))
         /\ Outcome(decNumberRemainderNear(l, r, set))
BY DivideOpGood, DoneOutcome
   DEF decNumberDivide, decNumberDivideInteger, decNumberRemainder,
       decNumberRemainderNear
-----------------------------------------------------------------------------
\* A call whose outcome, if it is an arithmetic one, is consistent.
GoodCall == \E op, res, l, r, f, out : /\ CallWith(op, res, l, r, f, out)
                                       /\ op \in Arithmetic => Outcome(out)

\* Every step of a program is such a call, or looks after the context.
LEMMA StepIsCall ==
  ASSUME [Next]_vars
  PROVE  GoodCall \/ Housekeeping \/ UNCHANGED vars
<1>1. ASSUME NumberAdd \/ NumberSubtract \/ NumberMultiply \/ NumberQuantize
               \/ NumberRescale
      PROVE  GoodCall
  BY <1>1, AdditionOutcome, OtherOutcome DEF NumberAdd, NumberSubtract,
     NumberMultiply, NumberQuantize, NumberRescale, Binary, Call, GoodCall
<1>2. ASSUME NumberMax \/ NumberMin \/ NumberMaxMag \/ NumberMinMag
      PROVE  GoodCall
  BY <1>2, ExtremumOutcome DEF NumberMax, NumberMin, NumberMaxMag, NumberMinMag,
     Binary, Call, GoodCall
<1>3. ASSUME NumberPlus \/ NumberMinus \/ NumberAbs \/ NumberReduce
      PROVE  GoodCall
  BY <1>3, AdditionOutcome, OtherOutcome DEF NumberPlus, NumberMinus, NumberAbs,
     NumberReduce, Unary, Call, GoodCall
<1>4. ASSUME \/ NumberCompare \/ NumberCompareSignal \/ NumberCompareTotal
             \/ NumberCompareTotalMag \/ NumberSameQuantum \/ NumberCopySign
             \/ NumberNextToward
      PROVE  GoodCall
  BY <1>4 DEF NumberCompare, NumberCompareSignal, NumberCompareTotal,
     NumberCompareTotalMag, NumberSameQuantum, NumberCopySign, NumberNextToward,
     Binary, Call, GoodCall, Arithmetic
<1>5. ASSUME \/ NumberNextMinus \/ NumberNextPlus \/ NumberToIntegralExact
             \/ NumberToIntegralValue \/ NumberCopyAbs \/ NumberCopyNegate
             \/ NumberTrim
      PROVE  GoodCall
  BY <1>5 DEF NumberNextMinus, NumberNextPlus, NumberToIntegralExact,
     NumberToIntegralValue, NumberCopyAbs, NumberCopyNegate, NumberTrim,
     Unary, Call, GoodCall, Arithmetic
<1>6. ASSUME \/ NumberDivide \/ NumberDivideInteger \/ NumberRemainder
             \/ NumberRemainderNear
      PROVE  GoodCall
  BY <1>6, DivisionOutcome DEF NumberDivide, NumberDivideInteger,
     NumberRemainder, NumberRemainderNear, Binary, Call, GoodCall
<1>7. ASSUME NumberAnd \/ NumberOr \/ NumberXor \/ NumberInvert
      PROVE  GoodCall
  BY <1>7, LogicalOutcome DEF NumberAnd, NumberOr, NumberXor, NumberInvert,
     Binary, Unary, Call, GoodCall
<1>8. ASSUME NumberShift \/ NumberRotate \/ NumberScaleB \/ NumberLogB
      PROVE  GoodCall
  BY <1>8, MoveOutcome, LogBOutcome DEF NumberShift, NumberRotate, NumberScaleB,
     NumberLogB, Binary, Unary, Call, GoodCall
<1>9. ASSUME NumberFMA PROVE GoodCall
  BY <1>9, FMAOutcome DEF NumberFMA, GoodCall
<1>10. ASSUME NumberSquareRoot \/ NumberPower \/ NumberExp \/ NumberLn \/ NumberLog10
       PROVE  GoodCall
  <2>1. \E op \in {"SquareRoot", "Power", "Exp", "Ln", "Log10"} : \E res, l, r, f, out :
          CallWith(op, res, l, r, f, out)
    BY <1>10 DEF NumberSquareRoot, NumberPower, NumberExp, NumberLn, NumberLog10, Call
  <2> QED BY <2>1 DEF GoodCall, Arithmetic
<1> QED BY <1>1, <1>2, <1>3, <1>4, <1>5, <1>6, <1>7, <1>8, <1>9, <1>10, Zenon DEF Next

LEMMA CallFlags == ASSUME GoodCall PROVE FlagsTellOneStory'
<1>1. PICK op, res, l, r, f, out : /\ CallWith(op, res, l, r, f, out)
                                   /\ op \in Arithmetic => Outcome(out)
  BY DEF GoodCall
<1>2. last'.op = op /\ last'.n = out.n /\ last'.status = out.status
  BY <1>1 DEF CallWith
<1> QED BY <1>1, <1>2 DEF FlagsTellOneStory, Outcome

\* The flags an arithmetic operation leaves agree with each other, and an
\* operation that reports an error returns a NaN: for all operands, in every
\* context, on every path through decAddOp, decMultiplyOp, decDivideOp,
\* decQuantizeOp, decCompareOp, decNumberReduce, decNumberFMA and the
\* operations on digits.
THEOREM CalculatorFlagsTellOneStory == Spec => []FlagsTellOneStory
<1>1. Init => FlagsTellOneStory
  BY DEF Init, NoCall, FlagsTellOneStory, Arithmetic
<1>2. FlagsTellOneStory /\ [Next]_vars => FlagsTellOneStory'
  <2> SUFFICES ASSUME FlagsTellOneStory, [Next]_vars PROVE FlagsTellOneStory'
    OBVIOUS
  <2>1. CASE Housekeeping \/ UNCHANGED vars
    BY <2>1 DEF FlagsTellOneStory, Housekeeping, vars
  <2> QED BY <2>1, StepIsCall, CallFlags
<1> QED BY <1>1, <1>2, PTL DEF Spec
-----------------------------------------------------------------------------
(***************************************************************************)
(* Traps.  A context keeps the fields of the structure, so that updating   *)
(* its status is visible and leaves its traps alone.                       *)
(***************************************************************************)
Shape == ctx = [digits |-> ctx.digits, emax |-> ctx.emax, emin |-> ctx.emin,
                round |-> ctx.round, traps |-> ctx.traps, status |-> ctx.status,
                clamp |-> ctx.clamp, extended |-> ctx.extended]

TrapInv == Shape /\ SignalSeesStatus

LEMMA CallTraps == ASSUME GoodCall, TrapInv PROVE TrapInv'
<1>1. PICK op, res, l, r, f, out : CallWith(op, res, l, r, f, out)
  BY DEF GoodCall
<1>2. /\ ctx' = [ctx EXCEPT !.status = @ \cup out.status]
      /\ signal' = (IF op = "ToIntegralValue" THEN {} ELSE out.status)
                     \cap [ctx EXCEPT !.status = @ \cup out.status].traps
  BY <1>1 DEF CallWith, Context!Update
<1>3. Shape' /\ ctx'.status = ctx.status \cup out.status /\ ctx'.traps = ctx.traps
  BY <1>2 DEF TrapInv, Shape
<1>4. signal' \subseteq out.status \cap ctx'.traps
  BY <1>2
<1> QED BY <1>3, <1>4 DEF TrapInv, SignalSeesStatus, Context!SignalSeesStatus

LEMMA HousekeepingTraps == ASSUME Housekeeping, TrapInv PROVE TrapInv'
<1>1. ASSUME NEW word,
             \/ Context!decContextClearStatus(word)
             \/ Context!setTraps(word)
             \/ Context!decContextSetRounding(word)
      PROVE  TrapInv'
  BY <1>1 DEF Context!decContextClearStatus, Context!setTraps,
       Context!decContextSetRounding, Context!Quietly, TrapInv, Shape,
       SignalSeesStatus, Context!SignalSeesStatus
<1>2. ASSUME NEW word, Context!decContextSetStatus(word) PROVE TrapInv'
  <2>1. /\ ctx' = [ctx EXCEPT !.status = @ \cup word]
        /\ signal' = word \cap [ctx EXCEPT !.status = @ \cup word].traps
    BY <1>2 DEF Context!decContextSetStatus, Context!Update
  <2> QED BY <2>1 DEF TrapInv, Shape, SignalSeesStatus, Context!SignalSeesStatus
<1>3. CASE Context!HandleSignal
  BY <1>3 DEF Context!HandleSignal, TrapInv, Shape, SignalSeesStatus,
       Context!SignalSeesStatus
<1> QED BY <1>1, <1>2, <1>3 DEF Housekeeping

\* The handler of a trap finds the flags that raised it recorded in the
\* context and enabled, whichever operation raised them.
THEOREM CalculatorSignalSeesStatus == Spec => []SignalSeesStatus
<1>1. Init => TrapInv
  <2> SUFFICES ASSUME Init PROVE TrapInv
    OBVIOUS
  <2>1. ctx \in decContext /\ signal = {}
    BY CalculatorAssumption DEF Init
  <2> QED BY <2>1 DEF TrapInv, Shape, decContext, SignalSeesStatus,
            Context!SignalSeesStatus
<1>2. TrapInv /\ [Next]_vars => TrapInv'
  <2> SUFFICES ASSUME TrapInv, [Next]_vars PROVE TrapInv'
    OBVIOUS
  <2>1. CASE UNCHANGED vars
    BY <2>1 DEF vars, TrapInv, Shape, SignalSeesStatus, Context!SignalSeesStatus
  <2> QED BY <2>1, StepIsCall, CallTraps, HousekeepingTraps
<1>3. TrapInv => SignalSeesStatus
  BY DEF TrapInv
<1> QED BY <1>1, <1>2, <1>3, PTL DEF Spec
=============================================================================
