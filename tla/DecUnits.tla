------------------------------ MODULE DecUnits ------------------------------
(***************************************************************************)
(* The coefficients in their Units, and operations in place.  Elsewhere a  *)
(* coefficient is the integer it holds; here it is the array, base         *)
(* 10^DECDPUN, lowest Unit first, in one of a few buffers, and the result  *)
(* of an operation may be the buffer of an operand ("res is C, which may   *)
(* be A and/or B").  Each operation below reads and writes the buffers in  *)
(* the order of the code; DecCalculator compares it, for every sharing,    *)
(* with the same operation on values.                                      *)
(*                                                                         *)
(* A buffer holds [neg, kind, exp, digits, lsu]; mem maps the buffers      *)
(* "res", "lhs", "rhs" and "acc" (the accumulator, of which only lsu is    *)
(* used) to what they hold.  Units above the digits of a number hold       *)
(* whatever was there before: Junk.                                        *)
(***************************************************************************)
EXTENDS DecDigits
LOCAL INSTANCE FiniteSetsExt

Radix == 10^DECDPUN
Junk == Radix - 1

\* Digits in the most significant Unit of d digits.
MSUDIGITS(d) == d - (D2U(d) - 1) * DECDPUN

Stored(n, size) ==
  [neg |-> n.neg, kind |-> n.kind, exp |-> n.exp, digits |-> n.digits,
   lsu |-> [i \in 0 .. size - 1 |-> IF i < D2U(n.digits) THEN (n.coef \div Radix^i) % Radix
                                                         ELSE Junk]]

ValueOf(lsu, len) == MapThenSumSet(LAMBDA i : lsu[i] * Radix^i, 0 .. len - 1)

\* The number a buffer holds, or would with another coefficient.
Headed(b, coef) == [neg |-> b.neg, kind |-> b.kind, exp |-> b.exp, digits |-> b.digits,
                     coef |-> coef]
Held(b) == Headed(b, ValueOf(b.lsu, D2U(b.digits)))

\* Who shares the buffer of the result; both only when they are one number.
Sharings(l, r) == {s \in [{"lhs", "rhs"} -> {"res", "lhs", "rhs"}] :
                     /\ s["lhs"] \in {"res", "lhs"}
                     /\ s["rhs"] \in {"res", "rhs"}
                     /\ s["lhs"] = s["rhs"] => l = r}

\* Every object has the same room, here just what is needed.
Memory(s, l, r, set) ==
  LET room == D2U(Greater(set.digits, Greater(l.digits, r.digits)))
  IN  [b \in {"res", "lhs", "rhs", "acc"} |->
         Stored(CASE b = s["lhs"] -> l
                  [] b = s["rhs"] /\ b # s["lhs"] -> r
                  [] OTHER -> decNumberZero, room)]

Allocated(mem, units) == [mem EXCEPT !["acc"].lsu = [i \in 0 .. units - 1 |-> Junk]]

\* A place in a buffer, and the Unit i places above it.
Place(buffer, from) == [at |-> buffer, from |-> from]
At(mem, p, i) == mem[p.at].lsu[p.from + i]
Put(mem, p, i, unit) == [mem EXCEPT ![p.at].lsu[p.from + i] = unit]

\* (Named apart from decGetDigits, which counts the digits of a value.)
GetDigits(lsu, len) ==
  LET used == {i \in 0 .. len - 1 : lsu[i] # 0}
  IN  IF used = {} THEN 1
      ELSE Max(used) * DECDPUN + decGetDigits(lsu[Max(used)], DECDPUN)

(***************************************************************************)
(* decUnitAddSub: C = A + B * m, where B is moved up by bshift Units.  C   *)
(* may be A.  Returns the length of C, negative after a borrow.            *)
(***************************************************************************)
\* The Units of A below B.  In place they stay, unless there is a gap.
LowUnits(mem, a, alen, bshift, c) ==
  LET low[i \in 0 .. bshift] ==
        IF i = 0 THEN mem
        ELSE Put(low[i - 1], c, i - 1, IF i - 1 < alen THEN At(mem, a, i - 1) ELSE 0)
  IN  IF a = c /\ bshift <= alen THEN mem ELSE low[bshift]

\* One Unit of the sum, with the carry (maybe negative) of the one below.
SumUnit(s, a, alen, b, blen, bshift, m, i) ==
  s.carry + (IF i < alen THEN At(s.mem, a, i) ELSE 0)
          + (IF i - bshift < blen THEN At(s.mem, b, i - bshift) * m ELSE 0)

Carry(mem, c, i, unit) == [mem |-> Put(mem, c, i, unit % Radix), carry |-> unit \div Radix]

\* The sums of the other Units, lowest first.
SumUnits(mem, a, alen, b, blen, bshift, c, m, top) ==
  LET sum[i \in bshift .. top] ==
        IF i = bshift THEN [mem |-> mem, carry |-> 0]
        ELSE LET s == sum[i - 1]
             IN  Carry(s.mem, c, i - 1, SumUnit(s, a, alen, b, blen, bshift, m, i - 1))
  IN  sum[top]

\* After a borrow: the complement of all Units, from the lowest.
ComplementUnit(mem, c, i, unit) ==
  [mem |-> Put(mem, c, i, unit % Radix), add |-> unit \div Radix]
Complement(mem, c, top) ==
  LET turn[i \in 0 .. top] ==
        IF i = 0 THEN [mem |-> mem, add |-> 1]
        ELSE LET s == turn[i - 1]
             IN  ComplementUnit(s.mem, c, i - 1, Radix - 1 + s.add - At(s.mem, c, i - 1))
  IN  turn[top]

Length(mem, units) == [mem |-> mem, units |-> units]

\* The borrow that is left, if any, goes into one more Unit.
Borrowed(t, carry, c, top) ==
  IF t.add - carry - 1 = 0 THEN Length(t.mem, -top)
  ELSE Length(Put(t.mem, c, top, t.add - carry - 1), -(top + 1))

Carried(s, c, top) ==
  CASE s.carry = 0 -> Length(s.mem, top)
    [] s.carry > 0 -> Length(Put(s.mem, c, top, s.carry), top + 1)
    [] OTHER -> Borrowed(Complement(s.mem, c, top), s.carry, c, top)

decUnitAddSub(mem, a, alen, b, blen, bshift, c, m) ==
  LET top == Greater(alen, blen + bshift)
  IN  Carried(SumUnits(LowUnits(mem, a, alen, bshift, c),
                       a, alen, b, blen, bshift, c, m, top), c, top)

(***************************************************************************)
(* Moving digits.  Upwards the highest Unit moves first, downwards the     *)
(* lowest, so that in place none is overwritten before it is read.         *)
(***************************************************************************)
\* The Units of dst become the first len of those src holds, less its lowest
\* shift digits.
Lowered(dst, src, units, shift, len) ==
  LET skip == shift \div DECDPUN
      cut == shift % DECDPUN
      above(i) == IF i + 1 < units THEN (src[i + 1] % 10^cut) * 10^(DECDPUN - cut) ELSE 0
  IN  [i \in DOMAIN dst |-> IF i < len THEN (src[i + skip] \div 10^cut) + above(i + skip)
                                       ELSE dst[i]]

decShiftToLeast(lsu, units, shift) ==
  IF shift = units * DECDPUN THEN [lsu EXCEPT ![0] = 0]
  ELSE Lowered(lsu, lsu, units, shift, D2U(units * DECDPUN - shift))

\* decShiftToMost on Units; DecRounding's operator of that name pads a value.
RaisedUnits(lsu, digits, shift) ==
  LET by == D2U(shift)
      cut == DECDPUN - MSUDIGITS(shift)
      source(i) == IF i \in 0 .. D2U(digits) - 1 THEN lsu[i] ELSE 0
      raised(i) == (source(i - by) \div 10^cut)
                     + (source(i - by + 1) % 10^cut) * 10^(DECDPUN - cut)
  IN  CASE shift = 0 -> lsu
        [] shift > 0 /\ digits + shift <= DECDPUN -> [lsu EXCEPT ![0] = @ * 10^shift]
        [] OTHER -> [i \in DOMAIN lsu |-> IF i < D2U(digits + shift) THEN raised(i)
                                                                    ELSE lsu[i]]
MovedUp(b, shift) == [b EXCEPT !.lsu = RaisedUnits(@, b.digits, shift), !.digits = @ + shift]

decReverse(lsu, lo, hi) ==
  [i \in DOMAIN lsu |-> IF i \in lo .. hi THEN lsu[lo + hi - i] ELSE lsu[i]]

\* decDecap, of which DecDigits has the value.
Decapped(b, drop) ==
  LET left == b.digits - drop
      msu == D2U(left) - 1
      lsu == [b.lsu EXCEPT ![msu] = @ % 10^MSUDIGITS(left)]
  IN  IF drop >= b.digits THEN [b EXCEPT !.lsu[0] = 0, !.digits = 1]
      ELSE [b EXCEPT !.lsu = lsu, !.digits = GetDigits(lsu, msu + 1)]

CopiedUnits(dst, src, len) == [i \in DOMAIN dst |-> IF i < len THEN src[i] ELSE dst[i]]

\* decNumberCopy into res.
Copied(mem, src) ==
  IF src = "res" THEN mem
  ELSE [mem EXCEPT !["res"] =
          [mem[src] EXCEPT !.lsu = CopiedUnits(mem["res"].lsu, @, D2U(mem[src].digits))]]

(***************************************************************************)
(* The result in res: mem, the residue and the status.                     *)
(***************************************************************************)
Result(mem, residue, status) == [mem |-> mem, residue |-> residue, status |-> status]

\* decSetCoeff of len digits in the buffer src.  Residue, status, length and
\* exponent are those of the values; the Units are moved.
SetNumber(w, set, lsu) ==
  Result([w.mem EXCEPT !["res"].lsu = lsu, !["res"].digits = set.n.digits,
                       !["res"].exp = set.n.exp], set.residue, set.status)
SetFrom(w, units, len, length) ==
  SetNumber(w, decSetCoeff(Work(Headed(w.mem["res"], 0), w.residue, w.status), length,
                           ValueOf(units, D2U(len)), len),
            IF len <= length THEN CopiedUnits(w.mem["res"].lsu, units, D2U(len))
            ELSE Lowered(w.mem["res"].lsu, units, D2U(len), len - length, D2U(length)))
SetUnits(w, src, len, length) == SetFrom(w, w.mem[src].lsu, len, length)

\* decCopyFit: the sign and the exponent are copied first.
FittedUnits(mem, src, residue, set) ==
  SetUnits(Result([mem EXCEPT !["res"].neg = mem[src].neg, !["res"].exp = mem[src].exp],
                  residue, {}), src, mem[src].digits, set.digits)

\* What follows looks at res alone, and is that of the values.
Unfinished(w) == Work(Held(w.mem["res"]), w.residue, w.status)

(***************************************************************************)
(* decAddOp of the finite numbers in the buffers l and r.                  *)
(***************************************************************************)
\* One operand is zero, and the other one, in the buffer y, is copied; the
\* zero was saved before.
AddZeroStored(mem, zero, y, neg, set) ==
  LET signed(w) == Holding(w, [w.n EXCEPT !.neg = neg])
  IN  AddToZero(zero, signed(Unfinished(FittedUnits(mem, y, 0, set))), set)

\* The copy may overwrite rhs, whose Unit was added before.
AddUnit(mem, l, r, diffsign) ==
  LET partial == mem[l].lsu[0] + (IF diffsign THEN -1 ELSE 1) * mem[r].lsu[0]
      res == [Copied(mem, l)["res"] EXCEPT !.lsu[0] = partial]
  IN  Work(Held(IF diffsign
                THEN [res EXCEPT !.digits = GetDigits(res.lsu, D2U(@))] ELSE res), 0, {})

\* The number in y is copied, and padded by what it was short of.
AddResidueStored(mem, y, neg, diffsign, set) ==
  LET shift == set.digits - mem[y].digits
      padded(b) == IF shift > 0 THEN [MovedUp(b, shift) EXCEPT !.exp = @ - shift] ELSE b
      signed(w) == [w EXCEPT !.mem["res"] = [padded(@) EXCEPT !.neg = neg]]
  IN  Unfinished(signed(FittedUnits(mem, y, IF diffsign THEN -1 ELSE 1, set)))

\* (mutant) The Units are moved up in place too.
BufferIfLong(maxdigits, y, rhsshift, set) == maxdigits >= set.digits

\* A buffer for the sum: it may be too long, or be written over its operand.
NeedsBuffer(maxdigits, y, rhsshift, set) ==
  maxdigits >= set.digits \/ (y = "res" /\ rhsshift > 0)

\* The sum is copied back from acc, possibly shortening, and counted.
CopiedBack(mem, acc, len, set) ==
  IF acc = "res" THEN Result(mem, 0, {})
  ELSE SetUnits(Result(mem, 0, {}), acc,
                IF len > set.digits THEN GetDigits(mem[acc].lsu, D2U(len)) ELSE len,
                set.digits)
CountedUnits(w) == [w EXCEPT !.mem["res"].digits = GetDigits(w.mem["res"].lsu, D2U(@))]

SumStored(sum, acc, set) ==
  LET borrowed == sum.units < 0
      len == DECDPUN * (IF borrowed THEN -sum.units ELSE sum.units)
      mem == [sum.mem EXCEPT !["res"].digits = len, !["res"].neg = @ # borrowed]
  IN  Unfinished(CountedUnits(CopiedBack(mem, acc, len, set)))

\* The sum of x and of y, which is moved up.
AddAlignedStored(mem, x, y, neg, diffsign, set) ==
  LET padding == mem[y].exp - mem[x].exp
      rhsshift == D2U(padding + 1) - 1
      mult == 10^(padding - rhsshift * DECDPUN)
      maxdigits == Greater(mem[y].digits + padding, mem[x].digits)
      acc == IF NeedsBuffer(maxdigits, y, rhsshift, set) THEN "acc" ELSE "res"
      ready == [Allocated(mem, D2U(maxdigits) + 1) EXCEPT !["res"].neg = neg,
                                                          !["res"].exp = mem[x].exp]
  IN  SumStored(decUnitAddSub(ready, Place(x, 0), D2U(mem[x].digits),
                              Place(y, 0), D2U(mem[y].digits), rhsshift,
                              Place(acc, 0), IF diffsign THEN -mult ELSE mult), acc, set)

\* The paths that end in decFinish.
AddCarefully(mem, l, r, right, diffsign, set) ==
  LET swapped == mem[l].exp > mem[r].exp
      x == IF swapped THEN r ELSE l
      y == IF swapped THEN l ELSE r
      low == IF swapped THEN right ELSE mem[l].neg
      high == IF swapped THEN mem[l].neg ELSE right
      padding == mem[y].exp - mem[x].exp
  IN  CASE ISZERO(Held(mem[l])) -> AddZeroStored(mem, Held(mem[l]), r, right, set)
        [] ~ISZERO(Held(mem[l])) /\ ISZERO(Held(mem[r])) ->
             AddZeroStored(mem, Held(mem[r]), l, mem[l].neg, set)
        [] OTHER ->
             IF padding # 0 /\ mem[y].digits + padding > mem[x].digits + set.digits + 1
             THEN AddResidueStored(mem, y, high, diffsign, set)
             ELSE AddAlignedStored(mem, x, y, low, diffsign, set)

\* (The sign of a zero that is no sum was settled before: it stays the same.)
AddStored(mem, l, r, negate, set) ==
  LET right == mem[r].neg # negate
      diffsign == mem[l].neg # right
      zero == ISZERO(Held(mem[l])) \/ ISZERO(Held(mem[r]))
  IN  IF ~zero /\ InOneUnit(Held(mem[l]), Held(mem[r]), diffsign, set)
      THEN AddUnit(mem, l, r, diffsign)
      ELSE SignZero(decFinish(AddCarefully(mem, l, r, right, diffsign, set), set),
                    diffsign, set)

(***************************************************************************)
(* decMultiplyOp, when the shorter operand has at most NEEDTWO digits: acc *)
(* grows by one partial product for each of its Units.                     *)
(***************************************************************************)
NEEDTWO == 2 * DECDPUN

\* The partial product of one Unit, added at its place; a zero only makes
\* the accumulator longer.
AddPartial(acc, mer, place, long, len) ==
  LET here == Place("acc", place)
      sum == decUnitAddSub(acc.mem, here, acc.units - place, Place(long, 0), len, 0, here, mer)
  IN  IF mer = 0 THEN Length(Put(acc.mem, Place("acc", 0), acc.units, 0), acc.units + 1)
      ELSE [sum EXCEPT !.units = @ + place]

\* long and short are buffers.
LongProduct(mem, long, short) ==
  LET len == D2U(mem[long].digits)
      mers == D2U(mem[short].digits)
      start == Put(Allocated(mem, len + mers), Place("acc", 0), 0, 0)
      turn[i \in 0 .. mers] ==
        IF i = 0 THEN Length(start, 1)
        ELSE AddPartial(turn[i - 1], mem[short].lsu[i - 1], i - 1, long, len)
  IN  turn[mers]

ProductInto(p, neg, exp, set) ==
  LET len == GetDigits(p.mem["acc"].lsu, p.units)
      ready == [p.mem EXCEPT !["res"].neg = neg, !["res"].digits = len, !["res"].exp = exp]
  IN  decFinish(Unfinished(SetUnits(Result(ready, 0, {}), "acc", len, set.digits)), set)

MultiplyStored(mem, l, r, set) ==
  LET swap == mem[l].digits < mem[r].digits
  IN  ProductInto(LongProduct(mem, IF swap THEN r ELSE l, IF swap THEN l ELSE r),
                  mem[l].neg # mem[r].neg, ProductExponent(mem[l].exp, mem[r].exp), set)

(***************************************************************************)
(* Comparison of two coefficients, the second one moved up by e digits.    *)
(***************************************************************************)
\* Unit by Unit, from the top.
SameLength(l, r, len) ==
  LET differ == {i \in 0 .. len - 1 : l[i] # r[i]}
  IN  IF differ = {} THEN 0 ELSE Sign(l[Max(differ)] - r[Max(differ)])

SumSign(sum) ==
  CASE sum.units < 0 -> -1
    [] sum.units > 0 /\ (\E i \in 0 .. sum.units - 1 : sum.mem["acc"].lsu[i] # 0) -> 1
    [] OTHER -> 0

UnitCompare(mem, l, r, e) ==
  LET alen == D2U(mem[l].digits)
      blen == D2U(mem[r].digits)
      far == ByLength(alen, blen, e)
      need == Greater(alen, blen + D2U(e)) + 2
  IN  CASE far # 0 -> far
        [] far = 0 /\ e = 0 -> SameLength(mem[l].lsu, mem[r].lsu, alen)
        [] OTHER -> SumSign(decUnitAddSub(Allocated(mem, need), Place(l, 0), alen,
                                          Place(r, 0), blen, e \div DECDPUN,
                                          Place("acc", 0), -(10^(e % DECDPUN))))

\* decCompare of two finite numbers with the sign `sign'.
CompareStored(mem, l, r, sign) ==
  IF mem[l].exp > mem[r].exp THEN -sign * UnitCompare(mem, r, l, mem[l].exp - mem[r].exp)
                             ELSE sign * UnitCompare(mem, l, r, mem[r].exp - mem[l].exp)

(***************************************************************************)
(* Shift and rotate: copied into res, then moved there.                    *)
(***************************************************************************)
ShiftLeftStored(b, by, set) ==
  LET left == IF b.digits + by > set.digits THEN Decapped(b, b.digits + by - set.digits)
                                            ELSE b
  IN  IF left.digits > 1 \/ left.lsu[0] # 0 THEN MovedUp(left, by) ELSE left

ShiftStored(mem, l, by, set) ==
  LET b == Copied(mem, l)["res"]
  IN  CASE by = 0 -> b
        [] by # 0 /\ (by = set.digits \/ -by >= b.digits) ->
             [b EXCEPT !.lsu[0] = 0, !.digits = 1]
        [] OTHER ->
             IF by > 0 THEN ShiftLeftStored(b, by, set)
             ELSE [b EXCEPT !.lsu = decShiftToLeast(@, D2U(b.digits), -by), !.digits = @ + by]

\* The digits short of a Unit go round the top; msu holds msudigits of them.
RotatePart(lsu, shift, digits) ==
  LET msu == D2U(digits) - 1
      msudigits == MSUDIGITS(digits)
      save == lsu[0] % 10^shift
      low == decShiftToLeast(lsu, msu + 1, shift)
      over == shift - msudigits
  IN  CASE shift = 0 -> lsu
        [] shift > msudigits ->
             [low EXCEPT ![msu] = save \div 10^over,
                         ![msu - 1] = @ + (save % 10^over) * 10^(DECDPUN - over)]
        [] OTHER -> [low EXCEPT ![msu] = @ + save * 10^(msudigits - shift)]

\* The lowest Units, which will be on top, are aligned with the top one.
RotateAlign(lsu, units, digits) ==
  LET shift == DECDPUN - MSUDIGITS(digits)
      save == lsu[0] % 10^shift
  IN  IF shift = 0 THEN lsu
      ELSE [decShiftToLeast(lsu, units, shift) EXCEPT
              ![D2U(digits) - 1] = @ + save * 10^MSUDIGITS(digits)]

\* Whole Units: each part is reversed, then all.
RotateWhole(lsu, units, digits) ==
  LET msu == D2U(digits) - 1
      aligned == RotateAlign(lsu, units, digits)
  IN  IF units = 0 THEN lsu
      ELSE decReverse(decReverse(decReverse(aligned, units, msu), 0, units - 1), 0, msu)

RotateStored(mem, l, by, set) ==
  LET b == Copied(mem, l)["res"]
      left == IF by < 0 THEN set.digits + by ELSE by
      right == set.digits - left
      full == [i \in DOMAIN b.lsu |->
                 IF i \in D2U(b.digits) .. D2U(set.digits) - 1 THEN 0 ELSE b.lsu[i]]
      lsu == RotateWhole(RotatePart(full, right % DECDPUN, set.digits),
                         right \div DECDPUN, set.digits)
  IN  IF left \in {0, set.digits} THEN b
      ELSE [b EXCEPT !.lsu = lsu, !.digits = GetDigits(lsu, D2U(set.digits))]

(***************************************************************************)
(* An operation on the buffers of s, and the calls that come to it (with   *)
(* clamping no other Units are touched before the final checks).           *)
(***************************************************************************)
OnUnits(op, l, r, set) ==
  /\ op \in {"Add", "Subtract", "Multiply", "Compare", "Shift", "Rotate"}
  /\ set.extended /\ ~set.clamp /\ l.kind = "fin" /\ r.kind = "fin"
  /\ CASE op \in {"Add", "Subtract"} -> TRUE
       [] op = "Multiply" -> Lesser(l.digits, r.digits) <= NEEDTWO
       [] op = "Compare" -> ~ISZERO(l) /\ ~ISZERO(r) /\ l.neg = r.neg
       [] OTHER -> DigitCount(r, set.digits)

InPlace(op, l, r, s, set) ==
  LET mem == Memory(s, l, r, set)
  IN  CASE op \in {"Add", "Subtract"} ->
             Done(AddStored(mem, s["lhs"], s["rhs"], op = "Subtract", set))
        [] op = "Multiply" -> Done(MultiplyStored(mem, s["lhs"], s["rhs"], set))
        [] op = "Compare" ->
             Quiet(Unity(CompareStored(mem, s["lhs"], s["rhs"], Signum(l, FALSE))))
        [] op = "Shift" -> Quiet(Held(ShiftStored(mem, s["lhs"], decGetInt(r), set)))
        [] OTHER -> Quiet(Held(RotateStored(mem, s["lhs"], decGetInt(r), set)))
=============================================================================
