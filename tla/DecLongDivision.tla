--------------------------- MODULE DecLongDivision ---------------------------
(***************************************************************************)
(* The long division of decDivideOp, Unit by Unit: the quotient Unit is    *)
(* estimated from the leading Units, never too high, and corrected by      *)
(* further subtractions.  var1 is the dividend, padded, from which the     *)
(* divisor var2 is subtracted in place; both are kept by value, so that    *)
(* the Unit of weight Power(B, i) is (var1 \div Power(B, i)) % B.          *)
(***************************************************************************)
EXTENDS DecPowers

CONSTANTS Radix,        \* of the digits (10)
          DECDPUN,      \* digits in a Unit
          Divisions     \* the divisions to carry out: [op, lhs, lexp, rhs, rexp, digits]

ASSUME QuotientAssumption == /\ Radix \in Nat \ {0} /\ Radix % 2 = 0
                             /\ DECDPUN \in Nat \ {0}

\* Zeros are dealt with before.
ASSUME DivisionAssumption ==
  Divisions \subseteq [op : {"Divide", "DivideInteger", "Remainder", "RemainderNear"},
                      lhs : Nat \ {0}, lexp : Int, rhs : Nat \ {0}, rexp : Int,
                      digits : Nat \ {0}]

VARIABLES division,     \* the one under way
          pc,           \* in the inner loop, at its end, out of the loops, returned
          var1, var2ulen,
          thisunit,     \* the Unit of the quotient under construction
          acc, accunits, accdigits,     \* the accumulated quotient
          exponent,     \* of the Unit under construction
          result

vars == <<division, pc, var1, var2ulen, thisunit, acc, accunits, accdigits, exponent,
          result>>

\* As what it promises: a turn of the outer loop is a step.
Promise == INSTANCE DecQuotient
             WITH quotient <- acc,
                  exponent <- IF pc \in {"inner", "unit"} THEN exponent + DECDPUN
                                                          ELSE exponent,
                  over <- pc \in {"done", "returned"}

Remains(op) == Promise!Remains(op)

B == Power(Radix, DECDPUN)
Most(x, y) == IF x > y THEN x ELSE y
Least(x, y) == IF x < y THEN x ELSE y
Digits(x) == Places(x, Radix)
Units(x) == Places(x, B)
D2U(d) == (d + DECDPUN - 1) \div DECDPUN
Msu(x) == x \div Power(B, Units(x) - 1)

\* The divisor where it stands against var1 now.
Var2(d, ulen) == d.rhs * Power(B, ulen - Units(d.rhs))
-----------------------------------------------------------------------------
(***************************************************************************)
(* Setup: var1 has room for the full slide of the divisor to the right, a  *)
(* long dividend, and what rounding, leading zeros and alignment take.     *)
(***************************************************************************)
\* (mutant) The room for leading zeros is forgotten.
TightVar1(d) == D2U(Most(Digits(d.rhs) + d.digits - 1, Digits(d.lhs))) + 1
                  + (IF d.op = "Divide" THEN 0 ELSE 1)

Var1Units(d) == D2U(Most(Digits(d.rhs) + d.digits - 1, Digits(d.lhs))) + 2
                  + (IF d.op = "Divide" THEN 0 ELSE 1)

\* With the leading zeros of both first Units allowed for.
FirstExponent(d) == (d.lexp + Digits(d.lhs)) - (d.rexp + Digits(d.rhs))
                      - Digits(Msu(d.lhs)) + Digits(Msu(d.rhs))

\* An integer quotient is aligned, by shifting var1 to the right.
Cut(d) == IF d.op = "Divide" THEN 0
          ELSE IF FirstExponent(d) < 0 THEN -FirstExponent(d)
          ELSE DECDPUN - (FirstExponent(d) % DECDPUN)

Padded(d) == d.lhs * Power(B, Var1Units(d) - Units(d.lhs))
InitPad(d) == (Var1Units(d) - D2U(Digits(d.lhs))) * DECDPUN - Cut(d)

\* A first Unit that would be zero is skipped.
Skips(d) == d.op = "Divide" /\ Msu(d.lhs) < Msu(d.rhs)

\* The quick exits: an integer quotient or a remainder of a number below one.
IsLong(d) ==
  LET adjusted == (d.lexp + Digits(d.lhs)) - (d.rexp + Digits(d.rhs))
  IN  ~ (/\ adjusted < 0 /\ d.op # "Divide"
         /\ \/ d.op = "DivideInteger"
            \/ d.lexp <= d.rexp /\ (d.op = "Remainder" \/ adjusted < -1))

NoResult == [kind |-> "none", coef |-> 0, exp |-> 0, residue |-> FALSE, inverted |-> FALSE]

Init == /\ division \in {d \in Divisions : IsLong(d)}
        /\ pc = "inner"
        /\ var1 = Padded(division) \div Power(Radix, Cut(division))
        /\ var2ulen = Var1Units(division) - (IF Skips(division) THEN 1 ELSE 0)
        /\ exponent = FirstExponent(division) + Cut(division)
                        - (IF Skips(division) THEN DECDPUN ELSE 0)
        /\ thisunit = 0
        /\ acc = 0 /\ accunits = 0 /\ accdigits = 0
        /\ result = NoResult
-----------------------------------------------------------------------------
(***************************************************************************)
(* The loops.                                                              *)
(***************************************************************************)
\* The first two Units of var1.  (Below a single Unit there is whatever the
\* memory holds.)
LeadingPair(below) == IF Units(var1) = 1 THEN var1 * B + below
                                         ELSE var1 \div Power(B, Units(var1) - 2)

\* (mutant) The Units not looked at are taken for zeros.
PlainMsu2(d) == Msu(d.rhs)

\* What the estimate divides by: one Unit of var2, or two, plus one if there
\* are more.
Msu2Plus(d) == Msu(d.rhs) + (IF Units(d.rhs) > 1 THEN 1 ELSE 0)
Msu2Pair(d) == IF Units(d.rhs) = 1 THEN d.rhs * B
               ELSE d.rhs \div Power(B, Units(d.rhs) - 2) + (IF Units(d.rhs) > 2 THEN 1 ELSE 0)

Estimate(below) ==
  LeadingPair(below) \div (IF Units(var1) = var2ulen THEN Msu2Pair(division)
                                                     ELSE Msu2Plus(division))

\* An estimate of zero is put right.
Multiplier(below) == Most(Estimate(below), 1)

Subtract ==
  /\ pc = "inner"
  /\ Units(var1) >= var2ulen
  /\ var1 > Var2(division, var2ulen)
  /\ \E below \in {0, B - 1} :
       /\ thisunit' = thisunit + Multiplier(below)
       /\ var1' = var1 - Multiplier(below) * Var2(division, var2ulen)
  /\ UNCHANGED <<division, pc, var2ulen, acc, accunits, accdigits, exponent, result>>

\* var1 is too low, or the same: the next Unit is known.
Break ==
  /\ pc = "inner"
  /\ \/ Units(var1) < var2ulen /\ UNCHANGED <<thisunit, var1>>
     \/ /\ Units(var1) = var2ulen
        /\ var1 < Var2(division, var2ulen)
        /\ UNCHANGED <<thisunit, var1>>
     \/ /\ var1 = Var2(division, var2ulen)
        /\ thisunit' = thisunit + 1
        /\ var1' = 0
  /\ pc' = "unit"
  /\ UNCHANGED <<division, var2ulen, acc, accunits, accdigits, exponent, result>>

\* A Unit that is no leading zero is stored; its digits are counted.
Stored == accunits # 0 \/ thisunit # 0

\* (mutant) One digit too few is asked for.
FullAtDigits(d, digits) == digits >= d.digits

Full(d, digits) == digits > d.digits

\* A zero residue ends a remainder, and a division with all its zeros.
ExactEnds(d, e) == \/ Remains(d.op)
                   \/ d.op = "Divide" /\ e <= d.lexp - d.rexp

Accumulate ==
  /\ pc = "unit"
  /\ IF Stored
     THEN /\ acc' = acc * B + thisunit
          /\ accunits' = accunits + 1
          /\ accdigits' = IF accunits = 0 THEN Digits(thisunit) ELSE accdigits + DECDPUN
     ELSE UNCHANGED <<acc, accunits, accdigits>>
  /\ IF \/ Stored /\ Full(division, accdigits')
        \/ var1 = 0 /\ ExactEnds(division, exponent)
        \/ exponent = 0 /\ division.op # "Divide"
     THEN /\ pc' = "done"
          /\ UNCHANGED <<thisunit, var2ulen, exponent>>
     ELSE /\ pc' = "inner"
          /\ thisunit' = 0
          /\ var2ulen' = var2ulen - 1
          /\ exponent' = exponent - DECDPUN
  /\ UNCHANGED <<division, var1, result>>
-----------------------------------------------------------------------------
(***************************************************************************)
(* After the loops: the coefficient and exponent handed to decSetCoeff.    *)
(***************************************************************************)
\* The zeros an exact quotient does not need.
LooseZeros ==
  LET lsu == acc % B
      zeros == {k \in 0 .. DECDPUN : lsu # 0 /\ lsu % Power(Radix, k) = 0}
      room == (division.lexp - division.rexp) - exponent
  IN  IF var1 # 0 \/ lsu = 0 \/ room <= 0 THEN 0
      ELSE Least(room, CHOOSE k \in zeros : \A i \in zeros : i <= k)

Quotient == [NoResult EXCEPT !.kind = "number", !.coef = acc \div Power(Radix, LooseZeros),
                             !.exp = exponent + LooseZeros, !.residue = var1 # 0]

Impossible == [NoResult EXCEPT !.kind = "impossible"]

\* The zeros below the residue in var1 are padding: those of the dividend, or
\* those the divisor still has.
Postshift ==
  LET d == division
  IN  Least(InitPad(d) + exponent - d.lexp + d.rexp, InitPad(d))

Residue == var1 \div Power(Radix, Postshift)
LowerExponent == Least(division.lexp, division.rexp)

\* (mutant) The parity of the quotient is not looked at.
NearestTiesUp(twice, y) == twice >= y

\* Is the nearest quotient one more?
NearestIsUp(twice, y) == twice > y \/ (twice = y /\ (acc % B) % 2 = 1)

RemainderResult ==
  LET y == division.rhs * Power(Radix, division.rexp - LowerExponent)
      remainder == [NoResult EXCEPT !.kind = "number", !.exp = LowerExponent,
                                    !.coef = IF var1 = 0 THEN 0 ELSE Residue]
  IN  IF var1 # 0 /\ division.op = "RemainderNear" /\ NearestIsUp(2 * Residue, y)
      THEN IF acc = Power(Radix, division.digits) - 1 THEN Impossible
           ELSE [remainder EXCEPT !.coef = y - @, !.inverted = TRUE]
      ELSE remainder

\* (A quotient without a Unit counts as the digit 0.)
Outcome ==
  IF division.op = "Divide" THEN Quotient
  ELSE IF Most(accdigits, 1) + exponent > division.digits THEN Impossible
  ELSE IF division.op = "DivideInteger"
  THEN [Quotient EXCEPT !.coef = acc, !.exp = exponent, !.residue = FALSE]
  ELSE RemainderResult

Conclude ==
  /\ pc = "done"
  /\ pc' = "returned"
  /\ result' = Outcome
  /\ UNCHANGED <<division, var1, var2ulen, thisunit, acc, accunits, accdigits, exponent>>

Next == Subtract \/ Break \/ Accumulate \/ Conclude

\* The routine runs to its end: nothing else is scheduled in between.
Spec == Init /\ [][Next]_vars /\ WF_vars(Next)
-----------------------------------------------------------------------------
\* The multiplier is never overestimated, so that the subtraction in place
\* needs no sign, and a quotient Unit stays below the base of the Units.
NeverOverestimated == var1 >= 0 /\ thisunit < B

\* All that is read and written lies inside the buffers: the comment "there's
\* always a msu1-1", the divisor does not slide out of var1, and the
\* accumulator was given room for every Unit.
InsideBuffers ==
  /\ Units(division.rhs) <= var2ulen
  /\ (pc = "inner" /\ Units(var1) >= var2ulen /\ var1 > Var2(division, var2ulen))
       => Units(var1) >= 2
  /\ accunits <= D2U(division.digits + DECDPUN)
  /\ Units(var1) <= Var1Units(division)

\* What is handed on: the quotient cut at its exponent, told whether anything
\* remains, with a digit more than wanted or exact and at (or as near as it
\* gets to) the ideal exponent; the integer quotient, refused exactly when it
\* has too many digits; the remainder of the truncated or the nearest integer
\* quotient, exactly.
IntegerQuotient == Promise!CutAt(division, 0)
Remainder(q) ==
  LET d == division
  IN  d.lhs * Power(Radix, d.lexp - LowerExponent) - q * d.rhs * Power(Radix, d.rexp - LowerExponent)
Fits(q) == q < Power(Radix, division.digits)
RightDivide ==
  LET d == division
  IN  /\ result.coef = Promise!CutAt(d, result.exp)
      /\ result.residue = ~Promise!ExactAt(d, result.exp)
      /\ result.residue => result.coef >= Power(Radix, d.digits)
      /\ ~result.residue /\ ~Promise!ExactAt(d, d.lexp - d.rexp) =>
           result.exp <= d.lexp - d.rexp /\ (result.coef % Radix # 0 \/ ~Fits(result.coef))
RightRemainder ==
  LET q == IntegerQuotient
      up == /\ division.op = "RemainderNear"
            /\ 2 * Remainder(q) + (q % 2) > Remainder(q) - Remainder(q + 1)
  IN  IF ~Fits(IF up THEN q + 1 ELSE q) THEN result = Impossible
      ELSE /\ result.kind = "number" /\ result.exp = LowerExponent
           /\ result.inverted = up
           /\ result.coef = IF up THEN -Remainder(q + 1) ELSE Remainder(q)
ResultIsRight ==
  pc = "returned" =>
    IF division.op = "Divide" THEN RightDivide
    ELSE IF Remains(division.op) THEN RightRemainder
    ELSE IF ~Fits(IntegerQuotient) THEN result = Impossible
    ELSE /\ result.kind = "number"
         /\ result.coef * Power(Radix, result.exp) = IntegerQuotient

\* Every division comes to its end.
Terminates == <>(pc = "returned")

\* The loops implement the turns of DecQuotient, which is live.
KeepsPromise == Promise!Spec
=============================================================================
