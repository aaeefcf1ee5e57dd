----------------------------- MODULE DecQuotient -----------------------------
(***************************************************************************)
(* What a long division promises, whoever carries it out: the quotient of  *)
(* two coefficients, cut at an exponent that falls by one Unit per turn    *)
(* until there are enough digits.  (The digits have a Radix of 10; a small *)
(* one keeps the numbers of a check small.)                                *)
(***************************************************************************)
EXTENDS DecPowers

CONSTANTS Radix,      \* even, as the parity of a Unit is taken for its value's
          DECDPUN     \* digits in a Unit

VARIABLES division,   \* the operands, the operation and the digits wanted
          quotient,   \* what has been found so far
          exponent,   \* of its last digit
          over

vars == <<division, quotient, exponent, over>>

Operations == {"Divide", "DivideInteger", "Remainder", "RemainderNear"}
Remains(op) == op \in {"Remainder", "RemainderNear"}

\* lhs / rhs cut at the exponent e.
Scaled(d, e) == LET s == d.lexp - d.rexp - e
                IN  [num |-> d.lhs * Power(Radix, IF s > 0 THEN s ELSE 0),
                     den |-> d.rhs * Power(Radix, IF s < 0 THEN -s ELSE 0)]
CutAt(d, e) == Scaled(d, e).num \div Scaled(d, e).den
ExactAt(d, e) == Scaled(d, e).num % Scaled(d, e).den = 0

\* More digits than wanted; an exact quotient that needs no more zeros; or the
\* units of an integer.
Enough(d, e) ==
  \/ CutAt(d, e) >= Power(Radix, d.digits)
  \/ ExactAt(d, e) /\ (Remains(d.op) \/ (d.op = "Divide" /\ e <= d.lexp - d.rexp))
  \/ e = 0 /\ d.op # "Divide"

\* It starts where there is no digit yet; the Units of an integer quotient end
\* at its units digit.
Init == /\ quotient = 0
        /\ CutAt(division, exponent) = 0
        /\ division.op # "Divide" => exponent > 0 /\ exponent % DECDPUN = 0
        /\ over = FALSE

Turn == /\ ~over
        /\ exponent' = exponent - DECDPUN
        /\ quotient' = CutAt(division, exponent')
        /\ over' = Enough(division, exponent')
        /\ UNCHANGED division

Spec == Init /\ [][Turn]_vars /\ WF_vars(Turn)
=============================================================================
