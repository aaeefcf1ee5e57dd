---------------------------- MODULE MCLongDivision ----------------------------
(***************************************************************************)
(* The divisions of the run LongDivision.                                  *)
(***************************************************************************)
EXTENDS DecLongDivision

CONSTANTS Dividends, Divisors, Precisions

\* The exponents of the dividend, against 0 of the divisor.
Scales == -3 .. 5

MCDivisions ==
  {[op |-> op, lhs |-> lhs, lexp |-> lexp, rhs |-> rhs, rexp |-> 0, digits |-> digits] :
     op \in Promise!Operations, lhs \in Dividends, rhs \in Divisors, lexp \in Scales,
     digits \in Precisions}
=============================================================================
