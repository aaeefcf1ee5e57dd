------------------------------ MODULE DecPowers ------------------------------
(***************************************************************************)
(* The powers of a base, as a recursive function: the digits and Units of  *)
(* a number are counted and shifted with them, and, unlike those of        *)
(* Integers, they can be reasoned about (DecPowersProofs).                 *)
(***************************************************************************)
EXTENDS Integers

\* b to the n.
Power(b, n) == LET p[i \in Nat] == IF i = 0 THEN 1 ELSE b * p[i - 1] IN p[n]

\* The powers of ten.
TenTo[n \in Nat] == IF n = 0 THEN 1 ELSE 10 * TenTo[n - 1]

\* How many digits x has in that base.
Places(x, base) ==
  LET places[y \in Nat] == IF y < base THEN 1 ELSE 1 + places[y \div base] IN places[x]
=============================================================================
