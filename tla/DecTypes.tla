------------------------------ MODULE DecTypes ------------------------------
(***************************************************************************)
(* The data of the decNumber library: status flags, contexts and numbers   *)
(* (decContext.h, decNumber.h, decNumberLocal.h).                          *)
(*                                                                         *)
(* A status word is the set of the names of its bits.  A decNumber keeps   *)
(* the fields of the C structure; its Unit array is abstracted to the      *)
(* integer it holds ("coef"), while "digits" stays explicit because the    *)
(* intermediate results of the library carry leading zeros.                *)
(***************************************************************************)
EXTENDS DecPowers, FiniteSets

CONSTANT DECDPUN    \* digits in one Unit of a coefficient (2 in this build)

ASSUME UnitAssumption == DECDPUN \in 1 .. 9

(***************************************************************************)
(* Status flags and their groups (extended flags, DECSUBSET=1).            *)
(***************************************************************************)
\* Flags which cause a result to become a quiet NaN.
DEC_NaNs == {"Conversion_syntax", "Division_impossible", "Division_undefined",
             "Insufficient_storage", "Invalid_context", "Invalid_operation"}

\* Flags which are errors: the result is a NaN, infinite, or (under)flowed.
DEC_Errors == DEC_NaNs \cup {"Division_by_zero", "Overflow", "Underflow"}

DEC_Flags == DEC_Errors \cup
             {"Inexact", "Lost_digits", "Clamped", "Rounded", "Subnormal"}

\* The accumulator of one operation may also hold the private bit DEC_sNaN.
Accumulators == SUBSET (DEC_Flags \cup {"sNaN"})

\* The flags of an operation that does not fail tell one story: an overflow
\* or an underflow is inexact, an inexact result is rounded, an underflow is
\* subnormal, and digits are lost only to rounding.
OneStory(status) ==
  status \cap DEC_NaNs = {} =>
    /\ "Overflow" \in status => "Inexact" \in status
    /\ "Underflow" \in status => {"Inexact", "Subnormal"} \subseteq status
    /\ "Inexact" \in status => "Rounded" \in status
    /\ "Lost_digits" \in status => "Inexact" \in status

Roundings == {"CEILING", "UP", "HALF_UP", "HALF_EVEN", "HALF_DOWN", "DOWN",
              "FLOOR", "05UP"}

(***************************************************************************)
(* Numbers.                                                                *)
(***************************************************************************)
Number == [neg: BOOLEAN, kind: {"fin", "inf", "nan", "snan"},
           digits: Nat \ {0}, coef: Nat, exp: Int]

decNumberZero == [neg |-> FALSE, kind |-> "fin", digits |-> 1, coef |-> 0,
                  exp |-> 0]

IsNaN(n) == n.kind \in {"nan", "snan"}
IsSpecial(n) == n.kind # "fin"

\* The macro looks at one digit: a zero with leading zeros does not pass it.
ISZERO(n) == n.kind = "fin" /\ n.digits = 1 /\ n.coef = 0

\* decGetDigits: the significant digits among the len lowest ones.
decGetDigits(coef, len) ==
  LET places == Places(coef, 10) IN IF places < len THEN places ELSE len

(***************************************************************************)
(* Contexts.  The exponent range of every context lies around zero.        *)
(***************************************************************************)
decContext == [digits: Nat \ {0}, emax: Nat, emin: {e \in Int : e <= 0},
               round: Roundings, traps: SUBSET DEC_Flags,
               status: SUBSET DEC_Flags, clamp: BOOLEAN, extended: BOOLEAN]

\* Lowest exponent of a subnormal, and highest exponent of a full-length
\* coefficient.
Etiny(set) == set.emin - (set.digits - 1)
Etop(set) == set.emax - set.digits + 1
=============================================================================
