------------------------------ MODULE MCExchange ------------------------------
(***************************************************************************)
(* Numbers, strings, words and contexts for the runs of DecExchange.       *)
(***************************************************************************)
EXTENDS DecExchange

CONSTANTS Coefs, Exps,           \* the finite numbers
          LongCoefs,             \* more digits than a format or context has
          Zeros, Points, EParts  \* how numbers are spelled in strings

Numbers == {NumberOf(neg, "fin", coef, exp) : neg \in BOOLEAN, coef \in Coefs, exp \in Exps}
             \cup {NumberOf(TRUE, "inf", 0, 0), NumberOf(FALSE, "nan", 0, 0),
                   NumberOf(TRUE, "nan", 123, 0), NumberOf(FALSE, "nan", 1234, 0),
                   NumberOf(FALSE, "snan", 7, 0), NumberOf(TRUE, "snan", 12345, 0)}

\* A string with so many leading zeros, of which some may be behind the point.
Spelling(neg, coef, zeros, places, exp, dot) ==
  [neg |-> neg, kind |-> "fin", digits |-> CountDigits(coef) + zeros, coef |-> coef,
   places |-> places, dot |-> dot, exp |-> exp]

Special(kind, payload) ==
  [neg |-> TRUE, kind |-> kind, digits |-> IF payload = 0 THEN 0 ELSE CountDigits(payload),
   coef |-> payload, places |-> 0, dot |-> FALSE, exp |-> 0]

Strings == {s \in {Spelling(neg, coef, zeros, places, exp, dot) :
                     neg \in BOOLEAN, coef \in Coefs \cup LongCoefs, zeros \in Zeros, places \in Points,
                     exp \in EParts, dot \in BOOLEAN} :
              s.digits <= 9 /\ s.places <= s.digits /\ (s.dot => s.places = 0)}
             \cup {Special("inf", 0), Special("bad", 0), Special("nan", 0),
                   Special("snan", 0)}
             \cup {Special(kind, payload) : kind \in {"nan", "snan"},
                                            payload \in {7, 123, 1000, 12345}}

\* Declets: canonical ones, two that stand for 888 and 999 too, and 0.
MCWords == [neg: {TRUE}, comb: {0, 2, 7, 12, 21, 24, 29, 30, 31}, econ: {0, 3, 4, 7},
          declets: [0 .. DECLETS - 1 -> {0, 1, 110, 255, 366, 511, 1023}]]

\* Packed decimals, some with a nibble that is no digit or a scale too large.
Packeds == [length: {3}, coef: {0, 7, 1234}, spoilt: BOOLEAN, sign: {5, 10, 11, 12, 13},
            scale: {-DECNUMMAXE - 1, -DECNUMMAXE, -DECNUMMAXE + 2, -1, 0, 2,
                    DECNUMMAXE + 1, DECNUMMAXE + 3, DECNUMMAXE + 4}]

AllStarts == {Form("number", n) : n \in Numbers} \cup {Form("string", s) : s \in Strings}
               \cup {Form("word", w) : w \in MCWords}
               \cup {Form("packed", p) : p \in Packeds}
NumberStarts == {Form("number", n) : n \in Numbers}

\* A precision with room for the coefficients, one without, and subset arithmetic.
MCContexts ==
  {[digits |-> 6, emax |-> 7, emin |-> -6, round |-> "UP", traps |-> {}, status |-> {},
    clamp |-> FALSE, extended |-> TRUE]}
    \cup {[digits |-> 3, emax |-> 4, emin |-> -3, round |-> "HALF_EVEN", traps |-> {},
           status |-> {}, clamp |-> extended, extended |-> extended] : extended \in BOOLEAN}

\* One and two Units, each with the top one full or half full, and three Units.
SomeArrays == {BCD(1, 7), BCD(2, 10), BCD(3, 789), BCD(4, 1005), BCD(5, 78912)}

SomeExps == {-17, -15, -12, -4, 0, 3, 9, 11}
SomeEParts == {-999, -17, -12, -8, -1, 0, 3, 9, 12, 15, 999}
=============================================================================
