------------------------------- MODULE MCFloat -------------------------------
(***************************************************************************)
(* Operands for the runs of DecFloatCalculator.                            *)
(***************************************************************************)
EXTENDS DecFloatCalculator

CONSTANTS Coefs, Exps    \* the finite literals

Finites == {Datum(neg, "fin", coef, exp) : neg \in BOOLEAN, coef \in Coefs, exp \in Exps}

\* Infinities and NaNs, some with digits or bits that count for nothing.
Specials == {InfinityDatum(FALSE), [InfinityDatum(TRUE) EXCEPT !.canonical = FALSE],
             NaNDatum, Datum(TRUE, "nan", 7, 0), Datum(FALSE, "snan", 9, 0),
             [Datum(TRUE, "snan", 0, 0) EXCEPT !.canonical = FALSE]}

\* Numbers that another encoding has too (declets of 8s and 9s).
Redundant == {[Datum(neg, "fin", 98, 0) EXCEPT !.canonical = FALSE] : neg \in BOOLEAN}

AllLiterals == Finites \cup Specials \cup Redundant

\* Products, with addends that cancel them, or are lost beside them.
Factor == {df \in Finites : df.coef \in {0, 1, 50, 99} /\ df.exp \in {DECQTINY + 1, -1}}
            \cup {df \in Specials : df.canonical}
Addend == {df \in Finites : df.exp \in {DECQTINY, -1, DECQMAX} /\ df.coef \in {0, 1, 95, 99}}
            \cup {InfinityDatum(FALSE), Datum(TRUE, "nan", 7, 0), Datum(FALSE, "snan", 9, 0)}
FusedTriples == Factor \X Factor \X Addend

\* Numbers of a wider format: longer, and beyond both ends of the exponents.
WiderNumbers == {Datum(neg, "fin", coef, exp) :
                   neg \in BOOLEAN, exp \in -8 .. 5,
                   coef \in {0, 1, 99, 500, 505, 949, 950, 9949, 9950, 9951, 100500, 999501}}
                  \cup {Datum(TRUE, "nan", 12345, 0), Datum(FALSE, "snan", 7, 0),
                        [InfinityDatum(TRUE) EXCEPT !.canonical = FALSE]}

\* Exponents up to both ends, of a format with DECPMAX = 2 and DECEMAX = 3.
SomeExps == {-3, -2, -1, 0, 2}
=============================================================================
