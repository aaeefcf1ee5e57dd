----------------------------- MODULE MCCalculator -----------------------------
(***************************************************************************)
(* Operands and contexts for the runs of DecCalculator.                    *)
(***************************************************************************)
EXTENDS DecCalculator

CONSTANTS Precision, Emax,             \* the settings of the contexts
          Wide,                        \* other precisions of theirs
          Rounds, Clamping,            \* their modes, and those of clamping ones
          SubsetRounds,                \* the modes of subset arithmetic
          Coefs, Exps                  \* the finite literals

Num(neg, coef, exp) == [neg |-> neg, kind |-> "fin", exp |-> exp, coef |-> coef,
                        digits |-> decGetDigits(coef, 10)]

Finites == {Num(neg, coef, exp) : neg \in BOOLEAN, coef \in Coefs, exp \in Exps}

Infinities == {Infinity(FALSE), Infinity(TRUE)}

\* A NaN without a payload, and payloads that fit and that do not (12345 is
\* cut in the middle of its second Unit when the precision is odd).
NaN(neg, signalling, payload) ==
  [Num(neg, payload, 0) EXCEPT !.kind = IF signalling THEN "snan" ELSE "nan"]
NaNs == {NaN(FALSE, FALSE, 0), NaN(TRUE, FALSE, 7), NaN(FALSE, TRUE, 12345),
         NaN(TRUE, FALSE, 12305)}

AllLiterals == Finites \cup Infinities \cup NaNs

\* Three Units, too.
LongLiterals == AllLiterals \cup {Num(neg, 10012, exp) : neg \in BOOLEAN, exp \in {-2, 0}}

Setting(round, clamp, extended) ==
  [digits |-> Precision, emax |-> Emax, emin |-> 1 - Emax, round |-> round,
   traps |-> {}, status |-> {}, clamp |-> clamp, extended |-> extended]
MCContexts == {Setting(round, FALSE, TRUE) : round \in Rounds}
                \cup {Setting(round, TRUE, TRUE) : round \in Clamping}
                \cup {Setting(round, FALSE, FALSE) : round \in SubsetRounds}
                \cup {[Setting(round, FALSE, TRUE) EXCEPT
                         !.digits = wide, !.emax = wide - 1, !.emin = 2 - wide] :
                        round \in Rounds, wide \in Wide}

NoWords == {}

\* A few numbers for longer sessions: a tie, zeros to trim before and after
\* the point, and a number whose square leaves the (scaled) integers of C.
SessionLiterals == {Num(TRUE, 15, -1), Num(FALSE, 10, -1), Num(FALSE, 1, 2),
                    Num(TRUE, 5, -6)}
SessionWords == {{"Conversion_syntax"}, {"Inexact", "Rounded"}}

\* Products, with addends that cancel them, or are lost beside them.
Factors == {Num(neg, coef, exp) : neg \in BOOLEAN, coef \in {0, 1, 15, 99}, exp \in {-2, 0}}
             \cup {Infinity(FALSE), NaN(TRUE, FALSE, 7), NaN(FALSE, TRUE, 12345)}
Addends == {Num(neg, coef, exp) : neg \in BOOLEAN, coef \in {0, 1, 225}, exp \in {-4, -1}}
             \cup Infinities \cup {NaN(TRUE, FALSE, 8), NaN(FALSE, TRUE, 12305)}
Triples == Factors \X Factors \X Addends
NoTriples == {}

\* Products of six digits of which three are kept, the others just below a tie,
\* with addends that do or do not carry into it.
LongTriples == {Num(FALSE, 501, 0)} \X {Num(FALSE, coef, 0) : coef \in {998, 999}}
                 \X {Num(neg, coef, exp) : neg \in BOOLEAN, coef \in {1, 11, 101, 999},
                                           exp \in -3 .. 0}

\* Operands of the elementary functions.  Roots: every tie, exact and inexact
\* ones, beyond the precision and the range.  Powers and exponentials: those
\* whose working digits the integers of TLC can hold.
Calls(op, ls, rs) == [op: {op}, l: ls, r: rs]
Specials == Infinities \cup NaNs
Radicands == {Num(neg, coef, exp) : neg \in BOOLEAN, exp \in -7 .. 3,
                coef \in {0, 1, 2, 4, 10, 16, 90, 99, 100, 400, 900, 1322, 9801, 11025}}
               \cup Specials
Bases == {Num(neg, coef, exp) : neg \in BOOLEAN, coef \in {0, 1, 3, 4, 10, 32, 45},
            exp \in -3 .. 1}
WideBases == {Num(neg, coef, exp) : neg \in BOOLEAN, coef \in {25, 99, 101, 995}, exp \in -3 .. 1}
SmallPowers == {Num(neg, coef, 0) : neg \in BOOLEAN, coef \in 0 .. 3}
OtherPowers == {Num(FALSE, 5, -1), Num(TRUE, 10, -1)} \cup Specials
Logarithms == {Num(neg, coef, exp) : neg \in BOOLEAN, coef \in {0, 1, 2, 10, 100},
                 exp \in {-9, -3, 0, 2, 9}} \cup Specials
Exponents == {Num(neg, coef, -2) : neg \in BOOLEAN, coef \in 0 .. 99}
               \cup {Num(neg, coef, -3) : neg \in BOOLEAN, coef \in {4, 5, 39, 40, 41}}
               \cup {Num(neg, 1, 8) : neg \in BOOLEAN} \cup Specials
ElementaryCalls == Calls("SquareRoot", Radicands, {decNumberZero})
                     \cup Calls("Power", Bases, SmallPowers \cup OtherPowers)
                     \cup Calls("Power", WideBases, {Num(neg, 1, 0) : neg \in BOOLEAN})
                     \cup Calls("Power", Specials, SmallPowers \cup OtherPowers)
                     \cup Calls("Exp", Exponents, {decNumberZero})
                     \cup Calls("Ln", Logarithms, {decNumberZero})
                     \cup Calls("Log10", Logarithms, {decNumberZero})
NoCalls == {}

\* Exponents around the range -2 .. 1 of a context with Precision = Emax = 2,
\* with a gap wider than the precision.
WideExps == {-4, -2, -1, 0, 1, 2}
SomeExps == {-3, -2, 0, 2}

\* Every digit pattern near a tie, a carry or a borrow.
ManyCoefs == (0 .. 12) \cup (44 .. 56) \cup (94 .. 106) \cup (994 .. 1001)
               \cup {100050, 100051}
ManyNumbers == {Num(neg, coef, exp) : neg \in BOOLEAN, coef \in ManyCoefs, exp \in -6 .. 3}
                 \cup AllLiterals
=============================================================================
