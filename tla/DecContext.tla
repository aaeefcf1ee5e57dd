----------------------------- MODULE DecContext -----------------------------
(***************************************************************************)
(* A decContext and the calls that read and change it: decContext.c, and   *)
(* the DecContext class of DecContext.hh and DecContext.cc around it.      *)
(*                                                                         *)
(* Status and trap words are sets of bits.  With extended flags every flag *)
(* has its own bit; without (DECEXTFLAG=0) the IEEE flags share five bits  *)
(* and the informational ones have none.  raise(SIGFPE) is the variable    *)
(* "signal": the bits that raised it, until the handler has run.           *)
(***************************************************************************)
EXTENDS DecTypes

CONSTANTS DECEXTFLAG,    \* TRUE in the library's default build
          DecNumDigits,  \* digits the C++ constructor gives every context
          Words,         \* the status words, masks and trap words callers use
          Names,         \* the condition names they use
          Modes          \* the rounding modes they use

ASSUME ContextAssumption == /\ DECEXTFLAG \in BOOLEAN
                            /\ DecNumDigits \in Nat \ {0}
                            /\ Words \subseteq SUBSET DEC_Flags
                            /\ Modes \subseteq Roundings

VARIABLES ctx,       \* the decContext
          saved,     \* a status word a caller keeps (decContextSaveStatus)
          signal,    \* trapped bits the SIGFPE handler has to deal with
          snapshot   \* history: the flags selected by that save, and which were set

vars == <<ctx, saved, signal, snapshot>>

(***************************************************************************)
(* Flags as bits.                                                          *)
(***************************************************************************)
IEEEFlags == {"Division_by_zero", "Overflow", "Underflow", "Inexact"}

\* The bits of one flag.
Bits(flag) == IF DECEXTFLAG \/ flag \in IEEEFlags THEN {flag}
              ELSE IF flag \in DEC_NaNs THEN {"Invalid_operation"} ELSE {}

Word(flags) == UNION {Bits(f) : f \in flags}

\* The order in which decContextStatusToString tries the flags.
ToStringOrder == <<"Invalid_operation", "Division_by_zero", "Overflow",
  "Underflow", "Inexact", "Division_impossible", "Division_undefined",
  "Rounded", "Clamped", "Subnormal", "Conversion_syntax",
  "Insufficient_storage", "Invalid_context", "Lost_digits">>

\* (mutant) Any bit of the word will do.
AnyBitMatches(status) == {i \in 1 .. 14 : Bits(ToStringOrder[i]) \cap status # {}}

\* The comparisons of a status word that succeed.
Matches(status) == {i \in 1 .. 14 : Bits(ToStringOrder[i]) = status}

decContextStatusToString(status) ==
  LET hits == Matches(status)
      first == CHOOSE i \in hits : \A j \in hits : i <= j
  IN  CASE hits # {} -> ToStringOrder[first]
        [] hits = {} /\ status = {} -> "No status"
        [] OTHER -> "Multiple status"

(***************************************************************************)
(* Default contexts.                                                       *)
(***************************************************************************)
Kinds == {"BASE", "DECIMAL32", "DECIMAL64", "DECIMAL128"}

BaseContext == [digits |-> 9, emax |-> 999999999, emin |-> -999999999,
                round |-> "HALF_UP", traps |-> Word(DEC_Errors), status |-> {},
                clamp |-> FALSE, extended |-> FALSE]

\* Digits and largest exponent of the IEEE formats.
Formats == [DECIMAL32 |-> <<7, 96>>, DECIMAL64 |-> <<16, 384>>,
            DECIMAL128 |-> <<34, 6144>>]

IEEEContext(format) ==
  [digits |-> format[1], emax |-> format[2], emin |-> 1 - format[2],
   round |-> "HALF_EVEN", traps |-> {}, status |-> {}, clamp |-> TRUE,
   extended |-> TRUE]

DefaultContext(kind) == IF kind \in DOMAIN Formats THEN IEEEContext(Formats[kind])
                                                   ELSE BaseContext

\* The constructor of the class: no traps, and all the digits there are.
ConstructedContext(kind) == [DefaultContext(kind) EXCEPT !.traps = {},
                                                         !.digits = DecNumDigits]

Init == /\ \E kind \in Kinds : ctx = ConstructedContext(kind)
        /\ saved = {}
        /\ signal = {}
        /\ snapshot = [status |-> {}, mask |-> {}]

(***************************************************************************)
(* Status.  No call is made while a signal is being handled.               *)
(***************************************************************************)
\* (mutant) The traps are not consulted.
RaiseAll(new, raising) == ctx' = new /\ signal' = raising

\* `new' becomes the context, then the bits in it that trap raise SIGFPE.
Update(new, raising) == /\ ctx' = new
                        /\ signal' = raising \cap new.traps

Quietly(new) == /\ signal = {}
                /\ ctx' = new
                /\ UNCHANGED <<signal, saved, snapshot>>

decContextClearStatus(mask) == Quietly([ctx EXCEPT !.status = @ \ mask])

decContextZeroStatus == Quietly([ctx EXCEPT !.status = {}])

decContextSetStatusQuiet(word) == Quietly([ctx EXCEPT !.status = @ \cup word])

\* (mutant) The flags are or-ed back, and none is cleared.
RestoreBySetting(mask) == Quietly([ctx EXCEPT !.status = @ \cup (mask \cap saved)])

decContextRestoreStatus(mask) ==
  Quietly([ctx EXCEPT !.status = (@ \ mask) \cup (mask \cap saved)])

decContextSaveStatus(mask) ==
  /\ signal = {}
  /\ saved' = ctx.status \cap mask
  /\ snapshot' = [status |-> ctx.status \cap mask, mask |-> mask]
  /\ UNCHANGED <<ctx, signal>>

\* (mutant) The signal is raised before the status is recorded.
RaiseUnrecorded(word) == /\ signal = {}
                         /\ Update(ctx, word)
                         /\ UNCHANGED <<saved, snapshot>>

decContextSetStatus(word) ==
  /\ signal = {}
  /\ Update([ctx EXCEPT !.status = @ \cup word], word)
  /\ UNCHANGED <<saved, snapshot>>

\* (mutant) Every name is taken for that of a flag.
SetStatusFromAnyString(name) == decContextSetStatus(Bits(name))

\* A name that is no flag's ("No status", "Multiple status") sets nothing.
decContextSetStatusFromString(name) ==
  decContextSetStatus(IF name \in DEC_Flags THEN Bits(name) ELSE {})

decContextSetStatusFromStringQuiet(name) ==
  decContextSetStatusQuiet(IF name \in DEC_Flags THEN Bits(name) ELSE {})

(***************************************************************************)
(* Settings.                                                               *)
(***************************************************************************)
decContextSetRounding(round) == Quietly([ctx EXCEPT !.round = round])

\* An unknown kind gives the base context, with a trapping error.
decContextDefault(kind) ==
  LET new == DefaultContext(kind)
      bad == IF kind \in Kinds THEN {} ELSE Bits("Invalid_operation")
  IN  /\ signal = {}
      /\ Update([new EXCEPT !.status = bad], bad)
      /\ UNCHANGED <<saved, snapshot>>

\* The C++ setters assign their field.
setTraps(word) == Quietly([ctx EXCEPT !.traps = word])
setStatus(word) == Quietly([ctx EXCEPT !.status = word])

\* The handler returns, or jumps out of the call: its last action was to
\* set the status.
HandleSignal == /\ signal # {}
                /\ signal' = {}
                /\ UNCHANGED <<ctx, saved, snapshot>>

Next == \/ \E flags \in Words : LET word == Word(flags) IN
             \/ decContextClearStatus(word)
             \/ decContextSetStatusQuiet(word)
             \/ decContextRestoreStatus(word)
             \/ decContextSaveStatus(word)
             \/ decContextSetStatus(word)
             \/ setTraps(word)
             \/ setStatus(word)
        \/ \E name \in Names :
             \/ decContextSetStatusFromString(name)
             \/ decContextSetStatusFromStringQuiet(name)
        \/ \E round \in Modes : decContextSetRounding(round)
        \/ \E kind \in Kinds \cup {"unknown"} : decContextDefault(kind)
        \/ decContextZeroStatus
        \/ HandleSignal

Spec == Init /\ [][Next]_vars
-----------------------------------------------------------------------------
(***************************************************************************)
(* Properties.                                                             *)
(***************************************************************************)
\* Every field has its type, and the exponent range of every default context
\* lies around zero.
TypeOK == /\ ctx \in decContext
          /\ saved \in SUBSET DEC_Flags
          /\ signal \in SUBSET DEC_Flags
          /\ snapshot \in [status: SUBSET DEC_Flags, mask: SUBSET DEC_Flags]

\* The handler of a trap finds the flags that raised it already recorded
\* and enabled (setting status is the very last action of a call, so that a
\* handler that jumps out loses nothing).
SignalSeesStatus == signal \subseteq ctx.status \cap ctx.traps

\* Saving a group of flags and restoring it later brings back exactly that
\* group, however the flags were set, cleared or overwritten in between, and
\* leaves every flag outside the group as it is at the restore.
RestoreUndoes ==
  [][decContextRestoreStatus(snapshot.mask) =>
       /\ ctx'.status \cap snapshot.mask = snapshot.status
       /\ ctx'.status \ snapshot.mask = ctx.status \ snapshot.mask]_vars

\* The name of a status word with at most one bit, given back to
\* decContextSetStatusFromString on a cleared context, reproduces the word;
\* "Multiple status" names the others.
NamesRoundTrip ==
  LET name == decContextStatusToString(ctx.status)
  IN  IF Cardinality(ctx.status) > 1 THEN name = "Multiple status"
      ELSE IF name \in DEC_Flags THEN Bits(name) = ctx.status
                                 ELSE name = "No status" /\ ctx.status = {}
=============================================================================
