--------------------------- MODULE DecContextProofs ---------------------------
(***************************************************************************)
(* Proofs of the properties of DecContext, for every set of words, names   *)
(* and modes, and for both settings of DECEXTFLAG.                         *)
(***************************************************************************)
EXTENDS DecContext, DecPowersProofs, FiniteSetTheorems, Sequences

\* A set of flags as bits is a set of flags.
LEMMA WordIsFlags == ASSUME NEW flags, flags \subseteq DEC_Flags
                     PROVE  Word(flags) \subseteq DEC_Flags
<1>1. ASSUME NEW f \in DEC_Flags PROVE Bits(f) \subseteq DEC_Flags
  <2>1. CASE DECEXTFLAG \/ f \in IEEEFlags
    BY <1>1, <2>1 DEF Bits
  <2>2. CASE ~(DECEXTFLAG \/ f \in IEEEFlags) /\ f \in DEC_NaNs
    <3>1. Bits(f) = {"Invalid_operation"}
      BY <2>2 DEF Bits
    <3> QED BY <3>1 DEF DEC_Flags, DEC_Errors, DEC_NaNs
  <2>3. CASE ~(DECEXTFLAG \/ f \in IEEEFlags) /\ f \notin DEC_NaNs
    BY <2>3 DEF Bits
  <2> QED BY <2>1, <2>2, <2>3
<1> QED BY <1>1 DEF Word

LEMMA BitsOfName == ASSUME NEW name
                    PROVE  (IF name \in DEC_Flags THEN Bits(name) ELSE {})
                             \subseteq DEC_Flags
<1>1. CASE name \in DEC_Flags
  <2>1. Word({name}) = Bits(name)
    BY DEF Word
  <2> QED BY <1>1, <2>1, WordIsFlags
<1> QED BY <1>1

\* The contexts of decContextDefault, with the traps of the C call.
LEMMA DefaultType ==
  ASSUME NEW kind
  PROVE  DefaultContext(kind) \in decContext
<1>1. Word(DEC_Errors) \subseteq DEC_Flags
  BY WordIsFlags DEF DEC_Flags
<1>2. "HALF_UP" \in Roundings /\ "HALF_EVEN" \in Roundings
  BY DEF Roundings
<1>3. BaseContext.traps = Word(DEC_Errors) /\ BaseContext.status = {}
  BY SMT DEF BaseContext
<1>4. ASSUME kind \in DOMAIN Formats
      PROVE  Formats[kind][1] \in Nat \ {0} /\ Formats[kind][2] \in Nat \ {0}
  BY <1>4, SMT DEF Formats
<1>5. CASE kind \in DOMAIN Formats
  <2>1. 1 - Formats[kind][2] \in {e \in Int : e <= 0}
    BY <1>4, <1>5, SMT
  <2> QED BY <1>2, <1>4, <1>5, <2>1, SMT
      DEF DefaultContext, IEEEContext, decContext
<1>6. CASE kind \notin DOMAIN Formats
  BY <1>1, <1>2, <1>6, SMT DEF DefaultContext, BaseContext, decContext
<1> QED BY <1>5, <1>6
-----------------------------------------------------------------------------
\* The invariant of a context: its types, and that the handler of a trap
\* finds the flags that raised it recorded and enabled.
Inv == TypeOK /\ SignalSeesStatus

LEMMA InitInv == Init => Inv
<1> SUFFICES ASSUME Init PROVE Inv
  OBVIOUS
<1>1. PICK kind \in Kinds : ctx = ConstructedContext(kind)
  BY DEF Init
<1>2. DecNumDigits \in Nat \ {0}
  BY ContextAssumption
<1>3. TypeOK
  BY <1>1, <1>2, DefaultType DEF Init, TypeOK, ConstructedContext, decContext
<1>4. SignalSeesStatus
  BY DEF Init, SignalSeesStatus
<1> QED BY <1>3, <1>4 DEF Inv

\* Each call keeps the invariant.
LEMMA QuietInv == ASSUME NEW new \in decContext, Quietly(new), Inv
                  PROVE  Inv'
BY DEF Quietly, Inv, TypeOK, decContext, SignalSeesStatus

LEMMA UpdateInv == ASSUME NEW new \in decContext, NEW raising, Inv,
                          Update(new, raising), UNCHANGED <<saved, snapshot>>,
                          raising \subseteq new.status
                   PROVE  Inv'
<1>1. ctx' = new /\ signal' \subseteq new.status \cap new.traps
  BY DEF Update
<1>2. signal' \subseteq DEC_Flags
  BY <1>1 DEF decContext
<1> QED BY <1>1, <1>2 DEF Inv, TypeOK, decContext, SignalSeesStatus

LEMMA SetStatusInv == ASSUME Inv, NEW word, word \subseteq DEC_Flags,
                             decContextSetStatus(word)
                      PROVE  Inv'
<1>1. PICK new : new = [ctx EXCEPT !.status = @ \cup word]
  OBVIOUS
<1>2. Update(new, word) /\ UNCHANGED <<saved, snapshot>>
  BY <1>1 DEF decContextSetStatus
<1>3. new.status = ctx.status \cup word
  BY <1>1 DEF Inv, TypeOK, decContext
<1> QED BY <1>1, <1>2, <1>3, UpdateInv DEF Inv, TypeOK, decContext

LEMMA SetStatusQuietInv == ASSUME Inv, NEW word, word \subseteq DEC_Flags,
                                  decContextSetStatusQuiet(word)
                           PROVE  Inv'
BY QuietInv DEF decContextSetStatusQuiet, Inv, TypeOK, decContext

LEMMA StepInv == Inv /\ [Next]_vars => Inv'
<1> SUFFICES ASSUME Inv, [Next]_vars PROVE Inv'
  OBVIOUS
<1>1. ASSUME NEW flags \in Words,
             decContextClearStatus(Word(flags))
      PROVE  Inv'
  BY <1>1, QuietInv DEF decContextClearStatus, Inv, TypeOK, decContext
<1>2. ASSUME NEW flags \in Words, decContextSetStatusQuiet(Word(flags))
      PROVE  Inv'
  BY <1>2, WordIsFlags, ContextAssumption, SetStatusQuietInv
<1>3. ASSUME NEW flags \in Words, decContextRestoreStatus(Word(flags))
      PROVE  Inv'
  BY <1>3, QuietInv DEF decContextRestoreStatus, Inv, TypeOK, decContext
<1>4. ASSUME NEW flags \in Words, decContextSaveStatus(Word(flags))
      PROVE  Inv'
  <2>1. Word(flags) \subseteq DEC_Flags
    BY WordIsFlags, ContextAssumption
  <2> QED BY <1>4, <2>1 DEF decContextSaveStatus, Inv, TypeOK, decContext, SignalSeesStatus
<1>5. ASSUME NEW flags \in Words, decContextSetStatus(Word(flags))
      PROVE  Inv'
  BY <1>5, WordIsFlags, ContextAssumption, SetStatusInv
<1>6. ASSUME NEW flags \in Words,
             setTraps(Word(flags)) \/ setStatus(Word(flags))
      PROVE  Inv'
  <2>1. Word(flags) \subseteq DEC_Flags
    BY WordIsFlags, ContextAssumption
  <2> QED BY <1>6, <2>1, QuietInv DEF setTraps, setStatus, Inv, TypeOK, decContext
<1>7. ASSUME NEW name \in Names,
             \/ decContextSetStatusFromString(name)
             \/ decContextSetStatusFromStringQuiet(name)
      PROVE  Inv'
  BY <1>7, BitsOfName, SetStatusInv, SetStatusQuietInv
     DEF decContextSetStatusFromString, decContextSetStatusFromStringQuiet
<1>8. ASSUME NEW round \in Modes, decContextSetRounding(round)
      PROVE  Inv'
  BY <1>8, ContextAssumption, QuietInv DEF decContextSetRounding, Inv, TypeOK, decContext
<1>9. ASSUME NEW kind, decContextDefault(kind)
      PROVE  Inv'
  <2>1. PICK bad : bad = IF kind \in Kinds THEN {} ELSE Bits("Invalid_operation")
    OBVIOUS
  <2>2. PICK new : new = [DefaultContext(kind) EXCEPT !.status = bad]
    OBVIOUS
  <2>3. bad \subseteq DEC_Flags
    BY <2>1 DEF Bits, DEC_Flags, DEC_Errors, DEC_NaNs
  <2>4. /\ new \in decContext
        /\ new.status = bad
    BY <2>2, <2>3, DefaultType DEF decContext
  <2>5. Update(new, bad) /\ UNCHANGED <<saved, snapshot>>
    BY <1>9, <2>1, <2>2 DEF decContextDefault
  <2> QED BY <2>4, <2>5, UpdateInv
<1>10. CASE decContextZeroStatus
  BY <1>10, QuietInv DEF decContextZeroStatus, Inv, TypeOK, decContext
<1>11. CASE HandleSignal
  BY <1>11 DEF HandleSignal, Inv, TypeOK, decContext, SignalSeesStatus
<1>12. CASE UNCHANGED vars
  BY <1>12 DEF vars, Inv, TypeOK, decContext, SignalSeesStatus
<1> QED BY <1>1, <1>2, <1>3, <1>4, <1>5, <1>6, <1>7, <1>8, <1>9, <1>10, <1>11,
           <1>12 DEF Next

\* The fields of a context keep their types, whatever calls are made: every
\* status and trap word consists of flags, the precision is positive.
THEOREM ContextTypeOK == Spec => []TypeOK
<1>1. Inv => TypeOK
  BY DEF Inv
<1> QED BY <1>1, InitInv, StepInv, PTL DEF Spec

\* A trap handler finds the flags that raised it recorded in the context and
\* enabled in its traps (decContextSetStatus records before it raises).
THEOREM ContextSignalSeesStatus == Spec => []SignalSeesStatus
<1>1. Inv => SignalSeesStatus
  BY DEF Inv
<1> QED BY <1>1, InitInv, StepInv, PTL DEF Spec
-----------------------------------------------------------------------------
\* What a caller saved is the part of its mask that was set at the time: the
\* strengthening that makes RestoreUndoes provable.
SavedInv == saved = snapshot.status /\ snapshot.status \subseteq snapshot.mask

LEMMA SavedStep == SavedInv /\ [Next]_vars => SavedInv'
<1> SUFFICES ASSUME SavedInv, [Next]_vars PROVE SavedInv'
  OBVIOUS
<1>1. ASSUME NEW word, decContextSaveStatus(word) PROVE SavedInv'
  BY <1>1 DEF decContextSaveStatus, SavedInv
<1>2. CASE UNCHANGED <<saved, snapshot>>
  BY <1>2 DEF SavedInv
<1>3. ASSUME NEW flags \in Words,
             \/ decContextClearStatus(Word(flags))
             \/ decContextSetStatusQuiet(Word(flags))
             \/ decContextRestoreStatus(Word(flags))
             \/ decContextSetStatus(Word(flags))
             \/ setTraps(Word(flags))
             \/ setStatus(Word(flags))
      PROVE  UNCHANGED <<saved, snapshot>>
  BY <1>3 DEF decContextClearStatus, decContextSetStatusQuiet,
       decContextRestoreStatus, decContextSetStatus, setTraps, setStatus, Quietly
<1>4. ASSUME NEW name \in Names,
             \/ decContextSetStatusFromString(name)
             \/ decContextSetStatusFromStringQuiet(name)
      PROVE  UNCHANGED <<saved, snapshot>>
  BY <1>4 DEF decContextSetStatusFromString, decContextSetStatusFromStringQuiet,
       decContextSetStatus, decContextSetStatusQuiet, Quietly
<1>5. ASSUME \/ \E round \in Modes : decContextSetRounding(round)
             \/ \E kind \in Kinds \cup {"unknown"} : decContextDefault(kind)
             \/ decContextZeroStatus
             \/ HandleSignal
             \/ UNCHANGED vars
      PROVE  UNCHANGED <<saved, snapshot>>
  BY <1>5 DEF decContextSetRounding, decContextDefault, decContextZeroStatus,
       HandleSignal, Quietly, vars
<1> QED BY <1>1, <1>2, <1>3, <1>4, <1>5 DEF Next

\* Restoring the flags that were saved brings back exactly these, whatever
\* happened to them in between, and touches no other flag.
THEOREM ContextRestoreUndoes == Spec => RestoreUndoes
<1>1. Init => SavedInv
  BY DEF Init, SavedInv
<1>2. ASSUME Inv, SavedInv, [Next]_vars
      PROVE  [decContextRestoreStatus(snapshot.mask) =>
                /\ ctx'.status \cap snapshot.mask = snapshot.status
                /\ ctx'.status \ snapshot.mask = ctx.status \ snapshot.mask]_vars
  <2> SUFFICES ASSUME decContextRestoreStatus(snapshot.mask)
               PROVE  /\ ctx'.status \cap snapshot.mask = snapshot.status
                      /\ ctx'.status \ snapshot.mask = ctx.status \ snapshot.mask
    OBVIOUS
  <2>1. ctx'.status = (ctx.status \ snapshot.mask) \cup (snapshot.mask \cap saved)
    BY DEF decContextRestoreStatus, Quietly, Inv, TypeOK, decContext
  <2> QED BY <1>2, <2>1 DEF SavedInv
<1> QED BY <1>1, <1>2, InitInv, StepInv, SavedStep, PTL DEF Spec, RestoreUndoes
-----------------------------------------------------------------------------
\* The names in the order they are tried are those of the flags.
LEMMA NamesOfFlags ==
  /\ \A i \in 1 .. 14 : ToStringOrder[i] \in DEC_Flags
  /\ \A f \in DEC_Flags : \E i \in 1 .. 14 : ToStringOrder[i] = f
  /\ "No status" \notin DEC_Flags /\ "Multiple status" \notin DEC_Flags
<1>1. /\ ToStringOrder[1] = "Invalid_operation" /\ ToStringOrder[2] = "Division_by_zero"
      /\ ToStringOrder[3] = "Overflow" /\ ToStringOrder[4] = "Underflow"
      /\ ToStringOrder[5] = "Inexact" /\ ToStringOrder[6] = "Division_impossible"
      /\ ToStringOrder[7] = "Division_undefined" /\ ToStringOrder[8] = "Rounded"
      /\ ToStringOrder[9] = "Clamped" /\ ToStringOrder[10] = "Subnormal"
      /\ ToStringOrder[11] = "Conversion_syntax" /\ ToStringOrder[12] = "Insufficient_storage"
      /\ ToStringOrder[13] = "Invalid_context" /\ ToStringOrder[14] = "Lost_digits"
  BY DEF ToStringOrder
<1>2. \A i \in 1 .. 14 : i \in {1, 2, 3, 4, 5, 6, 7, 8, 9, 10, 11, 12, 13, 14}
  OBVIOUS
<1>3. \A i \in 1 .. 14 : ToStringOrder[i] \in DEC_Flags
  BY <1>1, <1>2 DEF DEC_Flags, DEC_Errors, DEC_NaNs
<1>4. \A f \in DEC_Flags : \E i \in 1 .. 14 : ToStringOrder[i] = f
  BY <1>1 DEF DEC_Flags, DEC_Errors, DEC_NaNs
<1>5. "No status" \notin DEC_Flags /\ "Multiple status" \notin DEC_Flags
  BY DEF DEC_Flags, DEC_Errors, DEC_NaNs
<1> QED BY <1>3, <1>4, <1>5

LEMMA FlagsFinite == IsFiniteSet(DEC_Flags)
<1>1. ToStringOrder \in Seq(DEC_Flags) /\ Len(ToStringOrder) = 14
  BY DEF ToStringOrder, DEC_Flags, DEC_Errors, DEC_NaNs
<1> QED BY <1>1, NamesOfFlags DEF IsFiniteSet

\* A flag stands for one bit or for none.
LEMMA OneBit ==
  ASSUME NEW f PROVE Bits(f) = {} \/ \E x : Bits(f) = {x}
BY DEF Bits

\* Every bit of a word is that of a name.
LEMMA BitHasName ==
  ASSUME NEW x \in Word(DEC_Flags)
  PROVE  \E i \in 1 .. 14 : Bits(ToStringOrder[i]) = {x}
<1>1. PICK f \in DEC_Flags : x \in Bits(f)
  BY DEF Word
<1>2. Bits(f) = {x}
  BY <1>1, OneBit
<1> QED BY <1>1, <1>2, NamesOfFlags

\* The name of a status word leads back to it.
LEMMA NameIs ==
  ASSUME NEW status, status \subseteq Word(DEC_Flags)
  PROVE  LET name == decContextStatusToString(status)
         IN  IF Cardinality(status) > 1 THEN name = "Multiple status"
             ELSE IF name \in DEC_Flags THEN Bits(name) = status
                                        ELSE name = "No status" /\ status = {}
<1> DEFINE hits == Matches(status)
           first == CHOOSE i \in hits : \A j \in hits : i <= j
           name == decContextStatusToString(status)
           one == Cardinality(status) > 1
<1>1. hits = {i \in 1 .. 14 : Bits(ToStringOrder[i]) = status}
  BY DEF Matches
<1>2. name = CASE hits # {} -> ToStringOrder[first]
               [] hits = {} /\ status = {} -> "No status"
               [] OTHER -> "Multiple status"
  BY DEF decContextStatusToString
<1> SUFFICES IF one THEN name = "Multiple status"
             ELSE IF name \in DEC_Flags THEN Bits(name) = status
                                        ELSE name = "No status" /\ status = {}
  OBVIOUS
<1>3. hits # {} => first \in hits
  <2>1. hits \subseteq Nat
    BY <1>1
  <2> HIDE DEF hits
  <2> QED BY <2>1, LeastMember
<1> HIDE DEF hits, first, name
<1>4. hits # {} => (status = {} \/ \E x : status = {x})
  BY <1>1, OneBit
<1>5. IsFiniteSet(status) /\ Cardinality(status) \in Nat
  <2>1. status \subseteq DEC_Flags
    BY WordIsFlags
  <2> QED BY <2>1, FlagsFinite, FS_Subset, FS_CardinalityType
<1>6. /\ status = {} => ~one
      /\ (\E x : status = {x}) => ~one
      /\ ~one => status = {} \/ \E x : status = {x}
  <2>1. status = {} => Cardinality(status) = 0
    BY FS_EmptySet
  <2>2. (\E x : status = {x}) => Cardinality(status) = 1
    BY FS_Singleton
  <2>3. ~one => Cardinality(status) = 0 \/ Cardinality(status) = 1
    BY <1>5
  <2>4. Cardinality(status) = 0 => status = {}
    BY <1>5, FS_EmptySet
  <2>5. Cardinality(status) = 1 => \E x : status = {x}
    BY <1>5, FS_Singleton
  <2> QED BY <2>1, <2>2, <2>3, <2>4, <2>5
<1> HIDE DEF one
<1>7. (\E x : status = {x}) => hits # {}
  <2> SUFFICES ASSUME NEW x, status = {x} PROVE hits # {}
    OBVIOUS
  <2>1. x \in Word(DEC_Flags)
    OBVIOUS
  <2> QED BY <1>1, <2>1, BitHasName
<1>8. CASE hits # {}
  <2>1. name = ToStringOrder[first] /\ first \in 1 .. 14 /\ Bits(name) = status
    BY <1>1, <1>2, <1>3, <1>8
  <2>2. name \in DEC_Flags
    BY <2>1, NamesOfFlags
  <2> QED BY <1>4, <1>6, <1>8, <2>1, <2>2
<1>9. CASE hits = {} /\ status = {}
  <2>1. name = "No status" /\ ~one
    BY <1>2, <1>6, <1>9
  <2> QED BY <1>9, <2>1, NamesOfFlags
<1>10. CASE hits = {} /\ status # {}
  <2>1. name = "Multiple status"
    BY <1>2, <1>10
  <2>2. one
    BY <1>6, <1>7, <1>10
  <2> QED BY <2>1, <2>2
<1> QED BY <1>8, <1>9, <1>10

\* Whatever is called, status and what was saved of it consist of bits that
\* flags stand for: with DECEXTFLAG=0 there are only five of them.
BitsInv == ctx.status \subseteq Word(DEC_Flags) /\ saved \subseteq Word(DEC_Flags)

LEMMA WordOfSome == ASSUME NEW flags, flags \subseteq DEC_Flags
                    PROVE  Word(flags) \subseteq Word(DEC_Flags)
BY DEF Word

LEMMA BitsOfNameBits == ASSUME NEW name
                        PROVE  (IF name \in DEC_Flags THEN Bits(name) ELSE {})
                                 \subseteq Word(DEC_Flags)
BY DEF Word

LEMMA BitsStep == Inv /\ BitsInv /\ [Next]_vars => BitsInv'
<1> SUFFICES ASSUME Inv, BitsInv, [Next]_vars PROVE BitsInv'
  OBVIOUS
<1>1. ASSUME NEW flags \in Words,
             \/ decContextClearStatus(Word(flags))
             \/ decContextSetStatusQuiet(Word(flags))
             \/ decContextRestoreStatus(Word(flags))
             \/ decContextSaveStatus(Word(flags))
             \/ decContextSetStatus(Word(flags))
             \/ setTraps(Word(flags))
             \/ setStatus(Word(flags))
      PROVE  BitsInv'
  <2>1. Word(flags) \subseteq Word(DEC_Flags)
    BY ContextAssumption, WordOfSome
  <2> QED BY <1>1, <2>1
      DEF decContextClearStatus, decContextSetStatusQuiet, decContextRestoreStatus,
          decContextSaveStatus, decContextSetStatus, setTraps, setStatus, Quietly, Update,
          BitsInv, Inv, TypeOK, decContext
<1>2. ASSUME NEW name \in Names,
             \/ decContextSetStatusFromString(name)
             \/ decContextSetStatusFromStringQuiet(name)
      PROVE  BitsInv'
  <2> DEFINE bits == IF name \in DEC_Flags THEN Bits(name) ELSE {}
  <2>1. bits \subseteq Word(DEC_Flags)
    BY BitsOfNameBits
  <2>2. decContextSetStatus(bits) \/ decContextSetStatusQuiet(bits)
    BY <1>2 DEF decContextSetStatusFromString, decContextSetStatusFromStringQuiet
  <2> HIDE DEF bits
  <2> QED BY <2>1, <2>2 DEF decContextSetStatus, decContextSetStatusQuiet, Quietly, Update,
                            BitsInv, Inv, TypeOK, decContext
<1>3. ASSUME NEW round, decContextSetRounding(round) PROVE BitsInv'
  BY <1>3 DEF decContextSetRounding, Quietly, BitsInv, Inv, TypeOK, decContext
<1>4. ASSUME NEW kind, decContextDefault(kind) PROVE BitsInv'
  <2> DEFINE bad == IF kind \in Kinds THEN {} ELSE Bits("Invalid_operation")
  <2>1. bad \subseteq Word(DEC_Flags)
    <3>1. "Invalid_operation" \in DEC_Flags
      BY DEF DEC_Flags, DEC_Errors, DEC_NaNs
    <3> QED BY <3>1 DEF Word
  <2>2. /\ ctx' = [DefaultContext(kind) EXCEPT !.status = bad]
        /\ saved' = saved
    BY <1>4 DEF decContextDefault, Update
  <2> HIDE DEF bad
  <2>3. ctx'.status = bad
    BY <2>2, DefaultType DEF decContext
  <2> QED BY <2>1, <2>2, <2>3 DEF BitsInv
<1>5. CASE decContextZeroStatus
  BY <1>5 DEF decContextZeroStatus, Quietly, BitsInv, Inv, TypeOK, decContext
<1>6. CASE HandleSignal \/ UNCHANGED vars
  BY <1>6 DEF HandleSignal, vars, BitsInv
<1> QED BY <1>1, <1>2, <1>3, <1>4, <1>5, <1>6 DEF Next

\* The name decContextStatusToString gives a status word with at most one bit
\* leads back to the word when given to decContextSetStatusFromString, and other
\* words are "Multiple status", in both builds of the flags.
THEOREM ContextNamesRoundTrip == Spec => []NamesRoundTrip
<1>1. Init => BitsInv
  <2> SUFFICES ASSUME Init PROVE BitsInv
    OBVIOUS
  <2>1. PICK kind \in Kinds : ctx = ConstructedContext(kind)
    BY DEF Init
  <2>2. ctx.status = {} /\ saved = {}
    <3>1. DefaultContext(kind).status = {}
      BY DEF DefaultContext, IEEEContext, BaseContext
    <3> QED BY <2>1, <3>1, DefaultType DEF Init, ConstructedContext, decContext
  <2> QED BY <2>2 DEF BitsInv
<1>2. BitsInv => NamesRoundTrip
  BY NameIs DEF BitsInv, NamesRoundTrip
<1> QED BY <1>1, <1>2, InitInv, StepInv, BitsStep, PTL DEF Spec
=============================================================================
