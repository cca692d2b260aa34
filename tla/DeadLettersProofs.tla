-------------------------- MODULE DeadLettersProofs --------------------------
(***************************************************************************)
(* Proofs about DeadLetters, for any number of messages, entries and       *)
(* restarts: a letter is taken out once, and a new process finds the last  *)
(* letter that was stored of every message, or a later one.                *)
(***************************************************************************)
EXTENDS DeadLetters, TLAPS

TypeOK ==
    /\ up \in BOOLEAN
    /\ inFlight \in SUBSET Msg
    /\ indexFile \in Seq(Msg \cup {Torn})
    /\ restarts \in Nat
    /\ letters \in [Msg -> Nat] /\ stored \in [Msg -> Nat] /\ taken \in [Msg -> Nat]

\* A stored letter has its entry, at a boundary that load reads.
StoredInFile == \A m \in Msg : stored[m] # 0 => stored[m] \in Entries(m)

\* What was taken out was in the file, so that the next letter is a later one.
TakenFromFile == \A m \in Msg : taken[m] <= Len(indexFile)
LettersInFile == \A m \in Msg : letters[m] <= Len(indexFile)

\* Nothing is taken while no process runs.
NothingTakenDown == ~up => \A m \in Msg : taken[m] = 0

IInv == /\ TypeOK /\ StoredInFile /\ TakenFromFile /\ LettersInFile
        /\ NothingTakenDown /\ TakenOnce

USE DEF ghosts

-----------------------------------------------------------------------------
(* The file *)

\* What is written at the end of the file leaves the entries before it readable.
LEMMA FileGrows ==
    ASSUME indexFile \in Seq(Msg \cup {Torn}),
           NEW s \in Seq(Msg \cup {Torn}),
           indexFile' = indexFile \o s
    PROVE  /\ indexFile' \in Seq(Msg \cup {Torn})
           /\ Len(indexFile) <= Len(indexFile')
           /\ \A m \in Msg : Entries(m) \subseteq Entries(m)'
<1>1. indexFile' \in Seq(Msg \cup {Torn}) /\ Len(indexFile) <= Len(indexFile')
  OBVIOUS
<1>2. \A k \in DOMAIN indexFile : k \in DOMAIN indexFile' /\ indexFile'[k] = indexFile[k]
  OBVIOUS
<1>3. ASSUME NEW m \in Msg, NEW k \in Entries(m) PROVE k \in Entries(m)'
  <2>1. k \in DOMAIN indexFile /\ indexFile[k] = m /\ \A j \in 1 .. k : indexFile[j] # Torn
    BY <1>3 DEF Entries, Aligned
  <2>2. \A j \in 1 .. k : j \in DOMAIN indexFile
    BY <2>1
  <2> QED
    BY <1>2, <2>1, <2>2 DEF Entries, Aligned
<1> QED
  BY <1>1, <1>3

\* An entry that is appended to an intact file is readable.
LEMMA EntryReadable ==
    ASSUME indexFile \in Seq(Msg \cup {Torn}), Intact(indexFile), NEW m \in Msg,
           indexFile' = Append(indexFile, m)
    PROVE  Len(indexFile) + 1 \in Entries(m)'
<1>1. /\ Len(indexFile) + 1 \in DOMAIN indexFile'
      /\ indexFile'[Len(indexFile) + 1] = m
      /\ \A j \in 1 .. Len(indexFile) : indexFile'[j] = indexFile[j]
  OBVIOUS
<1>2. \A j \in 1 .. Len(indexFile) : indexFile[j] # Torn
  BY DEF Intact, Aligned
<1>3. \A j \in 1 .. Len(indexFile) + 1 : indexFile'[j] # Torn
  BY <1>1, <1>2, DeadLettersAssumption
<1> QED
  BY <1>1, <1>3 DEF Entries, Aligned

\* Pieces of a write are entries or torn.
LEMMA WrittenType ==
    ASSUME NEW m \in Msg
    PROVE  Reached(m) \subseteq Seq(Msg \cup {Torn}) /\ ReachedPart \subseteq Reached(m)
<1>1. /\ <<>> \in Seq(Msg \cup {Torn}) /\ <<Torn>> \in Seq(Msg \cup {Torn})
      /\ <<m>> \in Seq(Msg \cup {Torn})
  OBVIOUS
<1> QED
  BY <1>1 DEF Reached, ReachedPart

-----------------------------------------------------------------------------
(* The inductive invariant *)

LEMMA InitIInv == Init => IInv
  BY DEF Init, NoLetters, IInv, TypeOK, StoredInFile, TakenFromFile, LettersInFile,
         NothingTakenDown, TakenOnce

\* A message enters or leaves the in-flight table.
LEMMA TableIInv ==
    ASSUME IInv, NEW m \in Msg, Deliver(m) \/ Settle(m)
    PROVE  IInv'
  BY DEF Deliver, Settle, IInv, TypeOK, StoredInFile, Entries, Aligned, TakenFromFile,
         LettersInFile, NothingTakenDown, TakenOnce

LEMMA NackDLQIInv ==
    ASSUME IInv, NEW m \in Msg, NackDLQ(m)
    PROVE  IInv'
<1> DEFINE entry == Len(indexFile) + 1
<1>1. /\ indexFile' \in Seq(Msg \cup {Torn}) /\ Len(indexFile') = entry
      /\ entry \in Nat /\ entry # 0
      /\ \A x \in Msg : Entries(x) \subseteq Entries(x)'
  <2>1. indexFile' = indexFile \o <<m>> /\ <<m>> \in Seq(Msg \cup {Torn})
    BY DEF NackDLQ, IInv, TypeOK
  <2>2. Len(indexFile') = entry /\ entry \in Nat /\ entry # 0
    BY DEF NackDLQ, IInv, TypeOK
  <2> QED
    BY <2>1, <2>2, FileGrows DEF IInv, TypeOK
<1>2. TypeOK'
  BY <1>1 DEF NackDLQ, IInv, TypeOK
<1>3. StoredInFile'
  <2>1. CASE Intact(indexFile)
    BY <1>1, <2>1, EntryReadable DEF NackDLQ, IInv, TypeOK, StoredInFile
  <2>2. CASE ~Intact(indexFile)
    BY <1>1, <2>2 DEF NackDLQ, IInv, StoredInFile
  <2> QED
    BY <2>1, <2>2
<1>4. TakenFromFile' /\ LettersInFile'
  BY <1>1 DEF NackDLQ, IInv, TypeOK, TakenFromFile, LettersInFile
<1>5. TakenOnce'
  BY <1>1 DEF NackDLQ, IInv, TypeOK, TakenFromFile, TakenOnce
<1> QED
  BY <1>2, <1>3, <1>4, <1>5 DEF NackDLQ, IInv, NothingTakenDown

LEMMA NackDLQFailsIInv ==
    ASSUME IInv, NEW m \in Msg, NackDLQFails(m)
    PROVE  IInv'
<1>1. /\ indexFile' \in Seq(Msg \cup {Torn}) /\ Len(indexFile) <= Len(indexFile')
      /\ \A x \in Msg : Entries(x) \subseteq Entries(x)'
  <2>1. PICK written \in ReachedPart : indexFile' = indexFile \o written
    BY DEF NackDLQFails
  <2> QED
    BY <2>1, WrittenType, FileGrows DEF IInv, TypeOK
<1>2. TypeOK'
  BY <1>1 DEF NackDLQFails, IInv, TypeOK
<1>3. StoredInFile'
  BY <1>1 DEF NackDLQFails, IInv, StoredInFile
<1>4. TakenFromFile' /\ LettersInFile'
  BY <1>1 DEF NackDLQFails, IInv, TypeOK, TakenFromFile, LettersInFile
<1> QED
  BY <1>2, <1>3, <1>4 DEF NackDLQFails, IInv, NothingTakenDown, TakenOnce

LEMMA ResendRemoveIInv ==
    ASSUME IInv, NEW m \in Msg, ResendRemove(m)
    PROVE  IInv'
<1>1. TypeOK'
  BY DEF ResendRemove, IInv, TypeOK
<1>2. StoredInFile'
  BY DEF ResendRemove, IInv, StoredInFile, Entries, Aligned
<1>3. TakenFromFile' /\ LettersInFile' /\ TakenOnce'
  BY DEF ResendRemove, IInv, TypeOK, TakenFromFile, LettersInFile, TakenOnce
<1> QED
  BY <1>1, <1>2, <1>3 DEF ResendRemove, IInv, NothingTakenDown

LEMMA CleanupExpiredIInv ==
    ASSUME IInv, NEW old \in SUBSET Msg, CleanupExpired(old)
    PROVE  IInv'
<1>1. TypeOK'
  BY DEF CleanupExpired, IInv, TypeOK
<1>2. StoredInFile'
  BY DEF CleanupExpired, IInv, StoredInFile, Entries, Aligned
<1>3. TakenFromFile' /\ LettersInFile' /\ TakenOnce'
  BY DEF CleanupExpired, IInv, TypeOK, TakenFromFile, LettersInFile, TakenOnce
<1> QED
  BY <1>1, <1>2, <1>3 DEF CleanupExpired, IInv, NothingTakenDown

LEMMA CrashIInv ==
    ASSUME IInv, Crash
    PROVE  IInv'
<1>1. /\ indexFile' \in Seq(Msg \cup {Torn}) /\ Len(indexFile) <= Len(indexFile')
      /\ \A x \in Msg : Entries(x) \subseteq Entries(x)'
  <2>1. CASE UNCHANGED indexFile
    BY <2>1 DEF IInv, TypeOK, Entries, Aligned
  <2>2. CASE \E m \in inFlight : \E written \in Reached(m) : indexFile' = indexFile \o written
    <3>1. PICK m \in inFlight : \E written \in Reached(m) : indexFile' = indexFile \o written
      BY <2>2
    <3>2. PICK written \in Reached(m) : indexFile' = indexFile \o written
      BY <3>1
    <3> QED
      BY <3>1, <3>2, WrittenType, FileGrows DEF IInv, TypeOK
  <2> QED
    BY <2>1, <2>2 DEF Crash
<1>2. TypeOK'
  BY <1>1 DEF Crash, NoLetters, IInv, TypeOK
<1>3. StoredInFile'
  BY <1>1 DEF Crash, IInv, StoredInFile
<1>4. TakenFromFile' /\ LettersInFile' /\ TakenOnce' /\ NothingTakenDown'
  BY <1>1 DEF Crash, NoLetters, IInv, TypeOK, TakenFromFile, LettersInFile, TakenOnce,
              NothingTakenDown
<1> QED
  BY <1>2, <1>3, <1>4 DEF IInv

LEMMA StartIInv ==
    ASSUME IInv, Start
    PROVE  IInv'
<1>1. letters' \in [Msg -> Nat] /\ \A m \in Msg : letters'[m] <= Len(indexFile)
  BY DEF Start, IInv, TypeOK
<1>2. TypeOK'
  BY <1>1 DEF Start, IInv, TypeOK
<1>3. StoredInFile'
  BY DEF Start, Loads, StoredInFile, Entries, Aligned
<1>4. TakenFromFile' /\ LettersInFile'
  BY <1>1 DEF Start, IInv, TakenFromFile, LettersInFile
<1>5. TakenOnce'
  BY <1>1 DEF Start, IInv, NothingTakenDown, TakenOnce
<1> QED
  BY <1>2, <1>3, <1>4, <1>5 DEF Start, IInv, NothingTakenDown

LEMMA NextIInv == IInv /\ [Next]_vars => IInv'
<1> SUFFICES ASSUME IInv, [Next]_vars PROVE IInv'
  OBVIOUS
<1>1. CASE UNCHANGED vars
  BY <1>1 DEF vars, IInv, TypeOK, StoredInFile, Entries, Aligned, TakenFromFile,
              LettersInFile, NothingTakenDown, TakenOnce
<1> QED
  BY <1>1, TableIInv, NackDLQIInv, NackDLQFailsIInv, ResendRemoveIInv,
     CleanupExpiredIInv, CrashIInv, StartIInv DEF Next

LEMMA Invariance == Spec => []IInv
  BY InitIInv, NextIInv, PTL DEF Spec

-----------------------------------------------------------------------------
(* The theorems *)

\* Whatever administrators, nacks, the clean-up, failed writes and restarts do, the
\* letter the map shows of a message is a later one than the last one that was taken
\* out (DLQStore.Add, Remove, CleanupExpired, load).
THEOREM LettersTakenOnce == Spec => []TakenOnce
<1>1. IInv => TakenOnce
  BY DEF IInv
<1> QED
  BY <1>1, Invariance, PTL

\* A new process finds the last letter that was stored of every message, or a later
\* one, through any crashes and failed writes after it (DLQStore.Add, load).
THEOREM LettersFound == Spec => LettersSurvive
<1>1. IInv /\ [Next]_vars
        => [~up /\ up' => \A m \in Msg : stored[m] <= letters'[m]]_vars
  <2> SUFFICES ASSUME IInv, Next, ~up, up', NEW m \in Msg
               PROVE  stored[m] <= letters'[m]
    OBVIOUS
  <2>1. Start
    BY DEF Next, Deliver, Settle, NackDLQ, NackDLQFails, ResendRemove, CleanupExpired, Crash
  <2>2. Loads(m, letters'[m]) /\ letters'[m] \in Nat
    BY <2>1 DEF Start, IInv, TypeOK
  <2>3. CASE stored[m] = 0
    BY <2>2, <2>3
  <2>4. CASE stored[m] # 0
    BY <2>2, <2>4 DEF IInv, StoredInFile, Loads
  <2> QED
    BY <2>3, <2>4
<1> QED
  BY <1>1, Invariance, PTL DEF Spec, LettersSurvive

=============================================================================
