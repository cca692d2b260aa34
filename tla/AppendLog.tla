------------------------------ MODULE AppendLog ------------------------------
(***************************************************************************)
(* internal/storage/log.go: the two files of one partition, the index in   *)
(* memory, and what is left of them after failed writes and crashes.       *)
(*                                                                         *)
(* A place is the position of one record in log.dat; every record takes    *)
(* one unit.  A write that is cut short leaves Torn: in log.dat it only    *)
(* takes room, since positions are taken from the end of the file, but in  *)
(* index.dat it moves every later entry off the 20-byte boundaries that    *)
(* loadIndex reads at.                                                     *)
(***************************************************************************)
EXTENDS IndexFile

CONSTANTS
    Record,
    Unreadable,     \* Read returns an error
    Half,           \* 2^31: the first position that is negative beside a length
    MaxData, MaxOffset, MaxRestarts     \* bounds on the exploration

Offset == 0 .. MaxOffset

ASSUME AppendLogAssumption ==
    /\ Torn \notin Record /\ Unreadable \notin Record
    /\ Torn \notin [offset : Nat, position : Nat]
    /\ Half \in Nat \ {0}
    /\ MaxData \in Nat /\ MaxOffset \in Nat /\ MaxRestarts \in Nat

VARIABLES
    data,           \* log.dat
    indexFile,      \* index.dat
    index,          \* l.index: the place of each offset
    nextOffset,     \* l.nextOffset
    holder,         \* the operation that holds l.mu between two steps
    answered,       \* the appends that returned an offset
    restarts

memory == <<index, nextOffset>>
vars == <<data, indexFile, memory, holder, answered, restarts>>

\* Who holds l.mu: nobody, an Append between its two files, or the cleanup,
\* which waits for the lock it holds.  Down: there is no process.
Free == "free"
Appending == "Append"
Cleanup == "CleanupExpired"
Down == "down"

-----------------------------------------------------------------------------
Extend(f, x, y) == [z \in DOMAIN f \cup {x} |-> IF z = x THEN y ELSE f[z]]

\* Mutant: the position is stored unsigned and wraps.
PlaceUnsigned(position) == position % Half

\* position<<32 | length in an int64, and the arithmetic shift back.
Place(position) ==
    LET low == position % (2 * Half)
    IN  IF low < Half THEN low ELSE low - 2 * Half

Read(o) ==
    IF o \in DOMAIN index /\ index[o] \in 0 .. Len(data) - 1 /\ data[index[o] + 1] # Torn
    THEN data[index[o] + 1]
    ELSE Unreadable

Init ==
    /\ data = <<>> /\ indexFile = <<>>
    /\ index = <<>> /\ nextOffset = 0
    /\ holder = Free
    /\ answered = <<>>
    /\ restarts = 0

-----------------------------------------------------------------------------
(* Append *)

\* Mutant: the position is counted and not taken from the end of the file.
AppendRecordCounted(r) ==
    /\ holder = Free
    /\ Len(data) < MaxData /\ nextOffset < MaxOffset
    /\ data' = Append(data, r)
    /\ index' = Extend(index, nextOffset, Place(nextOffset))
    /\ nextOffset' = nextOffset + 1
    /\ holder' = Appending
    /\ UNCHANGED <<indexFile, answered, restarts>>

\* The record is written and synced.  The offset is taken, and the index in
\* memory knows it, before the entry is written.
AppendRecord(r) ==
    /\ holder = Free
    /\ Len(data) < MaxData /\ nextOffset < MaxOffset
    /\ data' = Append(data, r)
    /\ index' = Extend(index, nextOffset, Place(Len(data)))
    /\ nextOffset' = nextOffset + 1
    /\ holder' = Appending
    /\ UNCHANGED <<indexFile, answered, restarts>>

\* A failed write or sync: the offset is not taken.
AppendRecordFails(r) ==
    /\ holder = Free
    /\ Len(data) < MaxData
    /\ \E written \in Reached(r) : data' = data \o written
    /\ UNCHANGED <<indexFile, memory, holder, answered, restarts>>

\* The append under way, which has written its record last.
Entry == [offset |-> nextOffset - 1, position |-> Len(data) - 1]
Answered == Extend(answered, Entry.offset, data[Len(data)])

AppendIndex ==
    /\ holder = Appending
    /\ indexFile' = Append(indexFile, Entry)
    /\ holder' = Free
    /\ answered' = Answered
    /\ UNCHANGED <<data, memory, restarts>>

\* Append returns an error, for a record that can be read at its offset until
\* the process ends.
AppendIndexFails ==
    /\ holder = Appending
    /\ \E written \in ReachedPart : indexFile' = indexFile \o written
    /\ holder' = Free
    /\ UNCHANGED <<data, memory, answered, restarts>>

\* Reads every record of the index with l.mu held; the first Read never returns.
CleanupExpired ==
    /\ holder = Free
    /\ DOMAIN index # {}
    /\ holder' = Cleanup
    /\ UNCHANGED <<data, indexFile, memory, answered, restarts>>

-----------------------------------------------------------------------------
(* Crash and start *)

\* The process dies, in the middle of a write or not.
Crash ==
    /\ holder # Down
    /\ restarts < MaxRestarts
    /\ \E r \in Record : \E written \in Reached(r) :
          data' = IF holder = Free /\ Len(data) < MaxData THEN data \o written ELSE data
    /\ \E written \in Reached(Entry) :
          indexFile' = IF holder = Appending THEN indexFile \o written ELSE indexFile
    /\ index' = <<>> /\ nextOffset' = 0
    /\ holder' = Down
    /\ UNCHANGED <<answered, restarts>>

Indexed == {indexFile[k].offset : k \in Aligned(indexFile)}
IndexedPlace(o) ==
    LET last == CHOOSE k \in Aligned(indexFile) :
                   /\ indexFile[k].offset = o
                   /\ \A j \in Aligned(indexFile) : indexFile[j].offset = o => j <= k
    IN  Place(indexFile[last].position)

\* Mutant: the next offset is the greatest one loaded.
NextAfterReused(S) == IF S = {} THEN 0 ELSE CHOOSE n \in S : \A o \in S : o <= n

NextAfter(S) == IF S = {} THEN 0 ELSE 1 + CHOOSE n \in S : \A o \in S : o <= n

\* loadIndex.  The misaligned entries give some offsets, whatever their bytes
\* say, and places at which no record is.
LoadIndex(garbage) ==
    /\ holder = Down
    /\ Cardinality(garbage) <= Cardinality(Misaligned(indexFile))
    /\ index' = [o \in Indexed \cup garbage |-> IF o \in garbage THEN -1 ELSE IndexedPlace(o)]
    /\ nextOffset' = NextAfter(Indexed \cup garbage)
    /\ holder' = Free
    /\ answered' = IF Misaligned(indexFile) = {} THEN answered ELSE <<>>
    /\ restarts' = restarts + 1
    /\ UNCHANGED <<data, indexFile>>

Next ==
    \/ \E r \in Record : AppendRecord(r) \/ AppendRecordFails(r)
    \/ AppendIndex \/ AppendIndexFails
    \/ CleanupExpired
    \/ Crash
    \/ \E garbage \in SUBSET Offset : LoadIndex(garbage)

Spec == Init /\ [][Next]_vars

-----------------------------------------------------------------------------
(* Properties *)

\* Up to 4 GiB what was answered is what Read returns, or for a record beyond
\* 2 GiB an error, through failed writes, crashes and starts; only a start that
\* reads behind a torn index entry forgets what was answered (Append, Read).
AnsweredReadable ==
    holder # Down /\ Len(data) <= 2 * Half =>
        \A o \in DOMAIN answered : index[o] >= 0 => Read(o) = answered[o]

\* Up to 4 GiB no two offsets lead to one record: a message is never read in
\* place of another one, whatever failed before (Append, Read).
OnePlacePerOffset ==
    Len(data) <= 2 * Half =>
        \A o, p \in DOMAIN index : index[o] = index[p] /\ index[o] >= 0 => o = p

\* The place of an offset, from memory or, with no process, from the file.
Found(o) == IF holder = Down THEN IndexedPlace(o) ELSE index[o]

\* No entry lies behind a torn one, and every position fits.
Sound == Misaligned(indexFile) = {} /\ Len(data) <= Half

Promise == INSTANCE OffsetLog WITH
    served <- IF Sound THEN [o \in DOMAIN answered |-> data[Found(o) + 1]] ELSE <<>>,
    intact <- Sound

\* The log implements OffsetLog: offsets are never given twice and what an
\* answered offset leads to never changes, through crashes and failed writes
\* (Append, loadIndex).
OffsetLogSpec == Promise!Spec

=============================================================================
