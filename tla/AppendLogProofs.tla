--------------------------- MODULE AppendLogProofs ---------------------------
(***************************************************************************)
(* Proofs about AppendLog, for files of any length, any number of torn     *)
(* writes and of restarts.                                                 *)
(***************************************************************************)
EXTENDS AppendLog, FiniteSetTheorems, WellFoundedInduction, TLAPS

\* A position below 4 GiB is stored as itself or as a negative place.
LEMMA PlaceOfPosition ==
    ASSUME NEW q \in Nat
    PROVE  /\ Place(q) \in Int /\ Place(q) <= q
           /\ q < Half => Place(q) = q
           /\ q < 2 * Half /\ Place(q) >= 0 => Place(q) = q
<1> DEFINE low == q % (2 * Half)
<1>1. 2 * Half \in Nat /\ 2 * Half > 0 /\ Half > 0 /\ Half \in Nat
  BY AppendLogAssumption
<1>2. low \in Int /\ 0 <= low /\ low < 2 * Half
  BY <1>1
<1>3. q < 2 * Half => low = q
  BY <1>1
<1>4. low <= q
  BY <1>1, <1>2, <1>3
<1>5. Place(q) = IF low < Half THEN low ELSE low - 2 * Half
  BY DEF Place
<1> QED
  BY <1>1, <1>2, <1>3, <1>4, <1>5

\* A bounded set of offsets that is not empty has a greatest one.
LEMMA GreatestOffset ==
    ASSUME NEW n \in Nat, NEW S \in SUBSET (0 .. n), S # {}
    PROVE  \E x \in S : \A y \in S : y <= x
<1> DEFINE T == {k \in Nat : n - k \in S}
<1>1. T # {}
  <2>1. PICK y \in S : TRUE
    OBVIOUS
  <2>2. n - y \in T
    BY <2>1
  <2> QED
    BY <2>2
<1>2. PICK k \in T : \A j \in T : ~(<<j, k>> \in OpToRel(<, Nat))
  BY <1>1, WFMin, NatLessThanWellFounded
<1>3. \A j \in T : ~(j < k)
  BY <1>2 DEF OpToRel
<1>4. \A y \in S : y <= n - k
  <2> SUFFICES ASSUME NEW y \in S PROVE y <= n - k
    OBVIOUS
  <2>1. n - y \in T
    OBVIOUS
  <2> QED
    BY <1>3, <2>1
<1> QED
  BY <1>2, <1>4

-----------------------------------------------------------------------------
(* The index file *)

EntryRec == [offset : 0 .. MaxOffset, position : Nat]
Files == Seq(EntryRec \cup {Torn})

\* Entries that are read at the right boundary lie in the order they were written.
Increasing(f) ==
    \A j, k \in Aligned(f) : j < k => /\ f[j].offset < f[k].offset
                                     /\ f[j].position < f[k].position

LEMMA TornIsNoEntry == Torn \notin EntryRec
  BY AppendLogAssumption DEF EntryRec

LEMMA AlignedEntries ==
    ASSUME NEW f \in Files, NEW k \in Aligned(f)
    PROVE  k \in DOMAIN f /\ f[k] \in EntryRec
  BY DEF Files, Aligned

\* Writing to the file moves no boundary before its end.
LEMMA AlignedGrows ==
    ASSUME NEW f \in Files, NEW x \in EntryRec \cup {Torn}, NEW h, h = Append(f, x)
    PROVE  /\ h \in Files /\ Len(h) = Len(f) + 1 /\ Len(f) \in Nat
           /\ DOMAIN f = 1 .. Len(f) /\ DOMAIN h = 1 .. Len(f) + 1
           /\ \A k \in 1 .. Len(f) : h[k] = f[k]
           /\ h[Len(f) + 1] = x
           /\ \A k \in 1 .. Len(f) : k \in Aligned(f) <=> k \in Aligned(h)
<1>1. h \in Files /\ Len(h) = Len(f) + 1 /\ Len(f) \in Nat
  BY DEF Files
<1>2. \A k \in 1 .. Len(f) : h[k] = f[k]
  BY DEF Files
<1>3. h[Len(f) + 1] = x
  BY DEF Files
<1>4. DOMAIN f = 1 .. Len(f) /\ DOMAIN h = 1 .. Len(f) + 1
  BY <1>1 DEF Files
<1>5. ASSUME NEW k \in 1 .. Len(f)
      PROVE  k \in Aligned(f) <=> k \in Aligned(h)
  BY <1>1, <1>2, <1>4 DEF Aligned
<1> QED
  BY <1>1, <1>2, <1>3, <1>4, <1>5

LEMMA AlignedKept ==
    ASSUME NEW f \in Files, NEW x \in EntryRec \cup {Torn}, NEW h, h = Append(f, x),
           NEW k \in Aligned(f)
    PROVE  k \in Aligned(h) /\ h[k] = f[k] /\ k \in 1 .. Len(f)
<1>1. k \in 1 .. Len(f)
  BY AlignedGrows DEF Aligned
<1>2. h[k] = f[k]
  BY <1>1, AlignedGrows
<1>3. \A j \in 1 .. Len(f) : j \in Aligned(f) <=> j \in Aligned(h)
  BY AlignedGrows
<1> QED
  BY <1>1, <1>2, <1>3

LEMMA AlignedNew ==
    ASSUME NEW f \in Files, NEW x \in EntryRec \cup {Torn}, NEW h, h = Append(f, x),
           NEW k \in Aligned(h), k \notin Aligned(f)
    PROVE  k = Len(f) + 1 /\ h[k] = x /\ x # Torn
<1>1. k \in 1 .. Len(f) + 1 /\ Len(f) \in Nat
  BY AlignedGrows DEF Aligned
<1>2. k \notin 1 .. Len(f)
  BY AlignedGrows
<1>3. k = Len(f) + 1
  BY <1>1, <1>2
<1>4. h[k] # Torn
  BY <1>1 DEF Aligned
<1> QED
  BY <1>3, <1>4, AlignedGrows

LEMMA MisalignedGrows ==
    ASSUME NEW f \in Files, NEW x \in EntryRec \cup {Torn}, NEW h, h = Append(f, x),
           Misaligned(h) = {}
    PROVE  /\ Misaligned(f) = {}
           /\ x # Torn => Len(f) + 1 \in Aligned(h)
<1>1. ASSUME NEW k \in Misaligned(f) PROVE FALSE
  <2>1. k \in 1 .. Len(f) /\ \E j \in 1 .. k - 1 : f[j] = Torn
    BY AlignedGrows DEF Misaligned
  <2>2. k \in 1 .. Len(f) + 1 /\ \E j \in 1 .. k - 1 : h[j] = Torn
    BY <2>1, AlignedGrows
  <2>3. k \in Misaligned(h)
    BY <2>2, AlignedGrows DEF Misaligned
  <2> QED
    BY <2>3
<1>2. ASSUME NEW j \in 1 .. Len(f), h[j] = Torn PROVE FALSE
  <2>1. Len(f) + 1 \in DOMAIN h /\ j \in 1 .. (Len(f) + 1) - 1
    BY AlignedGrows
  <2>2. Len(f) + 1 \in Misaligned(h)
    BY <1>2, <2>1 DEF Misaligned
  <2> QED
    BY <2>2
<1>3. ASSUME x # Torn PROVE Len(f) + 1 \in Aligned(h)
  <2>1. Len(f) + 1 \in DOMAIN h /\ Len(f) \in Nat /\ h[Len(f) + 1] # Torn
    BY <1>3, AlignedGrows
  <2> QED
    BY <1>2, <2>1 DEF Aligned
<1> QED
  BY <1>1, <1>3

\* What an entry finds that is written whole, and that is cut short.
LEMMA EntryWritten ==
    ASSUME NEW f \in Files, Increasing(f), NEW x \in EntryRec,
           \A k \in Aligned(f) : f[k].offset < x.offset /\ f[k].position < x.position,
           NEW h, h = Append(f, x)
    PROVE  /\ Increasing(h)
           /\ \A k \in Aligned(h) : h[k].offset <= x.offset /\ h[k].position <= x.position
<1> USE AppendLogAssumption
<1>1. x \in EntryRec \cup {Torn} /\ x.offset \in Int /\ x.position \in Int
  BY DEF EntryRec
<1>2. ASSUME NEW k \in Aligned(f)
      PROVE  /\ h[k] = f[k] /\ k \in 1 .. Len(f)
             /\ f[k].offset \in Int /\ f[k].position \in Int
  <2>1. f[k] \in EntryRec
    BY AlignedEntries
  <2>2. h[k] = f[k] /\ k \in 1 .. Len(f)
    BY <1>1, AlignedKept
  <2> QED
    BY <2>1, <2>2 DEF EntryRec
<1>3. ASSUME NEW k \in Aligned(h), k \notin Aligned(f) PROVE k = Len(f) + 1 /\ h[k] = x
  BY <1>1, <1>3, AlignedNew
<1>4. ASSUME NEW k \in Aligned(h)
      PROVE  h[k].offset <= x.offset /\ h[k].position <= x.position
  <2>1. CASE k \in Aligned(f)
    BY <1>1, <1>2, <2>1
  <2>2. CASE k \notin Aligned(f)
    BY <1>1, <1>3, <2>2
  <2> QED
    BY <2>1, <2>2
<1>5. ASSUME NEW j \in Aligned(h), NEW k \in Aligned(h), j < k
      PROVE  h[j].offset < h[k].offset /\ h[j].position < h[k].position
  <2>1. Len(f) \in Nat /\ j \in 1 .. Len(f) + 1 /\ k \in 1 .. Len(f) + 1
    BY <1>1, AlignedGrows DEF Aligned
  <2>2. j \in Aligned(f)
    BY <1>3, <1>5, <2>1
  <2>3. CASE k \in Aligned(f)
    BY <1>2, <1>5, <2>2, <2>3 DEF Increasing
  <2>4. CASE k \notin Aligned(f)
    BY <1>2, <1>3, <2>2, <2>4
  <2> QED
    BY <2>3, <2>4
<1> QED
  BY <1>4, <1>5 DEF Increasing

LEMMA PieceWritten ==
    ASSUME NEW f \in Files, Increasing(f), NEW h, h = Append(f, Torn)
    PROVE  Increasing(h) /\ Aligned(h) = Aligned(f) /\ \A k \in Aligned(f) : h[k] = f[k]
<1>1. Torn \in EntryRec \cup {Torn}
  OBVIOUS
<1>2. ASSUME NEW k \in Aligned(f) PROVE k \in Aligned(h) /\ h[k] = f[k]
  BY <1>1, AlignedKept
<1>3. ASSUME NEW k \in Aligned(h), k \notin Aligned(f) PROVE FALSE
  BY <1>1, <1>3, AlignedNew
<1>4. Aligned(h) = Aligned(f)
  BY <1>2, <1>3
<1> QED
  BY <1>2, <1>4 DEF Increasing

\* What a write leaves in a file.
LEMMA WriteReaches ==
    ASSUME NEW S, NEW x \in S, Torn \in S, NEW f \in Seq(S), NEW written \in Reached(x)
    PROVE  f \o written \in {f, Append(f, Torn), Append(f, x)}
<1>1. f \o <<>> = f /\ f \o <<Torn>> = Append(f, Torn) /\ f \o <<x>> = Append(f, x)
  OBVIOUS
<1> QED
  BY <1>1 DEF Reached

-----------------------------------------------------------------------------
(* The inductive invariant *)

TypeOK ==
    /\ data \in Seq(Record \cup {Torn})
    /\ indexFile \in Files
    /\ index \in [DOMAIN index -> Int] /\ DOMAIN index \subseteq Nat
    /\ nextOffset \in 0 .. MaxOffset + 1
    /\ holder \in {Free, Appending, Cleanup, Down}
    /\ answered \in [DOMAIN answered -> Record] /\ DOMAIN answered \subseteq Nat
    /\ restarts \in Nat

\* The offsets and the records that are finished: all but those under way.
Done == IF holder = Appending THEN nextOffset - 1 ELSE nextOffset
Written == IF holder = Appending THEN Len(data) - 1 ELSE Len(data)

UnderWay ==
    holder = Appending =>
        /\ nextOffset \in 1 .. MaxOffset /\ Len(data) > 0 /\ data[Len(data)] \in Record
        /\ nextOffset - 1 \in DOMAIN index /\ index[nextOffset - 1] = Place(Len(data) - 1)

FileSorted ==
    /\ Increasing(indexFile)
    /\ \A k \in Aligned(indexFile) : indexFile[k].position < Written

\* The next offset is above all that the process knows or can find in the file.
MemoryAhead ==
    holder # Down =>
        /\ \A o \in DOMAIN index : o < nextOffset /\ index[o] < Len(data)
        /\ \A k \in Aligned(indexFile) : indexFile[k].offset < Done
        /\ \A o \in DOMAIN answered : o < Done

\* The position of an answered record, in memory and in an intact file.
AnsweredAt(o, q) ==
    /\ data[q + 1] = answered[o]
    /\ holder # Down => o \in DOMAIN index /\ index[o] = Place(q)
    /\ Misaligned(indexFile) = {} =>
          \E k \in Aligned(indexFile) : indexFile[k] = [offset |-> o, position |-> q]

Answers == \A o \in DOMAIN answered : \E q \in 0 .. Len(data) - 1 : AnsweredAt(o, q)

IInv == /\ TypeOK /\ UnderWay /\ FileSorted /\ MemoryAhead /\ Answers
        /\ OnePlacePerOffset

LEMMA InitIInv == Init => IInv
<1> SUFFICES ASSUME Init PROVE IInv
  OBVIOUS
<1>1. DOMAIN index = {} /\ DOMAIN answered = {} /\ indexFile = <<>> /\ holder = Free
  BY DEF Init
<1>2. TypeOK
  BY <1>1, AppendLogAssumption DEF Init, TypeOK, Files
<1>3. Aligned(indexFile) = {}
  BY <1>1 DEF Aligned
<1> QED
  BY <1>1, <1>2, <1>3 DEF IInv, UnderWay, FileSorted, Increasing, MemoryAhead, Answers,
     OnePlacePerOffset, Free, Appending

-----------------------------------------------------------------------------
(* Append *)

USE DEF Free, Appending, Cleanup, Down, memory

LEMMA AppendRecordIInv ==
    ASSUME IInv, NEW r \in Record, AppendRecord(r)
    PROVE  IInv'
<1> USE DEF IInv, AppendRecord
<1>1. /\ data' \in Seq(Record \cup {Torn}) /\ Len(data') = Len(data) + 1
      /\ \A q \in 0 .. Len(data) - 1 : data'[q + 1] = data[q + 1]
      /\ data'[Len(data')] = r /\ Len(data) \in Nat
  BY DEF TypeOK
<1>2. /\ DOMAIN index' = DOMAIN index \cup {nextOffset}
      /\ index'[nextOffset] = Place(Len(data))
      /\ \A o \in DOMAIN index : o < nextOffset /\ index'[o] = index[o]
  <2>1. \A o \in DOMAIN index : o < nextOffset /\ o # nextOffset
    BY DEF MemoryAhead, TypeOK
  <2>2. index' = Extend(index, nextOffset, Place(Len(data)))
    OBVIOUS
  <2>3. /\ DOMAIN index' = DOMAIN index \cup {nextOffset}
        /\ index'[nextOffset] = Place(Len(data))
        /\ \A o \in DOMAIN index : o # nextOffset => index'[o] = index[o]
    BY <2>2 DEF Extend
  <2> QED
    BY <2>1, <2>3
<1>3. Place(Len(data)) \in Int /\ Place(Len(data)) <= Len(data)
  BY <1>1, PlaceOfPosition
<1>4. /\ nextOffset \in Nat /\ nextOffset' = nextOffset + 1
      /\ nextOffset < MaxOffset /\ MaxOffset \in Nat
  BY AppendLogAssumption DEF TypeOK
<1>5. TypeOK'
  <2>1. index' \in [DOMAIN index' -> Int] /\ DOMAIN index' \subseteq Nat
    <3>1. index' = [o \in DOMAIN index' |-> index'[o]]
      BY DEF Extend
    <3>2. \A o \in DOMAIN index' : index'[o] \in Int
      BY <1>2, <1>3 DEF TypeOK
    <3> QED
      BY <1>2, <1>4, <3>1, <3>2 DEF TypeOK
  <2> QED
    BY <1>1, <1>4, <2>1 DEF TypeOK
<1>6. UnderWay'
  BY <1>1, <1>2, <1>4 DEF UnderWay
<1>7. Done' = Done /\ Written' = Written
  BY <1>1, <1>4 DEF Done, Written
<1>8. FileSorted'
  BY <1>7 DEF FileSorted
<1>9. MemoryAhead'
  <2>1. \A o \in DOMAIN index' : o < nextOffset' /\ index'[o] < Len(data')
    BY <1>1, <1>2, <1>3, <1>4 DEF MemoryAhead, TypeOK
  <2> QED
    BY <1>7, <2>1 DEF MemoryAhead
<1>10. Answers'
  <2> SUFFICES ASSUME NEW o \in DOMAIN answered
               PROVE  \E q \in 0 .. Len(data') - 1 : AnsweredAt(o, q)'
    BY DEF Answers
  <2>1. PICK q \in 0 .. Len(data) - 1 : AnsweredAt(o, q)
    BY DEF Answers
  <2>2. q \in 0 .. Len(data') - 1
    BY <1>1
  <2>3. AnsweredAt(o, q)'
    BY <1>1, <1>2, <2>1 DEF AnsweredAt
  <2> QED
    BY <2>2, <2>3
<1>11. OnePlacePerOffset'
  <2> SUFFICES ASSUME Len(data') <= 2 * Half, NEW o \in DOMAIN index', NEW p \in DOMAIN index',
                      index'[o] = index'[p], index'[o] >= 0
               PROVE  o = p
    BY DEF OnePlacePerOffset
  <2>1. Len(data) < 2 * Half /\ 2 * Half \in Nat
    BY <1>1, AppendLogAssumption
  <2>2. Place(Len(data)) >= 0 => Place(Len(data)) = Len(data)
    BY <1>1, <2>1, PlaceOfPosition
  <2>3. \A x \in DOMAIN index : index[x] < Len(data)
    BY DEF MemoryAhead
  <2>4. o \in DOMAIN index /\ p \in DOMAIN index => o = p
    BY <1>1, <1>2, <2>1 DEF OnePlacePerOffset
  <2> QED
    BY <1>1, <1>2, <1>3, <2>2, <2>3, <2>4 DEF TypeOK
<1> QED
  BY <1>5, <1>6, <1>8, <1>9, <1>10, <1>11

\* A piece of a record, or a whole one, takes room and moves nothing.
LEMMA DataWritten ==
    ASSUME TypeOK, NEW r \in Record, NEW written \in Reached(r), data' = data \o written
    PROVE  /\ data' \in Seq(Record \cup {Torn})
           /\ Len(data) \in Nat /\ Len(data') \in Nat /\ Len(data') >= Len(data)
           /\ \A q \in 0 .. Len(data) - 1 : data'[q + 1] = data[q + 1]
<1>1. data' \in {data, Append(data, Torn), Append(data, r)}
  <2>1. r \in Record \cup {Torn} /\ Torn \in Record \cup {Torn}
    OBVIOUS
  <2> QED
    BY <2>1, WriteReaches DEF TypeOK
<1>2. data \in Seq(Record \cup {Torn})
  BY DEF TypeOK
<1>3. CASE data' = data
  BY <1>2, <1>3
<1>4. CASE data' = Append(data, Torn)
  BY <1>2, <1>4
<1>5. CASE data' = Append(data, r)
  BY <1>2, <1>5
<1> QED
  BY <1>1, <1>3, <1>4, <1>5

LEMMA AppendRecordFailsIInv ==
    ASSUME IInv, NEW r \in Record, AppendRecordFails(r)
    PROVE  IInv'
<1> USE DEF IInv, AppendRecordFails
<1>1. /\ data' \in Seq(Record \cup {Torn})
      /\ Len(data) \in Nat /\ Len(data') \in Nat /\ Len(data') >= Len(data)
      /\ \A q \in 0 .. Len(data) - 1 : data'[q + 1] = data[q + 1]
  BY DataWritten
<1>2. TypeOK' /\ UnderWay'
  BY <1>1 DEF TypeOK, UnderWay
<1>3. FileSorted'
  <2>1. ASSUME NEW k \in Aligned(indexFile) PROVE indexFile[k].position < Len(data')
    <3>1. indexFile[k] \in EntryRec
      BY AlignedEntries DEF TypeOK
    <3>2. indexFile[k].position \in Nat /\ indexFile[k].position < Len(data)
      BY <3>1 DEF EntryRec, FileSorted, Written
    <3>3. Len(data) \in Nat /\ Len(data') \in Nat /\ Len(data') >= Len(data)
      BY <1>1
    <3> HIDE DEF AppendRecordFails
    <3> QED
      BY <3>2, <3>3
  <2> QED
    BY <2>1 DEF FileSorted, Written
<1>4. MemoryAhead'
  BY <1>1 DEF TypeOK, MemoryAhead, Done
<1>5. Answers'
  <2> SUFFICES ASSUME NEW o \in DOMAIN answered
               PROVE  \E q \in 0 .. Len(data') - 1 : AnsweredAt(o, q)'
    BY DEF Answers
  <2>1. PICK q \in 0 .. Len(data) - 1 : AnsweredAt(o, q)
    BY DEF Answers
  <2>2. q \in 0 .. Len(data') - 1
    BY <1>1
  <2>3. data'[q + 1] = data[q + 1]
    BY <1>1
  <2>4. AnsweredAt(o, q)'
    BY <2>1, <2>3 DEF AnsweredAt
  <2> QED
    BY <2>2, <2>4
<1>6. OnePlacePerOffset'
  <2>1. Len(data') <= 2 * Half => Len(data) <= 2 * Half
    BY <1>1, AppendLogAssumption
  <2> QED
    BY <2>1 DEF OnePlacePerOffset
<1> QED
  BY <1>2, <1>3, <1>4, <1>5, <1>6

\* The entry of the append under way goes behind all others.
LEMMA EntryBehind ==
    ASSUME IInv, holder = Appending
    PROVE  /\ Entry \in EntryRec /\ Entry.offset = nextOffset - 1
           /\ Entry.position = Len(data) - 1
           /\ Entry.offset \in Int /\ Entry.position \in 0 .. Len(data) - 1
           /\ \A k \in Aligned(indexFile) : /\ indexFile[k].offset < Entry.offset
                                          /\ indexFile[k].position < Entry.position
<1>1. nextOffset \in 1 .. MaxOffset /\ Len(data) \in Nat /\ Len(data) > 0 /\ MaxOffset \in Nat
  BY AppendLogAssumption DEF IInv, TypeOK, UnderWay
<1> QED
  BY <1>1 DEF Entry, EntryRec, IInv, FileSorted, MemoryAhead, Done, Written

LEMMA AppendIndexIInv ==
    ASSUME IInv, AppendIndex
    PROVE  IInv'
<1> USE DEF IInv, AppendIndex
<1>1. /\ Entry \in EntryRec /\ Entry.offset = nextOffset - 1
      /\ Entry.position = Len(data) - 1
      /\ Entry.offset \in Int /\ Entry.position \in 0 .. Len(data) - 1
      /\ \A k \in Aligned(indexFile) : /\ indexFile[k].offset < Entry.offset
                                     /\ indexFile[k].position < Entry.position
  BY EntryBehind
<1>2. indexFile \in Files /\ indexFile' \in Files /\ Entry \in EntryRec \cup {Torn}
  BY <1>1, AlignedGrows DEF TypeOK
<1>3. /\ Increasing(indexFile')
      /\ \A k \in Aligned(indexFile') : /\ indexFile'[k].offset <= Entry.offset
                                      /\ indexFile'[k].position <= Entry.position
  BY <1>1, <1>2, EntryWritten DEF FileSorted
<1>4. /\ DOMAIN answered' = DOMAIN answered \cup {nextOffset - 1}
      /\ answered'[nextOffset - 1] = data[Len(data)]
      /\ \A o \in DOMAIN answered : o < nextOffset - 1 /\ answered'[o] = answered[o]
  <2>1. \A o \in DOMAIN answered : o < nextOffset - 1 /\ o # nextOffset - 1
    BY DEF MemoryAhead, Done, TypeOK
  <2> QED
    BY <1>1, <2>1 DEF Answered, Extend
<1>5. nextOffset \in 1 .. MaxOffset /\ Len(data) \in Nat /\ Len(data) > 0
  BY DEF TypeOK, UnderWay
<1>6. TypeOK'
  <2>1. answered' = [o \in DOMAIN answered' |-> answered'[o]]
    BY DEF Answered, Extend
  <2>2. \A o \in DOMAIN answered' : answered'[o] \in Record
    BY <1>4 DEF TypeOK, UnderWay
  <2>3. DOMAIN answered' \subseteq Nat
    BY <1>4, <1>5 DEF TypeOK
  <2> QED
    BY <1>2, <2>1, <2>2, <2>3 DEF TypeOK
<1>7. UnderWay' /\ OnePlacePerOffset'
  BY DEF UnderWay, OnePlacePerOffset
<1>8. \A k \in Aligned(indexFile') : indexFile'[k] \in EntryRec
  BY <1>2, AlignedEntries
<1>9. FileSorted'
  <2>1. ASSUME NEW k \in Aligned(indexFile') PROVE indexFile'[k].position < Len(data)
    <3>1. indexFile'[k] \in EntryRec
      BY <1>8
    <3>2. indexFile'[k].position \in Nat
      BY <3>1 DEF EntryRec
    <3>3. indexFile'[k].position <= Len(data) - 1
      BY <1>1, <1>3
    <3> HIDE DEF AppendIndex
    <3> QED
      BY <1>5, <3>2, <3>3
  <2> QED
    BY <1>3, <2>1 DEF FileSorted, Written
<1>10. MemoryAhead'
  <2>1. ASSUME NEW k \in Aligned(indexFile') PROVE indexFile'[k].offset < nextOffset
    <3>1. indexFile'[k] \in EntryRec
      BY <1>8
    <3> HIDE DEF AppendIndex, IInv
    <3>2. indexFile'[k].offset \in Int
      <4>1. indexFile'[k].offset \in 0 .. MaxOffset
        BY <3>1 DEF EntryRec
      <4> QED
        BY <4>1, AppendLogAssumption
    <3>3. indexFile'[k].offset <= nextOffset - 1
      BY <1>1, <1>3
    <3> HIDE DEF AppendIndex
    <3> QED
      BY <1>5, <3>2, <3>3
  <2>2. \A o \in DOMAIN answered' : o < nextOffset
    BY <1>4, <1>5 DEF TypeOK
  <2> QED
    BY <2>1, <2>2 DEF MemoryAhead, Done
<1>11. Answers'
  <2> SUFFICES ASSUME NEW o \in DOMAIN answered'
               PROVE  \E q \in 0 .. Len(data) - 1 : AnsweredAt(o, q)'
    BY DEF Answers
  <2>1. CASE o \in DOMAIN answered
    <3>1. PICK q \in 0 .. Len(data) - 1 : AnsweredAt(o, q)
      BY <2>1 DEF Answers
    <3>2. ASSUME Misaligned(indexFile') = {}
          PROVE  \E k \in Aligned(indexFile') : indexFile'[k] = [offset |-> o, position |-> q]
      <4>1. Misaligned(indexFile) = {}
        BY <1>2, <3>2, MisalignedGrows
      <4>2. PICK k \in Aligned(indexFile) : indexFile[k] = [offset |-> o, position |-> q]
        BY <3>1, <4>1 DEF AnsweredAt
      <4>3. k \in Aligned(indexFile') /\ indexFile'[k] = indexFile[k]
        BY <1>2, AlignedKept
      <4> QED
        BY <4>2, <4>3
    <3>3. AnsweredAt(o, q)'
      BY <1>4, <2>1, <3>1, <3>2 DEF AnsweredAt
    <3> QED
      BY <3>1, <3>3
  <2>2. CASE o = nextOffset - 1
    <3>1. ASSUME Misaligned(indexFile') = {}
          PROVE  \E k \in Aligned(indexFile') :
                    indexFile'[k] = [offset |-> o, position |-> Len(data) - 1]
      <4>1. Entry # Torn
        BY <1>1, TornIsNoEntry
      <4>2. Len(indexFile) + 1 \in Aligned(indexFile')
        BY <1>2, <3>1, <4>1, MisalignedGrows
      <4>3. indexFile'[Len(indexFile) + 1] = Entry
        BY <1>2, AlignedGrows
      <4> QED
        BY <2>2, <4>2, <4>3 DEF Entry
    <3>2. (Len(data) - 1) + 1 = Len(data) /\ Len(data) - 1 \in 0 .. Len(data) - 1
      BY <1>5
    <3>3. o \in DOMAIN index /\ index[o] = Place(Len(data) - 1)
      BY <2>2 DEF UnderWay
    <3>4. AnsweredAt(o, Len(data) - 1)'
      BY <1>4, <2>2, <3>1, <3>2, <3>3 DEF AnsweredAt
    <3> QED
      BY <3>2, <3>4
  <2> QED
    BY <1>4, <2>1, <2>2
<1> QED
  BY <1>6, <1>7, <1>9, <1>10, <1>11

LEMMA AppendIndexFailsIInv ==
    ASSUME IInv, AppendIndexFails
    PROVE  IInv'
<1> USE DEF IInv, AppendIndexFails
<1>1. indexFile' = indexFile \/ indexFile' = Append(indexFile, Torn)
  <2>1. PICK written \in ReachedPart : indexFile' = indexFile \o written
    OBVIOUS
  <2>2. indexFile \o <<>> = indexFile /\ indexFile \o <<Torn>> = Append(indexFile, Torn)
    BY DEF TypeOK, Files
  <2> QED
    BY <2>1, <2>2 DEF ReachedPart
<1>2. indexFile \in Files /\ Torn \in EntryRec \cup {Torn}
  BY DEF TypeOK
<1>3. /\ indexFile' \in Files /\ Increasing(indexFile')
      /\ Aligned(indexFile') = Aligned(indexFile)
      /\ \A k \in Aligned(indexFile) : indexFile'[k] = indexFile[k]
      /\ Misaligned(indexFile') = {} => Misaligned(indexFile) = {}
  <2>1. CASE indexFile' = indexFile
    BY <1>2, <2>1 DEF FileSorted
  <2>2. CASE indexFile' = Append(indexFile, Torn)
    <3>1. indexFile' \in Files
      BY <1>2, <2>2, AlignedGrows
    <3>2. /\ Increasing(indexFile') /\ Aligned(indexFile') = Aligned(indexFile)
          /\ \A k \in Aligned(indexFile) : indexFile'[k] = indexFile[k]
      BY <1>2, <2>2, PieceWritten DEF FileSorted
    <3>3. Misaligned(indexFile') = {} => Misaligned(indexFile) = {}
      BY <1>2, <2>2, MisalignedGrows
    <3> QED
      BY <3>1, <3>2, <3>3
  <2> QED
    BY <1>1, <2>1, <2>2
<1>4. nextOffset \in 1 .. MaxOffset /\ Len(data) \in Nat
  BY DEF TypeOK, UnderWay
<1>5. TypeOK' /\ UnderWay' /\ OnePlacePerOffset'
  BY <1>3 DEF TypeOK, UnderWay, OnePlacePerOffset
<1>6. ASSUME NEW k \in Aligned(indexFile)
      PROVE  /\ indexFile[k].position < Len(data) - 1 /\ indexFile[k].offset < nextOffset - 1
             /\ indexFile[k].position \in Int /\ indexFile[k].offset \in Int
  <2>1. indexFile[k] \in EntryRec
    BY <1>2, AlignedEntries
  <2> QED
    BY <2>1 DEF EntryRec, FileSorted, Written, MemoryAhead, Done
<1>7. FileSorted'
  <2>1. ASSUME NEW k \in Aligned(indexFile') PROVE indexFile'[k].position < Len(data)
    <3>1. k \in Aligned(indexFile) /\ indexFile'[k] = indexFile[k]
      BY <1>3
    <3>2. indexFile[k].position < Len(data) - 1 /\ indexFile[k].position \in Int
      BY <1>6, <3>1
    <3> HIDE DEF AppendIndexFails, IInv
    <3> QED
      BY <1>4, <3>1, <3>2
  <2>2. data' = data /\ holder' = Free
    OBVIOUS
  <2> QED
    BY <1>3, <2>1, <2>2 DEF FileSorted, Written
<1>8. MemoryAhead'
  <2>1. ASSUME NEW k \in Aligned(indexFile') PROVE indexFile'[k].offset < nextOffset
    <3>1. k \in Aligned(indexFile) /\ indexFile'[k] = indexFile[k]
      BY <1>3
    <3>2. indexFile[k].offset < nextOffset - 1 /\ indexFile[k].offset \in Int
      BY <1>6, <3>1
    <3> HIDE DEF AppendIndexFails, IInv
    <3> QED
      BY <1>4, <3>1, <3>2
  <2>2. \A o \in DOMAIN answered : o < nextOffset
    BY <1>4 DEF MemoryAhead, Done, TypeOK
  <2> QED
    BY <2>1, <2>2 DEF MemoryAhead, Done
<1>9. Answers'
  <2> SUFFICES ASSUME NEW o \in DOMAIN answered
               PROVE  \E q \in 0 .. Len(data) - 1 : AnsweredAt(o, q)'
    BY DEF Answers
  <2>1. PICK q \in 0 .. Len(data) - 1 : AnsweredAt(o, q)
    BY DEF Answers
  <2>2. AnsweredAt(o, q)'
    BY <1>3, <2>1 DEF AnsweredAt
  <2> QED
    BY <2>2
<1> QED
  BY <1>5, <1>7, <1>8, <1>9

LEMMA CleanupExpiredIInv ==
    ASSUME IInv, CleanupExpired
    PROVE  IInv'
<1> USE DEF IInv, CleanupExpired
<1>1. TypeOK' /\ UnderWay' /\ FileSorted' /\ OnePlacePerOffset'
  BY DEF TypeOK, UnderWay, FileSorted, Written, OnePlacePerOffset
<1>2. MemoryAhead'
  BY DEF MemoryAhead, Done
<1>3. Answers'
  BY DEF Answers, AnsweredAt
<1> QED
  BY <1>1, <1>2, <1>3

-----------------------------------------------------------------------------
(* Crash and start *)

LEMMA CrashIInv ==
    ASSUME IInv, Crash
    PROVE  IInv'
<1> USE DEF IInv
<1>1. /\ data' \in Seq(Record \cup {Torn})
      /\ Len(data) \in Nat /\ Len(data') \in Nat /\ Len(data') >= Len(data)
      /\ \A q \in 0 .. Len(data) - 1 : data'[q + 1] = data[q + 1]
  <2>1. PICK r \in Record : \E written \in Reached(r) :
           data' = IF holder = Free /\ Len(data) < MaxData THEN data \o written ELSE data
    BY DEF Crash
  <2>2. PICK written \in Reached(r) :
           data' = IF holder = Free /\ Len(data) < MaxData THEN data \o written ELSE data
    BY <2>1
  <2>3. CASE data' = data \o written
    BY <2>3, DataWritten
  <2>4. CASE data' = data
    BY <2>4 DEF TypeOK
  <2> QED
    BY <2>2, <2>3, <2>4
<1>2. indexFile' \in {indexFile, Append(indexFile, Torn), Append(indexFile, Entry)}
      /\ (indexFile' # indexFile => holder = Appending)
  <2>1. PICK written \in Reached(Entry) :
           indexFile' = IF holder = Appending THEN indexFile \o written ELSE indexFile
    BY DEF Crash
  <2>2. CASE holder = Appending
    <3>1. indexFile \in Seq(EntryRec \cup {Torn}) /\ Entry \in EntryRec \cup {Torn}
      BY <2>2, EntryBehind DEF TypeOK, Files
    <3> QED
      BY <2>1, <2>2, <3>1, WriteReaches
  <2> QED
    BY <2>1, <2>2
<1>3. indexFile \in Files /\ Torn \in EntryRec \cup {Torn}
  BY DEF TypeOK
<1>4. ASSUME NEW k \in Aligned(indexFile)
      PROVE  indexFile[k].position \in Int /\ indexFile[k].position < Len(data)
  <2>1. indexFile[k] \in EntryRec
    BY <1>3, AlignedEntries
  <2> QED
    BY <1>1, <2>1 DEF EntryRec, FileSorted, Written
<1>5. /\ indexFile' \in Files /\ Increasing(indexFile')
      /\ \A k \in Aligned(indexFile) : k \in Aligned(indexFile') /\ indexFile'[k] = indexFile[k]
      /\ Misaligned(indexFile') = {} => Misaligned(indexFile) = {}
      /\ \A k \in Aligned(indexFile') : indexFile'[k].position < Len(data)
                                     /\ indexFile'[k].position \in Int
  <2>1. CASE indexFile' = indexFile
    BY <1>3, <1>4, <2>1 DEF FileSorted
  <2>2. CASE indexFile' = Append(indexFile, Torn)
    <3>1. indexFile' \in Files
      BY <1>3, <2>2, AlignedGrows
    <3>2. /\ Increasing(indexFile') /\ Aligned(indexFile') = Aligned(indexFile)
          /\ \A k \in Aligned(indexFile) : indexFile'[k] = indexFile[k]
      BY <1>3, <2>2, PieceWritten DEF FileSorted
    <3>3. Misaligned(indexFile') = {} => Misaligned(indexFile) = {}
      BY <1>3, <2>2, MisalignedGrows
    <3> QED
      BY <1>4, <3>1, <3>2, <3>3
  <2>3. CASE indexFile' = Append(indexFile, Entry) /\ holder = Appending
    <3>1. /\ Entry \in EntryRec /\ Entry \in EntryRec \cup {Torn}
          /\ Entry.position = Len(data) - 1
          /\ \A k \in Aligned(indexFile) : /\ indexFile[k].offset < Entry.offset
                                         /\ indexFile[k].position < Entry.position
      BY <2>3, EntryBehind
    <3>2. indexFile' \in Files
      BY <1>3, <2>3, <3>1, AlignedGrows
    <3>3. /\ Increasing(indexFile')
          /\ \A k \in Aligned(indexFile') : indexFile'[k].position <= Len(data) - 1
      BY <1>3, <2>3, <3>1, EntryWritten DEF FileSorted
    <3>4. \A k \in Aligned(indexFile) : k \in Aligned(indexFile') /\ indexFile'[k] = indexFile[k]
      BY <1>3, <2>3, <3>1, AlignedKept
    <3>5. Misaligned(indexFile') = {} => Misaligned(indexFile) = {}
      BY <1>3, <2>3, <3>1, MisalignedGrows
    <3>6. ASSUME NEW k \in Aligned(indexFile')
          PROVE  indexFile'[k].position < Len(data) /\ indexFile'[k].position \in Int
      <4>1. indexFile'[k] \in EntryRec
        BY <3>2, AlignedEntries
      <4>2. indexFile'[k].position \in Int /\ indexFile'[k].position <= Len(data) - 1
        BY <3>3, <4>1 DEF EntryRec
      <4> QED
        BY <1>1, <4>2
    <3> QED
      BY <3>2, <3>3, <3>4, <3>5, <3>6
  <2> QED
    BY <1>2, <2>1, <2>2, <2>3
<1>6. index' = <<>> /\ nextOffset' = 0 /\ holder' = Down /\ UNCHANGED <<answered, restarts>>
  BY DEF Crash
<1>7. TypeOK'
  BY <1>1, <1>5, <1>6, AppendLogAssumption DEF TypeOK
<1>8. UnderWay' /\ MemoryAhead' /\ OnePlacePerOffset'
  BY <1>6 DEF UnderWay, MemoryAhead, OnePlacePerOffset
<1>9. FileSorted'
  <2>1. ASSUME NEW k \in Aligned(indexFile') PROVE indexFile'[k].position < Len(data')
    BY <1>1, <1>5
  <2> QED
    BY <1>5, <1>6, <2>1 DEF FileSorted, Written
<1>10. Answers'
  <2> SUFFICES ASSUME NEW o \in DOMAIN answered
               PROVE  \E q \in 0 .. Len(data') - 1 : AnsweredAt(o, q)'
    BY <1>6 DEF Answers
  <2>1. PICK q \in 0 .. Len(data) - 1 : AnsweredAt(o, q)
    BY DEF Answers
  <2>2. q \in 0 .. Len(data') - 1 /\ data'[q + 1] = data[q + 1]
    BY <1>1
  <2>3. AnsweredAt(o, q)'
    BY <1>5, <1>6, <2>1, <2>2 DEF AnsweredAt
  <2> QED
    BY <2>2, <2>3
<1> QED
  BY <1>7, <1>8, <1>9, <1>10

\* Entries of the same offset, or the same position, are the same entry.
LEMMA SameEntry ==
    ASSUME IInv, NEW j \in Aligned(indexFile), NEW k \in Aligned(indexFile),
           \/ indexFile[j].offset = indexFile[k].offset
           \/ indexFile[j].position = indexFile[k].position
    PROVE  j = k
<1>1. indexFile[j] \in EntryRec /\ indexFile[k] \in EntryRec
  BY AlignedEntries DEF IInv, TypeOK
<1>2. /\ indexFile[j].offset \in Int /\ indexFile[k].offset \in Int
      /\ indexFile[j].position \in Int /\ indexFile[k].position \in Int
  BY <1>1, AppendLogAssumption DEF EntryRec
<1>3. j \in Nat /\ k \in Nat
  BY DEF IInv, TypeOK, Files, Aligned
<1>4. ~(j < k)
  BY <1>2 DEF IInv, FileSorted, Increasing
<1>5. ~(k < j)
  BY <1>2 DEF IInv, FileSorted, Increasing
<1> QED
  BY <1>3, <1>4, <1>5

LEMMA IndexedPlaceOf ==
    ASSUME IInv, NEW k \in Aligned(indexFile)
    PROVE  IndexedPlace(indexFile[k].offset) = Place(indexFile[k].position)
<1> DEFINE o == indexFile[k].offset
           L(i) == /\ indexFile[i].offset = o
                   /\ \A j \in Aligned(indexFile) : indexFile[j].offset = o => j <= i
<1>1. k \in Nat
  BY DEF IInv, TypeOK, Files, Aligned
<1>2. L(k)
  BY <1>1, SameEntry
<1>3. \A i \in Aligned(indexFile) : L(i) => i = k
  BY SameEntry
<1>4. (CHOOSE i \in Aligned(indexFile) : L(i)) = k
  BY <1>2, <1>3
<1> QED
  BY <1>4 DEF IndexedPlace

\* What loadIndex finds in the file, beside what misaligned entries say.
LEMMA Loaded ==
    ASSUME IInv, holder = Down, NEW o \in Indexed
    PROVE  \E k \in Aligned(indexFile) :
              /\ indexFile[k].offset = o /\ indexFile[k].offset \in 0 .. MaxOffset
              /\ indexFile[k].position \in Nat /\ indexFile[k].position < Len(data)
              /\ IndexedPlace(o) = Place(indexFile[k].position)
<1>1. PICK k \in Aligned(indexFile) : indexFile[k].offset = o
  BY DEF Indexed
<1>2. indexFile[k] \in EntryRec
  BY AlignedEntries DEF IInv, TypeOK
<1>3. indexFile[k].position < Len(data)
  BY DEF IInv, FileSorted, Written
<1>4. IndexedPlace(o) = Place(indexFile[k].position)
  BY <1>1, IndexedPlaceOf
<1> QED
  BY <1>1, <1>2, <1>3, <1>4 DEF EntryRec

LEMMA NextAfterAll ==
    ASSUME NEW S \in SUBSET (0 .. MaxOffset)
    PROVE  NextAfter(S) \in 0 .. MaxOffset + 1 /\ \A o \in S : o < NextAfter(S)
<1>1. CASE S = {}
  BY <1>1, AppendLogAssumption DEF NextAfter
<1>2. CASE S # {}
  <2> DEFINE n == CHOOSE n \in S : \A o \in S : o <= n
  <2>1. \E x \in S : \A y \in S : y <= x
    BY <1>2, GreatestOffset, AppendLogAssumption
  <2>2. n \in S /\ \A o \in S : o <= n
    BY <2>1
  <2>3. NextAfter(S) = 1 + n
    BY <1>2 DEF NextAfter
  <2> HIDE DEF n
  <2> QED
    BY <2>2, <2>3, AppendLogAssumption
<1> QED
  BY <1>1, <1>2

\* A start that reads no misaligned entry makes nothing up.
LEMMA NoGarbage ==
    ASSUME NEW garbage \in SUBSET Offset, Misaligned(indexFile) = {},
           Cardinality(garbage) <= Cardinality(Misaligned(indexFile))
    PROVE  garbage = {}
<1>1. IsFiniteSet(garbage)
  <2>1. 0 \in Int /\ MaxOffset \in Int
    BY AppendLogAssumption
  <2>2. IsFiniteSet(0 .. MaxOffset)
    BY <2>1, FS_Interval
  <2> QED
    BY <2>2, FS_Subset DEF Offset
<1>2. Cardinality(Misaligned(indexFile)) = 0
  BY FS_EmptySet
<1>3. Cardinality(garbage) \in Nat
  BY <1>1, FS_CardinalityType
<1>4. Cardinality(garbage) = 0
  BY <1>2, <1>3
<1> QED
  BY <1>1, <1>4, FS_EmptySet

LEMMA LoadIndexIInv ==
    ASSUME IInv, NEW garbage \in SUBSET Offset, LoadIndex(garbage)
    PROVE  IInv'
<1> DEFINE S == Indexed \cup garbage
<1>1. /\ holder = Down /\ holder' = Free /\ data' = data /\ indexFile' = indexFile
      /\ DOMAIN index' = S
      /\ \A o \in S : index'[o] = IF o \in garbage THEN -1 ELSE IndexedPlace(o)
      /\ nextOffset' = NextAfter(S)
      /\ index' = [o \in S |-> index'[o]]
      /\ answered' = IF Misaligned(indexFile) = {} THEN answered ELSE <<>>
      /\ restarts' = restarts + 1
  BY DEF LoadIndex
<1>2. S \in SUBSET (0 .. MaxOffset)
  BY <1>1, Loaded DEF Offset
<1>3. nextOffset' \in 0 .. MaxOffset + 1 /\ \A o \in S : o < nextOffset'
  BY <1>1, <1>2, NextAfterAll
<1>4. Len(data) \in Nat
  BY DEF IInv, TypeOK
<1>5. ASSUME NEW o \in S
      PROVE  index'[o] \in Int /\ index'[o] < Len(data)
  <2>1. CASE o \in garbage
    BY <1>1, <1>4, <2>1
  <2>2. CASE o \notin garbage
    <3>1. PICK k \in Aligned(indexFile) :
             /\ indexFile[k].position \in Nat /\ indexFile[k].position < Len(data)
             /\ IndexedPlace(o) = Place(indexFile[k].position)
      BY <1>1, <2>2, Loaded
    <3>2. index'[o] = Place(indexFile[k].position)
      BY <1>1, <2>2, <3>1
    <3>3. Place(indexFile[k].position) \in Int
          /\ Place(indexFile[k].position) <= indexFile[k].position
      BY <3>1, PlaceOfPosition
    <3> QED
      BY <1>4, <3>1, <3>2, <3>3
  <2> QED
    BY <2>1, <2>2
<1>6. Misaligned(indexFile) # {} => DOMAIN answered' = {}
  BY <1>1
<1>7. ASSUME Misaligned(indexFile) = {}, NEW o \in DOMAIN answered
      PROVE  \E q \in 0 .. Len(data) - 1 :
                /\ o \in Indexed /\ data[q + 1] = answered[o] /\ index'[o] = Place(q)
                /\ \E k \in Aligned(indexFile) : indexFile[k] = [offset |-> o, position |-> q]
  <2>1. PICK q \in 0 .. Len(data) - 1 : AnsweredAt(o, q)
    BY DEF IInv, Answers
  <2>2. PICK k \in Aligned(indexFile) : indexFile[k] = [offset |-> o, position |-> q]
    BY <1>7, <2>1 DEF AnsweredAt
  <2>3. o \in Indexed /\ IndexedPlace(o) = Place(q)
    BY <2>2, IndexedPlaceOf DEF Indexed
  <2>4. garbage = {}
    BY <1>7, NoGarbage DEF LoadIndex
  <2>5. index'[o] = Place(q)
    BY <1>1, <2>3, <2>4
  <2> QED
    BY <2>1, <2>2, <2>3, <2>5 DEF AnsweredAt
<1>8. TypeOK'
  <2>1. answered' \in [DOMAIN answered' -> Record] /\ DOMAIN answered' \subseteq Nat
    BY <1>1 DEF IInv, TypeOK
  <2>2. index' \in [DOMAIN index' -> Int] /\ DOMAIN index' \subseteq Nat
    BY <1>1, <1>2, <1>5
  <2> QED
    BY <1>1, <1>3, <2>1, <2>2 DEF IInv, TypeOK
<1>9. UnderWay'
  BY <1>1 DEF UnderWay
<1>10. FileSorted'
  BY <1>1 DEF IInv, FileSorted, Written
<1>11. MemoryAhead'
  <2>1. \A o \in DOMAIN index' : o < nextOffset' /\ index'[o] < Len(data)
    BY <1>1, <1>3, <1>5
  <2>2. \A k \in Aligned(indexFile) : indexFile[k].offset < nextOffset'
    BY <1>3 DEF Indexed
  <2>3. \A o \in DOMAIN answered' : o < nextOffset'
    BY <1>1, <1>3, <1>6, <1>7
  <2> QED
    BY <1>1, <2>1, <2>2, <2>3 DEF MemoryAhead, Done
<1>12. Answers'
  <2> SUFFICES ASSUME NEW o \in DOMAIN answered'
               PROVE  \E q \in 0 .. Len(data) - 1 : AnsweredAt(o, q)'
    BY <1>1 DEF Answers
  <2>1. Misaligned(indexFile) = {} /\ answered' = answered
    BY <1>1, <1>6
  <2>2. PICK q \in 0 .. Len(data) - 1 :
           /\ o \in Indexed /\ data[q + 1] = answered[o] /\ index'[o] = Place(q)
           /\ \E k \in Aligned(indexFile) : indexFile[k] = [offset |-> o, position |-> q]
    BY <1>7, <2>1
  <2>3. AnsweredAt(o, q)'
    BY <1>1, <2>1, <2>2 DEF AnsweredAt
  <2> QED
    BY <2>3
<1>13. OnePlacePerOffset'
  <2> SUFFICES ASSUME Len(data) <= 2 * Half, NEW o \in S, NEW p \in S,
                      index'[o] = index'[p], index'[o] >= 0
               PROVE  o = p
    BY <1>1 DEF OnePlacePerOffset
  <2>1. o \notin garbage /\ p \notin garbage /\ o \in Indexed /\ p \in Indexed
    BY <1>1
  <2>2. PICK j \in Aligned(indexFile) :
           /\ indexFile[j].offset = o
           /\ indexFile[j].position \in Nat /\ indexFile[j].position < Len(data)
           /\ IndexedPlace(o) = Place(indexFile[j].position)
    BY <1>1, <2>1, Loaded
  <2>3. PICK k \in Aligned(indexFile) :
           /\ indexFile[k].offset = p
           /\ indexFile[k].position \in Nat /\ indexFile[k].position < Len(data)
           /\ IndexedPlace(p) = Place(indexFile[k].position)
    BY <1>1, <2>1, Loaded
  <2>4. index'[o] = indexFile[j].position
    <3>1. index'[o] = Place(indexFile[j].position)
      BY <1>1, <2>1, <2>2
    <3>2. indexFile[j].position < 2 * Half
      BY <1>4, <2>2, AppendLogAssumption
    <3> QED
      BY <2>2, <3>1, <3>2, PlaceOfPosition
  <2>5. index'[p] = indexFile[k].position
    <3>1. index'[p] = Place(indexFile[k].position)
      BY <1>1, <2>1, <2>3
    <3>2. indexFile[k].position < 2 * Half
      BY <1>4, <2>3, AppendLogAssumption
    <3> QED
      BY <2>3, <3>1, <3>2, PlaceOfPosition
  <2>6. j = k
    BY <2>4, <2>5, SameEntry
  <2> QED
    BY <2>2, <2>3, <2>6
<1> QED
  BY <1>8, <1>9, <1>10, <1>11, <1>12, <1>13 DEF IInv

-----------------------------------------------------------------------------
LEMMA NextIInv ==
    ASSUME IInv, [Next]_vars
    PROVE  IInv'
<1>1. ASSUME NEW r \in Record, AppendRecord(r) PROVE IInv'
  BY <1>1, AppendRecordIInv
<1>2. ASSUME NEW r \in Record, AppendRecordFails(r) PROVE IInv'
  BY <1>2, AppendRecordFailsIInv
<1>3. CASE AppendIndex
  BY <1>3, AppendIndexIInv
<1>4. CASE AppendIndexFails
  BY <1>4, AppendIndexFailsIInv
<1>5. CASE CleanupExpired
  BY <1>5, CleanupExpiredIInv
<1>6. CASE Crash
  BY <1>6, CrashIInv
<1>7. ASSUME NEW garbage \in SUBSET Offset, LoadIndex(garbage) PROVE IInv'
  BY <1>7, LoadIndexIInv
<1>8. CASE UNCHANGED vars
  <2>1. TypeOK'
    BY <1>8 DEF vars, IInv, TypeOK
  <2>2. UnderWay' /\ FileSorted' /\ OnePlacePerOffset'
    BY <1>8 DEF vars, IInv, UnderWay, FileSorted, Written, OnePlacePerOffset
  <2>3. MemoryAhead'
    BY <1>8 DEF vars, IInv, MemoryAhead, Done
  <2>4. Answers'
    <3>1. /\ data' = data /\ indexFile' = indexFile /\ index' = index
          /\ holder' = holder /\ answered' = answered
      BY <1>8 DEF vars
    <3>2. ASSUME NEW o \in DOMAIN answered
          PROVE  \E q \in 0 .. Len(data') - 1 : AnsweredAt(o, q)'
      <4>1. PICK q \in 0 .. Len(data) - 1 : AnsweredAt(o, q)
        BY DEF IInv, Answers
      <4>2. AnsweredAt(o, q)'
        BY <3>1, <4>1 DEF AnsweredAt
      <4> QED
        BY <3>1, <4>1, <4>2
    <3> QED
      BY <3>1, <3>2 DEF Answers
  <2> QED
    BY <2>1, <2>2, <2>3, <2>4 DEF IInv
<1> QED
  BY <1>1, <1>2, <1>3, <1>4, <1>5, <1>6, <1>7, <1>8 DEF Next

LEMMA Invariance == Spec => []IInv
<1>1. Init => IInv
  BY InitIInv
<1>2. IInv /\ [Next]_vars => IInv'
  BY NextIInv
<1> QED
  BY <1>1, <1>2, PTL DEF Spec

\* No two offsets of a partition up to 4 GiB lead to one record, whatever writes
\* failed, however they were cut short, and through any number of starts.
THEOREM OffsetsApart == Spec => []OnePlacePerOffset
<1>1. IInv => OnePlacePerOffset
  BY DEF IInv
<1> QED
  BY <1>1, Invariance, PTL

\* An answered append can be read up to 4 GiB: Read returns its record, or an
\* error at a position beyond 2 GiB, and never another message.
THEOREM AnswersReadable == Spec => []AnsweredReadable
<1>1. ASSUME IInv PROVE AnsweredReadable
  <2> SUFFICES ASSUME holder # Down, Len(data) <= 2 * Half,
                      NEW o \in DOMAIN answered, index[o] >= 0
               PROVE  Read(o) = answered[o]
    BY DEF AnsweredReadable
  <2>1. PICK q \in 0 .. Len(data) - 1 : AnsweredAt(o, q)
    BY <1>1 DEF IInv, Answers
  <2>2. Len(data) \in Nat /\ q \in Nat /\ q < 2 * Half
    BY <1>1, AppendLogAssumption DEF IInv, TypeOK
  <2>3. o \in DOMAIN index /\ index[o] = Place(q) /\ data[q + 1] = answered[o]
    BY <2>1 DEF AnsweredAt
  <2>4. index[o] = q
    BY <2>2, <2>3, PlaceOfPosition
  <2>5. answered[o] \in Record /\ answered[o] # Torn
    BY <1>1, AppendLogAssumption DEF IInv, TypeOK
  <2> QED
    BY <2>3, <2>4, <2>5 DEF Read
<1> QED
  BY <1>1, Invariance, PTL

-----------------------------------------------------------------------------
(* The log implements OffsetLog *)

ServedHere == IF Sound THEN [o \in DOMAIN answered |-> data[Found(o) + 1]] ELSE <<>>

\* In an intact log what is served is what was answered.
LEMMA ServedIsAnswered ==
    IInv /\ Sound => ServedHere = answered
<1> SUFFICES ASSUME IInv, Sound PROVE ServedHere = answered
  OBVIOUS
<1>1. ASSUME NEW o \in DOMAIN answered PROVE data[Found(o) + 1] = answered[o]
  <2>1. PICK q \in 0 .. Len(data) - 1 : AnsweredAt(o, q)
    BY DEF IInv, Answers
  <2>2. Len(data) \in Nat /\ Len(data) <= Half /\ q \in Nat /\ q < Half
    BY AppendLogAssumption DEF IInv, TypeOK, Sound
  <2>3. Place(q) = q
    BY <2>2, PlaceOfPosition
  <2>4. PICK k \in Aligned(indexFile) : indexFile[k] = [offset |-> o, position |-> q]
    BY <2>1 DEF AnsweredAt, Sound
  <2>5. IndexedPlace(o) = Place(q)
    BY <2>4, IndexedPlaceOf
  <2>6. Found(o) = q
    BY <2>1, <2>3, <2>5 DEF Found, AnsweredAt
  <2> QED
    BY <2>1, <2>6 DEF AnsweredAt
<1>2. answered = [o \in DOMAIN answered |-> answered[o]]
  BY DEF IInv, TypeOK
<1> QED
  BY <1>1, <1>2 DEF ServedHere

\* A log that is not intact is never intact again.
LEMMA SoundBefore ==
    ASSUME IInv, [Next]_vars, Sound'
    PROVE  Sound
<1>1. Len(data) \in Nat /\ Half \in Nat /\ Misaligned(indexFile') = {} /\ Len(data') <= Half
  BY AppendLogAssumption DEF IInv, TypeOK, Sound
<1>2. Misaligned(indexFile) = {} /\ Len(data') \in Nat /\ Len(data) <= Len(data')
  <2>1. CASE data' = data /\ indexFile' = indexFile
    BY <1>1, <2>1
  <2>2. ASSUME NEW r \in Record, AppendRecord(r) PROVE <1>2
    <3>1. indexFile' = indexFile /\ data' = Append(data, r) /\ data \in Seq(Record \cup {Torn})
      BY <2>2 DEF AppendRecord, IInv, TypeOK
    <3> QED
      BY <1>1, <3>1
  <2>3. ASSUME NEW r \in Record, AppendRecordFails(r) PROVE <1>2
    <3>1. indexFile' = indexFile
      BY <2>3 DEF AppendRecordFails
    <3>2. PICK written \in Reached(r) : data' = data \o written
      BY <2>3 DEF AppendRecordFails
    <3>3. Len(data') \in Nat /\ Len(data) <= Len(data')
      BY <3>2, DataWritten
    <3> QED
      BY <1>1, <3>1, <3>3
  <2>4. CASE AppendIndex
    <3>1. indexFile \in Files /\ Entry \in EntryRec \cup {Torn}
      BY <2>4, EntryBehind DEF AppendIndex, IInv, TypeOK
    <3>2. data' = data /\ indexFile' = Append(indexFile, Entry)
      BY <2>4 DEF AppendIndex
    <3>3. Misaligned(indexFile) = {}
      BY <1>1, <3>1, <3>2, MisalignedGrows
    <3> QED
      BY <1>1, <3>2, <3>3
  <2>5. CASE AppendIndexFails
    <3>1. indexFile \in Files /\ Torn \in EntryRec \cup {Torn}
      BY DEF IInv, TypeOK
    <3>2. PICK written \in ReachedPart : indexFile' = indexFile \o written
      BY <2>5 DEF AppendIndexFails
    <3>3. indexFile' \in {indexFile, Append(indexFile, Torn)}
      BY <3>1, <3>2 DEF ReachedPart, Files
    <3>4. data' = data
      BY <2>5 DEF AppendIndexFails
    <3> QED
      BY <1>1, <3>1, <3>3, <3>4, MisalignedGrows
  <2>6. CASE Crash
    <3>1. PICK r \in Record : \E written \in Reached(r) :
             data' = IF holder = Free /\ Len(data) < MaxData THEN data \o written ELSE data
      BY <2>6 DEF Crash
    <3>2. PICK written \in Reached(r) : data' = data \o written \/ data' = data
      BY <3>1
    <3>3. Len(data') \in Nat /\ Len(data) <= Len(data')
      BY <1>1, <3>2, DataWritten
    <3>4. indexFile \in Files /\ indexFile \in Seq(EntryRec \cup {Torn})
          /\ Torn \in EntryRec \cup {Torn}
      BY DEF IInv, TypeOK, Files
    <3>5. CASE holder = Appending
      <4>1. Entry \in EntryRec \cup {Torn}
        BY <3>5, EntryBehind
      <4>2. PICK part \in Reached(Entry) : indexFile' = indexFile \o part
        BY <2>6, <3>5 DEF Crash
      <4>3. indexFile' \in {indexFile, Append(indexFile, Torn), Append(indexFile, Entry)}
        BY <3>4, <4>1, <4>2, WriteReaches
      <4> QED
        BY <1>1, <3>3, <3>4, <4>1, <4>3, MisalignedGrows
    <3>6. CASE holder # Appending
      <4>1. indexFile' = indexFile
        BY <2>6, <3>6 DEF Crash
      <4> QED
        BY <1>1, <3>3, <4>1
    <3> QED
      BY <3>5, <3>6
  <2>7. CASE CleanupExpired
    BY <1>1, <2>7 DEF CleanupExpired
  <2>8. ASSUME NEW garbage \in SUBSET Offset, LoadIndex(garbage) PROVE <1>2
    BY <1>1, <2>8 DEF LoadIndex
  <2> QED
    BY <2>1, <2>2, <2>3, <2>4, <2>5, <2>6, <2>7, <2>8 DEF Next, vars
<1> QED
  BY <1>1, <1>2 DEF Sound

\* Only the last step of Append answers, and an intact log forgets nothing.
LEMMA AnsweredKept ==
    ASSUME [Next]_vars, ~AppendIndex, Sound'
    PROVE  answered' = answered
<1>1. ASSUME NEW r \in Record, AppendRecord(r) \/ AppendRecordFails(r) PROVE answered' = answered
  BY <1>1 DEF AppendRecord, AppendRecordFails
<1>2. CASE AppendIndexFails \/ CleanupExpired \/ Crash
  BY <1>2 DEF AppendIndexFails, CleanupExpired, Crash
<1>3. ASSUME NEW garbage \in SUBSET Offset, LoadIndex(garbage) PROVE answered' = answered
  BY <1>3 DEF LoadIndex, Sound
<1>4. CASE UNCHANGED vars
  BY <1>4 DEF vars
<1> QED
  BY <1>1, <1>2, <1>3, <1>4 DEF Next

\* The log implements OffsetLog: an answer has an offset above all before it,
\* and what is read there changes in no later step, for files of any length
\* that no torn index entry and no position beyond 2 GiB has spoiled.
THEOREM LogImplementsOffsetLog == Spec => OffsetLogSpec
<1>1. ASSUME Init PROVE Promise!Init
  <2>1. DOMAIN answered = {} /\ Len(data) = 0 /\ Misaligned(indexFile) = {}
    BY <1>1 DEF Init, Misaligned
  <2>2. Sound
    BY <2>1, AppendLogAssumption DEF Sound
  <2>3. [o \in DOMAIN answered |-> data[Found(o) + 1]] = <<>>
    BY <2>1
  <2> QED
    BY <2>2, <2>3 DEF Promise!Init
<1>2. (IInv /\ Sound => ServedHere = answered)'
  BY ServedIsAnswered, PTL
<1>3. ASSUME IInv, IInv', [Next]_vars
      PROVE  [Promise!Next]_<<ServedHere, Sound>>
  <2>1. CASE ~Sound'
    <3>1. Sound' = FALSE /\ ServedHere' = <<>>
      BY <2>1 DEF ServedHere, Sound
    <3> QED
      BY <3>1 DEF Promise!Next, Promise!Lose, ServedHere
  <2>2. CASE Sound'
    <3>1. Sound
      BY <1>3, <2>2, SoundBefore
    <3>2. ServedHere = answered
      BY <1>3, <3>1, ServedIsAnswered
    <3>3. ServedHere' = answered'
      BY <1>2, <1>3, <2>2
    <3>4. CASE AppendIndex
      <4> holder = Appending
        BY <3>4 DEF AppendIndex
      <4>1. /\ nextOffset - 1 \in Offset /\ data[Len(data)] \in Record
            /\ \A p \in DOMAIN answered : p < nextOffset - 1
        <5>1. nextOffset \in 1 .. MaxOffset /\ data[Len(data)] \in Record
          BY <1>3 DEF IInv, UnderWay
        <5>2. \A p \in DOMAIN answered : p < nextOffset - 1
          BY <1>3 DEF IInv, MemoryAhead, Done
        <5> QED
          BY <5>1, <5>2, AppendLogAssumption DEF Offset
      <4>2. answered' = [p \in DOMAIN answered \cup {nextOffset - 1} |->
                            IF p = nextOffset - 1 THEN data[Len(data)] ELSE answered[p]]
        BY <3>4 DEF AppendIndex, Answered, Extend, Entry
      <4> QED
        BY <2>2, <3>1, <3>2, <3>3, <4>1, <4>2 DEF Promise!Next, Promise!Answer, ServedHere
    <3>5. CASE ~AppendIndex
      <4>1. answered' = answered
        BY <1>3, <2>2, <3>5, AnsweredKept
      <4> QED
        BY <2>2, <3>1, <3>2, <3>3, <4>1
    <3> QED
      BY <3>4, <3>5
  <2> QED
    BY <2>1, <2>2
<1> QED
  BY <1>1, <1>3, Invariance, PTL DEF Spec, OffsetLogSpec, Promise!Spec, ServedHere

=============================================================================
