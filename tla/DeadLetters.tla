----------------------------- MODULE DeadLetters -----------------------------
(***************************************************************************)
(* internal/storage/dlq.go and its callers, with failing writes: the       *)
(* letters a process shows its administrators, the file they are kept in,  *)
(* and what a new process finds of them.                                   *)
(*                                                                         *)
(* A letter is known by the number of its entry in the index file, since   *)
(* a message that is resent can be dead-lettered again.  Of the delivery   *)
(* only the in-flight table is kept: what is in it can be nacked.          *)
(***************************************************************************)
EXTENDS IndexFile

CONSTANTS
    Msg,
    MaxFile, MaxRestarts        \* bounds on the exploration

ASSUME DeadLettersAssumption ==
    /\ Torn \notin Msg
    /\ MaxFile \in Nat /\ MaxRestarts \in Nat

VARIABLES
    up,
    inFlight,       \* the messages in the in-flight table
    letters,        \* s.messages: the entry of each message's letter, 0 for none
    indexFile,      \* dlq/index.dat; log.dat is synced before an entry is written
    restarts,
    stored,         \* the last letter of each message that was safe in the file
    taken           \* the last one taken out, by this process

ghosts == <<stored, taken>>
vars == <<up, inFlight, letters, indexFile, restarts, ghosts>>

NoLetters == [m \in Msg |-> 0]

Init ==
    /\ up = TRUE
    /\ inFlight = {}
    /\ letters = NoLetters
    /\ indexFile = <<>>
    /\ restarts = 0
    /\ stored = NoLetters /\ taken = NoLetters

-----------------------------------------------------------------------------
(* Delivery and settlement *)

\* A message can be delivered at any time, once more too: by a scan that a stale
\* offset has moved back, or by a waiting call that still has the object, even
\* when the message has become a dead letter.
Deliver(m) ==
    /\ up
    /\ m \notin inFlight
    /\ inFlight' = inFlight \cup {m}
    /\ UNCHANGED <<up, letters, indexFile, restarts, ghosts>>

\* An ack, a nack with retries left or a sweep takes the message out of the table
\* first.  Whether its record is then written or not, the store does not change.
Settle(m) ==
    /\ up
    /\ m \in inFlight
    /\ inFlight' = inFlight \ {m}
    /\ UNCHANGED <<up, letters, indexFile, restarts, ghosts>>

\* The last nack, with DLQStore.Add.  The entry is safe unless there is a piece
\* of another one before it.
NackDLQ(m) ==
    LET entry == Len(indexFile) + 1
    IN  /\ up
        /\ m \in inFlight
        /\ Len(indexFile) < MaxFile
        /\ inFlight' = inFlight \ {m}
        /\ indexFile' = Append(indexFile, m)
        /\ letters' = [letters EXCEPT ![m] = entry]
        /\ stored' = IF Intact(indexFile) THEN [stored EXCEPT ![m] = entry] ELSE stored
        /\ UNCHANGED <<up, restarts, taken>>

\* Add returns an error, which Nack only logs.
NackDLQFails(m) ==
    /\ up
    /\ m \in inFlight
    /\ Len(indexFile) < MaxFile
    /\ inFlight' = inFlight \ {m}
    /\ \E written \in ReachedPart : indexFile' = indexFile \o written
    /\ UNCHANGED <<up, letters, restarts, ghosts>>

-----------------------------------------------------------------------------
(* The administrators and the clean-up *)

\* Mutant: the letter is looked up and stays in the map.
ResendGet(m) ==
    /\ up
    /\ letters[m] # 0
    /\ taken' = [taken EXCEPT ![m] = letters[m]]
    /\ UNCHANGED <<up, inFlight, letters, indexFile, restarts, stored>>

\* Only the map forgets the letter, not the file.  What the resend does then does
\* not concern the store: the letter is gone also when the append fails.
ResendRemove(m) ==
    /\ up
    /\ letters[m] # 0
    /\ letters' = [letters EXCEPT ![m] = 0]
    /\ taken' = [taken EXCEPT ![m] = letters[m]]
    /\ UNCHANGED <<up, inFlight, indexFile, restarts, stored>>

\* The letters whose last state is more than 30 days old leave the map, where the
\* background task comes this far: the log's clean-up before it may not end.
CleanupExpired(old) ==
    /\ up
    /\ old # {} /\ \A m \in old : letters[m] # 0
    /\ letters' = [m \in Msg |-> IF m \in old THEN 0 ELSE letters[m]]
    /\ taken' = [m \in Msg |-> IF m \in old THEN letters[m] ELSE taken[m]]
    /\ UNCHANGED <<up, inFlight, indexFile, restarts, stored>>

-----------------------------------------------------------------------------
(* Crash and start *)

\* The process dies, perhaps inside Add, whose letter is then perhaps in the file.
Crash ==
    /\ up
    /\ restarts < MaxRestarts
    /\ up' = FALSE
    /\ \/ UNCHANGED indexFile
       \/ /\ Len(indexFile) < MaxFile
          /\ \E m \in inFlight : \E written \in Reached(m) : indexFile' = indexFile \o written
    /\ inFlight' = {} /\ letters' = NoLetters /\ taken' = NoLetters
    /\ UNCHANGED <<restarts, stored>>

\* The entries that lead to a letter of m.  Misaligned ones lead to none that can
\* be read.
Entries(m) == {k \in Aligned(indexFile) : indexFile[k] = m}

\* Mutant: a letter that is in the map already is not replaced.
LoadsFirst(m, entry) ==
    IF Entries(m) = {} THEN entry = 0
    ELSE entry \in Entries(m) /\ \A k \in Entries(m) : k >= entry

\* load: a later entry replaces an earlier one.
Loads(m, entry) ==
    IF Entries(m) = {} THEN entry = 0
    ELSE entry \in Entries(m) /\ \A k \in Entries(m) : k <= entry

Start ==
    /\ ~up
    /\ up' = TRUE
    /\ letters' \in [Msg -> 0 .. Len(indexFile)]
    /\ \A m \in Msg : Loads(m, letters'[m])
    /\ stored' = letters'
    /\ restarts' = restarts + 1
    /\ UNCHANGED <<inFlight, indexFile, taken>>

Next ==
    \/ \E m \in Msg : \/ Deliver(m) \/ Settle(m)
                      \/ NackDLQ(m) \/ NackDLQFails(m) \/ ResendRemove(m)
    \/ \E old \in SUBSET Msg : CleanupExpired(old)
    \/ Crash \/ Start

Spec == Init /\ [][Next]_vars

-----------------------------------------------------------------------------
(* Properties *)

\* A letter is taken out once, whichever administrators resend it at the same time,
\* with the clean-up and with nacks of the same message in between: the letter the
\* map shows is always a later one than the last one taken (DLQStore.Remove, Add).
TakenOnce == \A m \in Msg : letters[m] # 0 => taken[m] < letters[m]

\* A new process finds the last letter that was stored of every message, or a later
\* one, those included that a failed resend had taken out, and whatever crashes and
\* failed writes came after it.  Only what was written behind a piece of an entry is
\* not safe (DLQStore.Add, load).
LettersSurvive ==
    [][~up /\ up' => \A m \in Msg : stored[m] <= letters'[m]]_vars

=============================================================================
