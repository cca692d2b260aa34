----------------------------- MODULE BrokerLocks -----------------------------
(***************************************************************************)
(* The locks of the whole server and the tables they guard: every handler  *)
(* and background task as the sequence of its lock operations and of its   *)
(* accesses to shared tables, run by concurrent goroutines.                *)
(*                                                                         *)
(* One partition log, one dead-letter store and one consumer group stand   *)
(* for all; a loop body is taken once, since it begins and ends with the   *)
(* same locks held, and of two branches the one that locks more.           *)
(***************************************************************************)
EXTENDS Naturals, Sequences, FiniteSets

CONSTANTS Thread,       \* goroutines
          Serving       \* the operations they run

VARIABLES
    op,         \* the operation each goroutine runs
    pc,         \* its next instruction
    readers,    \* the goroutines that hold each lock for reading
    writer,     \* the one that holds it for writing
    announced   \* the one that waits to write and keeps new readers out

vars == <<op, pc, readers, writer, announced>>

-----------------------------------------------------------------------------
(* Instructions *)

\* Broker.mu, StorageManager.mu, AppendOnlyLog.mu, DLQStore.mu,
\* ConsumerGroup.mu and MetricsStore.mu.
Lock == {"b", "sm", "l", "s", "cg", "ms"}

RLocked(x, body) == <<<<"RLock", x>>>> \o body \o <<<<"RUnlock", x>>>>
Locked(x, body) == <<<<"Lock", x>>>> \o body \o <<<<"Unlock", x>>>>

Get(table) == <<<<"get", table>>>>
Put(table) == <<<<"put", table>>>>

\* Accesses made without the lock that guards the table elsewhere.
GetBare(table) == <<<<"get bare", table>>>>
PutBare(table) == <<<<"put bare", table>>>>

-----------------------------------------------------------------------------
(* models/consumer.go, storage/log.go, storage/dlq.go, models/metrics.go *)

ReadGroup == RLocked("cg", Get("members"))
WriteGroup == Locked("cg", Put("members"))

LogAppend == Locked("l", Put("index"))
LogRead == RLocked("l", Get("index"))
LogCleanupExpired == Locked("l", LogRead)

DLQAdd == Locked("s", Put("letters"))
DLQRemove == Locked("s", Put("letters"))
DLQList == RLocked("s", Get("letters"))
DLQCleanupExpired == Locked("s", Put("letters"))

UpdateMetrics == Locked("ms", Put("stats"))
ReadMetrics == RLocked("ms", Get("stats"))

-----------------------------------------------------------------------------
(* storage/manager.go *)

\* GetTopic, GetAllTopics, GetDLQ, and the lookup of the other operations.
FindTopic == RLocked("sm", Get("topics"))
StorageCreateTopic == Locked("sm", LogRead \o Put("topics"))

\* Mutant: the topic's metadata is changed while the log is still locked.
AppendMessageNested == FindTopic \o Locked("l", Put("index") \o Locked("sm", Put("meta")))

AppendMessage == FindTopic \o LogAppend \o Locked("sm", LogRead \o Put("meta"))
ReadMessage == FindTopic \o LogRead
NextOffset == RLocked("sm", Get("topics") \o LogRead)
StorageCleanupExpired == FindTopic \o LogCleanupExpired

-----------------------------------------------------------------------------
(* broker/broker.go and the handlers that call it *)

\* Mutant: the list of waiters is walked under the read lock.
NotifyShared == RLocked("b", Put("waiters"))

NotifyLongPollWaiters == Locked("b", Put("waiters"))

CreateTopic == StorageCreateTopic \o Locked("b", Put("groups") \o Put("inFlight") \o Put("counts"))

Publish == FindTopic \o Locked("b", Put("roundRobin")) \o AppendMessage
             \o NotifyLongPollWaiters

PublishDelayed == FindTopic \o Locked("b", Put("roundRobin"))
                    \o Locked("b", Put("delayQueue")) \o AppendMessage

\* The group is marshalled without its lock.
SaveConsumerGroup == RLocked("b", Get("groups")) \o GetBare("members")

\* Mutant: the new group is saved while b.mu is held.
GetOrCreateSaves == FindTopic \o Locked("b", Put("groups") \o SaveConsumerGroup)

GetOrCreateConsumerGroup == FindTopic \o Locked("b", Put("groups"))

TryAssignMessage == Locked("b", Put("inFlight") \o WriteGroup)

TryGetNextMessage == ReadGroup \o NextOffset \o ReadMessage \o TryAssignMessage

Consume == FindTopic \o GetOrCreateConsumerGroup \o WriteGroup \o TryGetNextMessage
             \o Locked("b", Put("waiters")) \o TryAssignMessage \o Locked("b", Put("waiters"))
             \o SaveConsumerGroup

Ack == Locked("b", Put("inFlight") \o Get("groups") \o WriteGroup \o AppendMessage)

Nack == Locked("b", Put("inFlight") \o FindTopic \o DLQAdd \o AppendMessage
                      \o Get("groups") \o WriteGroup)

\* Both read the map of groups without b.mu.
Heartbeat == GetBare("groups") \o WriteGroup
Replay == GetBare("groups") \o WriteGroup

\* The groups are marshalled for the answer without their locks.
GetConsumerGroups == RLocked("b", Get("groups")) \o GetBare("members")

GetDLQ == FindTopic \o DLQList
ResendDLQMessage == FindTopic \o DLQRemove \o AppendMessage \o NotifyLongPollWaiters

\* What the lookups return is read after the lock was given back.
GetTopic == FindTopic \o GetBare("meta")
GetMetrics == ReadMetrics \o ReadMetrics \o GetBare("stats")
Dashboard == FindTopic \o GetMetrics \o ReadMetrics \o GetBare("stats")
TopicDetail == FindTopic \o ReadMetrics \o RLocked("b", Get("groups")) \o GetDLQ
                 \o ReadMetrics \o ReadGroup \o GetBare("stats")

-----------------------------------------------------------------------------
(* The background tasks *)

RefreshMetrics == FindTopic \o NextOffset \o RLocked("b", Get("inFlight")) \o GetDLQ
                    \o PutBare("counts") \o RLocked("b", Get("groups")) \o ReadGroup
                    \o NextOffset \o ReadGroup \o ReadGroup \o UpdateMetrics
                    \o UpdateMetrics \o ReadMetrics \o PutBare("stats")

ProcessDeadInstances == RLocked("b", Get("groups")) \o RLocked("b", Get("groups"))
                          \o RLocked("b", Get("groups")) \o WriteGroup
                          \o Locked("b", Put("inFlight")) \o WriteGroup

CheckVisibilityTimeouts == Locked("b", Put("inFlight"))

ProcessDelayQueue == Locked("b", Put("delayQueue") \o AppendMessage \o NotifyLongPollWaiters)

CleanupExpired == FindTopic \o StorageCleanupExpired \o FindTopic \o DLQCleanupExpired

-----------------------------------------------------------------------------
Program ==
    [GetTopic |-> GetTopic, GetMetrics |-> GetMetrics,
     CreateTopic |-> CreateTopic, Publish |-> Publish, PublishDelayed |-> PublishDelayed,
     Consume |-> Consume, Ack |-> Ack, Nack |-> Nack, Heartbeat |-> Heartbeat,
     Replay |-> Replay, SaveConsumerGroup |-> SaveConsumerGroup,
     GetConsumerGroups |-> GetConsumerGroups, GetDLQ |-> GetDLQ,
     ResendDLQMessage |-> ResendDLQMessage, Dashboard |-> Dashboard,
     TopicDetail |-> TopicDetail, RefreshMetrics |-> RefreshMetrics,
     ProcessDeadInstances |-> ProcessDeadInstances,
     CheckVisibilityTimeouts |-> CheckVisibilityTimeouts,
     ProcessDelayQueue |-> ProcessDelayQueue, CleanupExpired |-> CleanupExpired]

\* Every operation that is run has its program above.
ASSUME ServingAssumption == Serving \subseteq DOMAIN Program

None == "none"

Init ==
    /\ op = [t \in Thread |-> None]
    /\ pc = [t \in Thread |-> 1]
    /\ readers = [x \in Lock |-> {}]
    /\ writer = [x \in Lock |-> {}]
    /\ announced = [x \in Lock |-> {}]

Instruction(t) == IF op[t] = None \/ pc[t] > Len(Program[op[t]])
                  THEN <<None, None>> ELSE Program[op[t]][pc[t]]
At(t, what, x) == Instruction(t) = <<what, x>>
Advance(t) == pc' = [pc EXCEPT ![t] = @ + 1]

Start(t, o) ==
    /\ op[t] = None
    /\ op' = [op EXCEPT ![t] = o]
    /\ UNCHANGED <<pc, readers, writer, announced>>

Return(t) ==
    /\ op[t] # None /\ pc[t] > Len(Program[op[t]])
    /\ op' = [op EXCEPT ![t] = None]
    /\ pc' = [pc EXCEPT ![t] = 1]
    /\ UNCHANGED <<readers, writer, announced>>

\* sync.RWMutex: a reader waits for the writer and for the one that announced
\* itself; a writer announces itself alone and waits for the readers to leave.
RLock(t, x) ==
    /\ At(t, "RLock", x)
    /\ writer[x] = {} /\ announced[x] = {}
    /\ readers' = [readers EXCEPT ![x] = @ \cup {t}]
    /\ Advance(t)
    /\ UNCHANGED <<op, writer, announced>>

RUnlock(t, x) ==
    /\ At(t, "RUnlock", x)
    /\ readers' = [readers EXCEPT ![x] = @ \ {t}]
    /\ Advance(t)
    /\ UNCHANGED <<op, writer, announced>>

Announce(t, x) ==
    /\ At(t, "Lock", x)
    /\ writer[x] = {} /\ announced[x] = {}
    /\ announced' = [announced EXCEPT ![x] = {t}]
    /\ UNCHANGED <<op, pc, readers, writer>>

Acquire(t, x) ==
    /\ At(t, "Lock", x)
    /\ announced[x] = {t} /\ readers[x] = {}
    /\ writer' = [writer EXCEPT ![x] = {t}]
    /\ announced' = [announced EXCEPT ![x] = {}]
    /\ Advance(t)
    /\ UNCHANGED <<op, readers>>

Unlock(t, x) ==
    /\ At(t, "Unlock", x)
    /\ writer' = [writer EXCEPT ![x] = {}]
    /\ Advance(t)
    /\ UNCHANGED <<op, readers, announced>>

Kinds == {"get", "put", "get bare", "put bare"}

Access(t) ==
    /\ Instruction(t)[1] \in Kinds
    /\ Advance(t)
    /\ UNCHANGED <<op, readers, writer, announced>>

Take(t) == \E x \in Lock : RLock(t, x) \/ Announce(t, x) \/ Acquire(t, x)
Proceed(t) == \/ Access(t) \/ Return(t)
              \/ \E x \in Lock : RUnlock(t, x) \/ Unlock(t, x)

Next == \E t \in Thread : Take(t) \/ Proceed(t) \/ \E o \in Serving : Start(t, o)

Spec == Init /\ [][Next]_vars

\* Goroutines run, and the runtime's mutexes starve nobody.
Fairness == \A t \in Thread : WF_vars(Proceed(t)) /\ SF_vars(Take(t))

FairSpec == Spec /\ Fairness

-----------------------------------------------------------------------------
(* Properties *)

\* The two tasks that lock what they hold.
Relocking == {"ProcessDelayQueue", "CleanupExpired"}
SelfLocked(t) ==
    /\ op[t] \in Relocking
    /\ \E x \in Lock : /\ Instruction(t) \in {<<"Lock", x>>, <<"RLock", x>>}
                       /\ writer[x] = {t}

\* Two goroutines are at one table at a time, one of them to change it, only
\* where the code takes no lock: the locks that are taken are enough for every
\* other access (all operations).
Touches(t, kinds, table) == Instruction(t)[1] \in kinds /\ Instruction(t)[2] = table

GuardedTablesSafe ==
    \A t, u \in Thread : t # u =>
        ~(/\ Touches(t, {"put"}, Instruction(t)[2])
          /\ Touches(u, {"get", "put"}, Instruction(t)[2]))

\* Whatever operations meet, one of them can go on, as long as neither of the
\* two tasks has locked itself out: no circle of waiting goroutines, and no
\* reader behind a writer that waits for it.
CanTake(t, x) ==
    \/ At(t, "RLock", x) /\ writer[x] = {} /\ announced[x] = {}
    \/ At(t, "Lock", x) /\ writer[x] = {} /\ announced[x] = {}
    \/ At(t, "Lock", x) /\ announced[x] = {t} /\ readers[x] = {}

Waits(t) == Instruction(t)[1] \in {"RLock", "Lock"}

NoDeadlock ==
    (\E t \in Thread : op[t] # None) /\ (\A t \in Thread : ~SelfLocked(t))
    => \E t \in Thread : /\ op[t] # None
                         /\ Waits(t) => \E x \in Lock : CanTake(t, x)

\* Every operation comes to its end, unless a task has locked itself out.
OperationsEnd ==
    \A t \in Thread :
        op[t] # None ~> op[t] = None \/ \E u \in Thread : SelfLocked(u)

\* The background tasks that lock what they hold come to an end: what they did
\* is reported at broker.go:804 and broker.go:815 (ProcessDelayQueue,
\* CleanupExpired).
BackgroundTasksEnd == \A t \in Thread : op[t] \in Relocking ~> op[t] = None

=============================================================================
