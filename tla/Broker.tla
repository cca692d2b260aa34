------------------------------- MODULE Broker -------------------------------
(***************************************************************************)
(* internal/broker/broker.go for one topic: publishing, long-poll          *)
(* consuming, acknowledging, dead-lettering, the administrator's replay    *)
(* and resend, the background sweeps and a restart of the process.         *)
(*                                                                         *)
(* A step is one critical section of b.mu, or one of the unlocked steps    *)
(* between two of them.  Messages are Go pointers, and the same object can *)
(* be in the in-flight table, in the dead-letter map and in the channels   *)
(* of waiting consumers at once, so the model keeps a heap of objects and  *)
(* the tables hold references.  Records of a partition log are copies.     *)
(***************************************************************************)
EXTENDS ConsumerGroups, Sequences

CONSTANTS
    Obj,                \* addresses of message objects
    NoObj, NoMessage,   \* the nil pointer; the content of an unused address
    NoSuchGroup,        \* a group name absent from the consumerGroups map
    Client,             \* concurrent Consume calls
    GroupOf, InstanceOf,    \* the group and the instance each call is for
    Replayable,         \* the groups whose offsets the administrator modifies
    ReplayOffsets,      \* the offsets the administrator's requests name
    Cleaning,           \* whether the hourly clean-up comes to run
    Delays,             \* the DelaySeconds publishers ask for, in clock ticks
    VisibilityTimeout, HeartbeatTimeout,
    MaxNow, MaxLog, MaxRestarts     \* bounds on the exploration

ASSUME BrokerAssumption ==
    /\ NoObj \notin Obj
    /\ NoMessage \notin Message
    /\ NoSuchGroup \notin ConsumerGroupRec
    /\ GroupOf \in [Client -> Group]
    /\ InstanceOf \in [Client -> Instance]
    /\ Replayable \subseteq Group /\ ReplayOffsets \subseteq Int
    /\ Cleaning \in BOOLEAN
    /\ Delays \subseteq Nat
    /\ VisibilityTimeout \in Nat \ {0}
    /\ HeartbeatTimeout \in Nat
    /\ MaxNow \in Nat /\ MaxLog \in Nat /\ MaxRestarts \in Nat

VARIABLES
    now,          \* the clock
    log,          \* the records of each partition, in offset order
    dlqFile,      \* the record of each message last written to the DLQ file
    heap,         \* the content of each message object
    inFlight,     \* b.inFlight[topic]
    dlq,          \* the DLQStore's messages map
    groups,       \* b.consumerGroups[topic]
    roundRobin,   \* b.roundRobinCtr[topic]
    delayQueue,   \* b.delayQueue, as a set: AvailableAt decides what is next
    waiters,      \* b.longPollWaiters[topic]
    channel,      \* the one-place ResponseChan of each call
    call,         \* where each Consume call is
    publishing,   \* where the Publish call of each message is
    resending,    \* where the ResendDLQMessage call of each message is
    sweep,        \* where ProcessDeadInstances or CleanupExpired is
    mu,           \* who holds b.mu between two steps
    nacking,      \* the Nack that holds b.mu while it appends a dead letter
    restarts      \* how often the process was restarted

persistent == <<log, dlqFile>>
tables     == <<inFlight, dlq, groups>>
polling    == <<waiters, channel, call>>
background == <<delayQueue, sweep>>
locking    == <<mu, nacking>>
vars == <<now, persistent, heap, tables, roundRobin, polling, background,
          locking, publishing, resending, restarts>>

-----------------------------------------------------------------------------
Deref(o) == heap[o]

\* The objects something still points to.
Live == ({inFlight[m] : m \in Msg} \cup {dlq[m] : m \in Msg}
           \cup {channel[c] : c \in Client} \cup delayQueue
           \cup {publishing[m].obj : m \in Msg}
           \cup {resending[m].obj : m \in Msg} \cup {nacking.obj}) \ {NoObj}

\* The heap becomes h, and the collector clears what nothing points to any
\* more.  Every action that drops or writes a reference ends with it.
HeapBecomes(h) == heap' = [o \in Obj |-> IF o \in Live' THEN h[o] ELSE NoMessage]

NextOffset(p) == Len(log[p])
ReadMessage(p, offset) == log[p][offset + 1]

\* CleanupExpired reads the log it has locked and keeps the lock for ever.
LogFree(p) == ~(sweep.pc = "cleanup" /\ sweep.part = p)

AppendMessage(p, msg) == /\ LogFree(p)
                         /\ log' = [log EXCEPT ![p] = Append(@, msg)]

NoCall    == [pc |-> "idle", part |-> 0, offset |-> 0, limit |-> 0, at |-> 0]
NoPublish == [pc |-> "idle", obj |-> NoObj]
NoResend  == [pc |-> "idle", obj |-> NoObj, offset |-> 0]
NoNack    == [group |-> NoGroup, inst |-> NoInstance, obj |-> NoObj]
NoSweep   == [pc |-> "idle", todo |-> {}, group |-> NoGroup, dead |-> {},
              inst |-> NoInstance, part |-> 0]

\* The holders of b.mu that a step can end with.  DelayQueueTask waits for
\* the lock it holds, LogWaiter for the lock CleanupExpired keeps; neither
\* gives b.mu back.
Free == "free"
NackCall == "Nack"
DelayQueueTask == "ProcessDelayQueue"
LogWaiter == "waits for the log"

\* The bound on the log keeps a place for the dead letter a Nack is appending.
HasRoom(p) == NextOffset(p) + (IF mu = NackCall THEN 1 ELSE 0) < MaxLog

Idle(c) == call[c].pc = "idle"
Scanning(p, at) == [pc |-> "scan", part |-> p, offset |-> 0, limit |-> 0, at |-> at]

GroupExists(g) == groups[g] # NoSuchGroup

Init ==
    /\ now = 0
    /\ log = [p \in Partition |-> <<>>]
    /\ dlqFile = [m \in Msg |-> NoMessage]
    /\ heap = [o \in Obj |-> NoMessage]
    /\ inFlight = [m \in Msg |-> NoObj]
    /\ dlq = [m \in Msg |-> NoObj]
    /\ groups = [g \in Group |-> NoSuchGroup]
    /\ roundRobin = 0
    /\ delayQueue = {}
    /\ waiters = {}
    /\ channel = [c \in Client |-> NoObj]
    /\ call = [c \in Client |-> NoCall]
    /\ publishing = [m \in Msg |-> NoPublish]
    /\ resending = [m \in Msg |-> NoResend]
    /\ sweep = NoSweep
    /\ mu = Free
    /\ nacking = NoNack
    /\ restarts = 0

Tick == /\ now < MaxNow
        /\ now' = now + 1
        /\ UNCHANGED <<persistent, heap, tables, roundRobin, polling,
                       background, locking, publishing, resending, restarts>>

-----------------------------------------------------------------------------
(* Publish *)

\* The message identifier carries the time in nanoseconds: each is used once.
Unpublished(m) ==
    /\ publishing[m].pc = "idle"
    /\ \A p \in Partition, k \in 1 .. MaxLog : k <= Len(log[p]) => log[p][k].ID # m

\* A key hashes to a fixed partition, any of them; a message without a key
\* takes the round-robin counter, which b.mu protects.
RoutePartition(p) ==
    \/ UNCHANGED roundRobin
    \/ /\ mu = Free
       /\ p = roundRobin
       /\ roundRobin' = (roundRobin + 1) % Partitions

\* Appends the message and then learns its offset; nobody else has the object.
Publish(m, p, o) ==
    /\ 0 \in Delays
    /\ Unpublished(m) /\ HasRoom(p)
    /\ o \notin Live
    /\ RoutePartition(p)
    /\ AppendMessage(p, NewMessage(m, p, now))
    /\ publishing' = [publishing EXCEPT ![m] = [pc |-> "notify", obj |-> o]]
    /\ UNCHANGED <<now, dlqFile, tables, polling, background, locking,
                   resending, restarts>>
    /\ HeapBecomes([heap EXCEPT ![o] =
                     [NewMessage(m, p, now) EXCEPT !.Offset = NextOffset(p)]])

\* Mutant: the list of waiters is not emptied.
NotifyKeepsWaiters(o) ==
    /\ channel' = [c \in Client |-> IF c \in waiters /\ channel[c] = NoObj
                                    THEN o ELSE channel[c]]
    /\ UNCHANGED waiters

\* Hands the object to every waiting call.  A channel holds one object; the
\* default case of the select drops what does not fit.
NotifyLongPollWaiters(o) ==
    /\ channel' = [c \in Client |-> IF c \in waiters /\ channel[c] = NoObj
                                    THEN o ELSE channel[c]]
    /\ waiters' = {}

PublishNotify(m) ==
    /\ publishing[m].pc = "notify"
    /\ mu = Free
    /\ NotifyLongPollWaiters(publishing[m].obj)
    /\ publishing' = [publishing EXCEPT ![m] = NoPublish]
    /\ UNCHANGED <<now, persistent, tables, roundRobin, call, background,
                   locking, resending, restarts>>
    /\ HeapBecomes(heap)

\* A delayed message goes to the delay queue first and to the log second,
\* and no consumer is notified.
PublishDelayed(m, p, o, d) ==
    /\ d > 0
    /\ Unpublished(m) /\ HasRoom(p)
    /\ o \notin Live
    /\ mu = Free
    /\ RoutePartition(p)
    /\ delayQueue' = delayQueue \cup {o}
    /\ publishing' = [publishing EXCEPT ![m] = [pc |-> "append", obj |-> o]]
    /\ UNCHANGED <<now, persistent, tables, polling, sweep, locking,
                   resending, restarts>>
    /\ HeapBecomes([heap EXCEPT ![o] = NewMessage(m, p, now + d)])

PublishDelayedAppend(m) ==
    LET o == publishing[m].obj
        p == Deref(o).Partition
    IN  /\ publishing[m].pc = "append"
        /\ HasRoom(p)
        /\ AppendMessage(p, Deref(o))
        /\ publishing' = [publishing EXCEPT ![m] = NoPublish]
        /\ UNCHANGED <<now, dlqFile, tables, roundRobin, polling, background,
                       locking, resending, restarts>>
        /\ HeapBecomes([heap EXCEPT ![o].Offset = NextOffset(p)])

-----------------------------------------------------------------------------
(* tryAssignMessage, for a call of instance i of group g *)

\* Mutant: the in-flight table is not consulted.
LeasedByState(msg) == msg.State = StateInFlight /\ msg.VisibilityUntil > now

\* The lease checks: of the object at hand, then of the in-flight table.
Leased(msg) ==
    \/ /\ msg.State = StateInFlight
       /\ msg.VisibilityUntil > now
    \/ /\ inFlight[msg.ID] # NoObj
       /\ Deref(inFlight[msg.ID]).VisibilityUntil > now

\* The message names another instance that is registered with the group.
HeldByOther(msg, g, i) ==
    /\ msg.ConsumerInstance \notin {NoInstance, i}
    /\ HasInstance(groups[g], msg.ConsumerInstance)

Assigned(msg, g, i) ==
    [TransitionsState(msg, StateInFlight) EXCEPT
        !.VisibilityUntil  = now + VisibilityTimeout,
        !.ConsumerGroup    = g,
        !.ConsumerInstance = i,
        !.RetryCount       = IF @ > 0 THEN @ + 1 ELSE @]

\* The assignment of object o, whose content was msg.
Assign(o, msg, g, i) ==
    LET counted == IncrementInFlight(groups[g], i, 1)
    IN  /\ ~Leased(msg) /\ ~HeldByOther(msg, g, i)
        /\ inFlight' = [inFlight EXCEPT ![msg.ID] = o]
        /\ groups' = [groups EXCEPT ![g] =
                        IF msg.State = StatePending
                        THEN SetOffset(counted, msg.Partition, msg.Offset + 1)
                        ELSE counted]

\* A refusal.  The test whether the other instance is registered is made
\* with cg.Heartbeat, which also renews that instance's heartbeat.
Refuse(msg, g, i) ==
    /\ Leased(msg) \/ HeldByOther(msg, g, i)
    /\ groups' = [groups EXCEPT ![g] =
                    IF Leased(msg) THEN @
                    ELSE HeartbeatOf(@, msg.ConsumerInstance, now)]
    /\ UNCHANGED inFlight

-----------------------------------------------------------------------------
(* Consume *)

\* After an assignment the loop of Consume goes on, or ends because the call
\* has its maxMessages or its deadline has passed.
LoopOrReturn(c) == \E next \in {NoCall, Scanning(0, now)} :
                      call' = [call EXCEPT ![c] = next]

\* Mutant: a new group starts at the end of the log.
ConsumeStartLatest(c) ==
    LET g  == GroupOf[c]
        cg == IF GroupExists(g) THEN groups[g]
              ELSE SetAllOffsets(NewConsumerGroup, [p \in Partition |-> NextOffset(p)])
    IN  /\ Idle(c)
        /\ mu = Free
        /\ groups' = [groups EXCEPT ![g] = RegisterInstance(cg, InstanceOf[c], now)]
        /\ call' = [call EXCEPT ![c] = Scanning(0, now)]
        /\ UNCHANGED <<now, persistent, heap, inFlight, dlq, roundRobin, waiters,
                       channel, background, locking, publishing, resending, restarts>>

ConsumeStart(c) ==
    LET g  == GroupOf[c]
        cg == IF GroupExists(g) THEN groups[g] ELSE NewConsumerGroup
    IN  /\ Idle(c)
        /\ mu = Free
        /\ groups' = [groups EXCEPT ![g] = RegisterInstance(cg, InstanceOf[c], now)]
        /\ call' = [call EXCEPT ![c] = Scanning(0, now)]
        /\ UNCHANGED <<now, persistent, heap, inFlight, dlq, roundRobin, waiters,
                       channel, background, locking, publishing, resending, restarts>>

\* Mutant: the walk starts one record too late.
ScanPartitionBehind(c) ==
    LET p == call[c].part
    IN  /\ call[c].pc = "scan"
        /\ LogFree(p)
        /\ call' = [call EXCEPT
                      ![c].pc     = "search",
                      ![c].offset = GetOffset(groups[GroupOf[c]], p) + 1,
                      ![c].limit  = NextOffset(p)]
        /\ UNCHANGED <<now, persistent, heap, tables, roundRobin, waiters,
                       channel, background, locking, publishing, resending, restarts>>

\* tryGetNextMessage reads a partition's bounds once, before it walks it.
ScanPartition(c) ==
    LET p == call[c].part
    IN  /\ call[c].pc = "scan"
        /\ LogFree(p)
        /\ call' = [call EXCEPT
                      ![c].pc     = "search",
                      ![c].offset = GetOffset(groups[GroupOf[c]], p),
                      ![c].limit  = NextOffset(p)]
        /\ UNCHANGED <<now, persistent, heap, tables, roundRobin, waiters,
                       channel, background, locking, publishing, resending, restarts>>

\* Mutant: the scan does not look at AvailableAt.
CandidateEarly(msg, g, at) ==
    \/ msg.State = StatePending
    \/ /\ msg.State = StateInFlight
       /\ msg.VisibilityUntil <= at
       /\ msg.ConsumerGroup = g

Candidate(msg, g, at) ==
    \/ msg.State = StatePending /\ msg.AvailableAt <= at
    \/ /\ msg.State = StateInFlight
       /\ msg.VisibilityUntil <= at
       /\ msg.ConsumerGroup = g

\* An offset below 0 is not found, and the walk goes on.
Candidates(c) ==
    {k \in 0 .. call[c].limit - 1 :
        /\ k >= call[c].offset
        /\ Candidate(ReadMessage(call[c].part, k), GroupOf[c], call[c].at)}

\* The scan passes over the records that are no candidates: k is the next.
NextCandidate(c, k) == /\ LogFree(call[c].part)
                       /\ k \in Candidates(c)
                       /\ \A j \in Candidates(c) : k <= j

\* The record read is a fresh object o, and the assignment keeps it.
ScanAssign(c, k, o) ==
    LET msg == ReadMessage(call[c].part, k)
        g   == GroupOf[c]
        i   == InstanceOf[c]
    IN  /\ call[c].pc = "search"
        /\ mu = Free
        /\ NextCandidate(c, k)
        /\ o \notin Live
        /\ Assign(o, msg, g, i)
        /\ LoopOrReturn(c)
        /\ UNCHANGED <<now, persistent, dlq, roundRobin, waiters, channel,
                       background, locking, publishing, resending, restarts>>
        /\ HeapBecomes([heap EXCEPT ![o] = Assigned(msg, g, i)])

\* Mutant: a refused record is tried again.
ScanRefusedStays(c, k) ==
    LET msg == ReadMessage(call[c].part, k)
    IN  /\ call[c].pc = "search"
        /\ mu = Free
        /\ NextCandidate(c, k)
        /\ Refuse(msg, GroupOf[c], InstanceOf[c])
        /\ UNCHANGED <<now, persistent, heap, dlq, roundRobin, polling,
                       background, locking, publishing, resending, restarts>>

ScanRefused(c, k) ==
    LET msg == ReadMessage(call[c].part, k)
    IN  /\ call[c].pc = "search"
        /\ mu = Free
        /\ NextCandidate(c, k)
        /\ Refuse(msg, GroupOf[c], InstanceOf[c])
        /\ call' = [call EXCEPT ![c].offset = k + 1]
        /\ UNCHANGED <<now, persistent, heap, dlq, roundRobin, waiters, channel,
                       background, locking, publishing, resending, restarts>>

\* Mutant: the loop over the partitions goes one too far.
ScanExhaustedPast(c) ==
    /\ call[c].pc = "search"
    /\ Candidates(c) = {}
    /\ call[c].offset < call[c].limit => LogFree(call[c].part)
    /\ call' = [call EXCEPT ![c] =
                 IF call[c].part + 1 <= Partitions
                 THEN Scanning(call[c].part + 1, call[c].at)
                 ELSE [NoCall EXCEPT !.pc = "empty"]]
    /\ UNCHANGED <<now, persistent, heap, tables, roundRobin, waiters, channel,
                   background, locking, publishing, resending, restarts>>

\* No candidate left in this partition: on to the next one, if there is one.
ScanExhausted(c) ==
    /\ call[c].pc = "search"
    /\ Candidates(c) = {}
    /\ call[c].offset < call[c].limit => LogFree(call[c].part)
    /\ call' = [call EXCEPT ![c] =
                 IF call[c].part + 1 < Partitions
                 THEN Scanning(call[c].part + 1, call[c].at)
                 ELSE [NoCall EXCEPT !.pc = "empty"]]
    /\ UNCHANGED <<now, persistent, heap, tables, roundRobin, waiters, channel,
                   background, locking, publishing, resending, restarts>>

\* Less than 100ms are left: Consume returns what it has.
ConsumeReturn(c) ==
    /\ call[c].pc = "empty"
    /\ call' = [call EXCEPT ![c] = NoCall]
    /\ UNCHANGED <<now, persistent, heap, tables, roundRobin, waiters, channel,
                   background, locking, publishing, resending, restarts>>

RegisterWaiter(c) ==
    /\ call[c].pc = "empty"
    /\ mu = Free
    /\ waiters' = waiters \cup {c}
    /\ call' = [call EXCEPT ![c].pc = "waiting"]
    /\ UNCHANGED <<now, persistent, heap, tables, roundRobin, channel,
                   background, locking, publishing, resending, restarts>>

\* The call was notified.  It takes the object, tries to assign it and drops
\* its waiter entry; the two critical sections of b.mu are one step, since
\* the notifier has emptied the list the second one looks into.
WaiterReceive(c) ==
    LET o   == channel[c]
        msg == Deref(o)
        g   == GroupOf[c]
        i   == InstanceOf[c]
    IN  /\ call[c].pc = "waiting"
        /\ o # NoObj
        /\ mu = Free
        /\ channel' = [channel EXCEPT ![c] = NoObj]
        /\ waiters' = waiters \ {c}
        /\ LoopOrReturn(c)
        /\ UNCHANGED <<now, persistent, dlq, roundRobin, background, locking,
                       publishing, resending, restarts>>
        /\ \/ /\ Assign(o, msg, g, i)
              /\ HeapBecomes([heap EXCEPT ![o] = Assigned(msg, g, i)])
           \/ /\ Refuse(msg, g, i)
              /\ HeapBecomes(heap)

WaiterTimeout(c) ==
    /\ call[c].pc = "waiting"
    /\ call' = [call EXCEPT ![c].pc = "leaving"]
    /\ UNCHANGED <<now, persistent, heap, tables, roundRobin, waiters, channel,
                   background, locking, publishing, resending, restarts>>

\* removeLongPollWaiter after the timeout; the deadline has passed, so Consume
\* returns, and what is in its channel by now is dropped with it.
RemoveLongPollWaiter(c) ==
    /\ call[c].pc = "leaving"
    /\ mu = Free
    /\ waiters' = waiters \ {c}
    /\ channel' = [channel EXCEPT ![c] = NoObj]
    /\ call' = [call EXCEPT ![c] = NoCall]
    /\ UNCHANGED <<now, persistent, tables, roundRobin, background, locking,
                   publishing, resending, restarts>>
    /\ HeapBecomes(heap)

-----------------------------------------------------------------------------
(* Ack, Nack, Heartbeat, Replay *)

\* Both look the message up by its identifier and compare the instance only.
Holds(m, i) == inFlight[m] # NoObj /\ Deref(inFlight[m]).ConsumerInstance = i

SettleCount(g, i) ==
    groups' = IF GroupExists(g)
              THEN [groups EXCEPT ![g] = IncrementInFlight(@, i, -1)]
              ELSE groups

\* The settled message leaves the table and is appended; the record carries
\* the offset the message had before.
Settle(m, msg) ==
    LET o == inFlight[m]
        p == msg.Partition
    IN  /\ HasRoom(p)
        /\ inFlight' = [inFlight EXCEPT ![m] = NoObj]
        /\ AppendMessage(p, msg)
        /\ HeapBecomes([heap EXCEPT ![o] = [msg EXCEPT !.Offset = NextOffset(p)]])

Ack(g, i, m) ==
    /\ mu = Free
    /\ Holds(m, i)
    /\ SettleCount(g, i)
    /\ UNCHANGED <<now, dlqFile, dlq, roundRobin, polling, background, locking,
                   publishing, resending, restarts>>
    /\ Settle(m, TransitionsState(Deref(inFlight[m]), StateAcked))

Retried(msg) == [msg EXCEPT !.RetryCount = @ + 1]

NackRetry(g, i, m) ==
    LET msg == Retried(Deref(inFlight[m]))
    IN  /\ mu = Free
        /\ Holds(m, i)
        /\ msg.RetryCount < MaxRetries
        /\ SettleCount(g, i)
        /\ UNCHANGED <<now, dlqFile, dlq, roundRobin, polling, background,
                       locking, publishing, resending, restarts>>
        /\ Settle(m, [TransitionsState(msg, StatePending) EXCEPT !.VisibilityUntil = 0])

\* The log is locked for ever: an Ack, or a Nack that grants a retry, has taken
\* the message out of the table and keeps b.mu.  (The other Nack gets as far as
\* NackDLQ.)
SettleBlocks(g, i, m) ==
    LET o       == inFlight[m]
        retried == Retried(Deref(o))
    IN  /\ mu = Free
        /\ Holds(m, i)
        /\ ~LogFree(Deref(o).Partition)
        /\ mu' = LogWaiter
        /\ inFlight' = [inFlight EXCEPT ![m] = NoObj]
        /\ UNCHANGED <<now, persistent, dlq, roundRobin, polling, background,
                       nacking, publishing, resending, restarts>>
        /\ \/ /\ SettleCount(g, i)
              /\ HeapBecomes([heap EXCEPT ![o] = TransitionsState(@, StateAcked)])
           \/ /\ retried.RetryCount < MaxRetries
              /\ UNCHANGED groups
              /\ HeapBecomes([heap EXCEPT ![o] =
                   [TransitionsState(retried, StatePending) EXCEPT !.VisibilityUntil = 0]])

\* The last retry.  The dead letter is visible to the administrator as soon
\* as dlq.Add has returned, while the Nack still holds b.mu to append it.
NackDLQ(g, i, m) ==
    LET o   == inFlight[m]
        msg == TransitionsState(Retried(Deref(o)), StateDLQ)
    IN  /\ mu = Free
        /\ Holds(m, i)
        /\ msg.RetryCount >= MaxRetries
        /\ HasRoom(msg.Partition)
        /\ mu' = NackCall
        /\ nacking' = [group |-> g, inst |-> i, obj |-> o]
        /\ inFlight' = [inFlight EXCEPT ![m] = NoObj]
        /\ dlq' = [dlq EXCEPT ![m] = o]
        /\ dlqFile' = [dlqFile EXCEPT ![m] = msg]
        /\ UNCHANGED <<now, log, groups, roundRobin, polling, background,
                       publishing, resending, restarts>>
        /\ HeapBecomes([heap EXCEPT ![o] = msg])

NackDLQAppend ==
    LET o == nacking.obj
        p == Deref(o).Partition
    IN  /\ mu = NackCall
        /\ AppendMessage(p, Deref(o))
        /\ SettleCount(nacking.group, nacking.inst)
        /\ mu' = Free
        /\ nacking' = NoNack
        /\ UNCHANGED <<now, dlqFile, inFlight, dlq, roundRobin, polling,
                       background, publishing, resending, restarts>>
        /\ HeapBecomes([heap EXCEPT ![o].Offset = NextOffset(p)])

\* Reads the map without b.mu, so it runs whoever holds b.mu.
Heartbeat(g, i) ==
    /\ GroupExists(g) /\ HasInstance(groups[g], i)
    /\ groups' = [groups EXCEPT ![g] = HeartbeatOf(@, i, now)]
    /\ UNCHANGED <<now, persistent, heap, inFlight, dlq, roundRobin, polling,
                   background, locking, publishing, resending, restarts>>

\* The administrator sets offsets, without b.mu.  The code checks no range.  (The
\* offset of a partition the topic does not have is never read by a scan.)
Replay(g, p, k) ==
    /\ g \in Replayable
    /\ GroupExists(g)
    /\ groups' = [groups EXCEPT ![g] = SetAllOffsets(@, [q \in {p} |-> k])]
    /\ UNCHANGED <<now, persistent, heap, inFlight, dlq, roundRobin, polling,
                   background, locking, publishing, resending, restarts>>

-----------------------------------------------------------------------------
(* ResendDLQMessage takes no lock of the broker before it notifies *)

ResendRemove(m) ==
    /\ resending[m].pc = "idle"
    /\ dlq[m] # NoObj
    /\ dlq' = [dlq EXCEPT ![m] = NoObj]
    /\ resending' = [resending EXCEPT ![m] =
                       [pc |-> "count", obj |-> dlq[m], offset |-> 0]]
    /\ UNCHANGED <<now, persistent, heap, inFlight, groups, roundRobin, polling,
                   background, locking, publishing, restarts>>

\* The fields are written one after the other.  The object may at the same time be
\* in the hands of the Nack that is appending it, in a channel, or in flight again.
ResetWrite(msg, field) ==
    CASE field = "count"    -> [msg EXCEPT !.RetryCount = 0]
      [] field = "state"    -> TransitionsState(msg, StatePending)
      [] field = "deadline" -> [msg EXCEPT !.VisibilityUntil = 0]
      [] field = "group"    -> [msg EXCEPT !.ConsumerGroup = NoGroup]
      [] field = "instance" -> [msg EXCEPT !.ConsumerInstance = NoInstance]

AfterWrite == [count |-> "state", state |-> "deadline", deadline |-> "group",
               group |-> "instance", instance |-> "append"]

ResendReset(m) ==
    LET pc == resending[m].pc
    IN  /\ pc \in DOMAIN AfterWrite
        /\ resending' = [resending EXCEPT ![m].pc = AfterWrite[pc]]
        /\ heap' = [heap EXCEPT ![resending[m].obj] = ResetWrite(@, pc)]
        /\ UNCHANGED <<now, persistent, tables, roundRobin, polling, background, locking,
                       publishing, restarts>>

\* Mutant: the offset taken is the one after the record.
ResendAppendNext(m) ==
    LET msg == Deref(resending[m].obj)
        p   == msg.Partition
    IN  /\ resending[m].pc = "append"
        /\ HasRoom(p)
        /\ AppendMessage(p, msg)
        /\ resending' = [resending EXCEPT ![m].pc = "offset",
                                          ![m].offset = NextOffset(p) + 1]
        /\ UNCHANGED <<now, dlqFile, heap, tables, roundRobin, polling,
                       background, locking, publishing, restarts>>

ResendAppend(m) ==
    LET msg == Deref(resending[m].obj)
        p   == msg.Partition
    IN  /\ resending[m].pc = "append"
        /\ HasRoom(p)
        /\ AppendMessage(p, msg)
        /\ resending' = [resending EXCEPT ![m].pc = "offset",
                                          ![m].offset = NextOffset(p)]
        /\ UNCHANGED <<now, dlqFile, heap, tables, roundRobin, polling,
                       background, locking, publishing, restarts>>

\* The object learns the offset of its record, as after every other append, but
\* here in a step of its own.
ResendOffset(m) ==
    /\ resending[m].pc = "offset"
    /\ resending' = [resending EXCEPT ![m].pc = "notify", ![m].offset = 0]
    /\ heap' = [heap EXCEPT ![resending[m].obj].Offset = resending[m].offset]
    /\ UNCHANGED <<now, persistent, tables, roundRobin, polling, background, locking,
                   publishing, restarts>>

ResendNotify(m) ==
    /\ resending[m].pc = "notify"
    /\ mu = Free
    /\ NotifyLongPollWaiters(resending[m].obj)
    /\ resending' = [resending EXCEPT ![m] = NoResend]
    /\ UNCHANGED <<now, persistent, tables, roundRobin, call, background,
                   locking, publishing, restarts>>
    /\ HeapBecomes(heap)

-----------------------------------------------------------------------------
(* The background goroutine: one task at a time *)

\* The in-flight messages in S go back to pending in memory: no record is
\* appended and no offset moves.
Release(S) ==
    /\ inFlight' = [m \in Msg |-> IF m \in S THEN NoObj ELSE inFlight[m]]
    /\ HeapBecomes([o \in Obj |->
         IF \E m \in S : inFlight[m] = o
         THEN [TransitionsState(heap[o], StatePending) EXCEPT !.VisibilityUntil = 0]
         ELSE heap[o]])

Lapsed == {m \in Msg : /\ inFlight[m] # NoObj
                       /\ Deref(inFlight[m]).VisibilityUntil <= now}

CheckVisibilityTimeouts ==
    /\ sweep.pc = "idle"
    /\ mu = Free
    /\ Lapsed # {}
    /\ UNCHANGED <<now, persistent, dlq, groups, roundRobin, polling,
                   background, locking, publishing, resending, restarts>>
    /\ Release(Lapsed)

\* ProcessDeadInstances takes the names of the groups, then group by group
\* the dead instances, then releases and removes them one by one.
NextGroup(todo) == IF todo = {} THEN NoSweep
                   ELSE [NoSweep EXCEPT !.pc = "check", !.todo = todo]

DeadSweepStart ==
    LET existing == {g \in Group : GroupExists(g)}
    IN  /\ sweep.pc = "idle"
        /\ mu = Free
        /\ existing # {}
        /\ sweep' = NextGroup(existing)
        /\ UNCHANGED <<now, persistent, heap, tables, roundRobin, polling,
                       delayQueue, locking, publishing, resending, restarts>>

CheckDead(g) ==
    LET dead == CheckDeadInstances(groups[g], now, HeartbeatTimeout)
    IN  /\ sweep.pc = "check"
        /\ g \in sweep.todo
        /\ sweep' = IF dead = {} THEN NextGroup(sweep.todo \ {g})
                    ELSE [NoSweep EXCEPT !.pc = "release", !.dead = dead,
                                         !.group = g, !.todo = sweep.todo \ {g}]
        /\ UNCHANGED <<now, persistent, heap, tables, roundRobin, polling,
                       delayQueue, locking, publishing, resending, restarts>>

\* All messages of the topic held under that instance name are released,
\* whatever group they were delivered to.
ReleaseDead(i) ==
    /\ sweep.pc = "release"
    /\ mu = Free
    /\ i \in sweep.dead
    /\ sweep' = [sweep EXCEPT !.pc = "remove", !.inst = i]
    /\ UNCHANGED <<now, persistent, dlq, groups, roundRobin, polling,
                   delayQueue, locking, publishing, resending, restarts>>
    /\ Release({m \in Msg : Holds(m, i)})

RemoveDead ==
    LET g    == sweep.group
        dead == sweep.dead \ {sweep.inst}
    IN  /\ sweep.pc = "remove"
        /\ groups' = [groups EXCEPT ![g] = RemoveInstance(@, sweep.inst)]
        /\ sweep' = IF dead = {} THEN NextGroup(sweep.todo)
                    ELSE [sweep EXCEPT !.pc = "release", !.dead = dead,
                                       !.inst = NoInstance]
        /\ UNCHANGED <<now, persistent, heap, inFlight, dlq, roundRobin, polling,
                       delayQueue, locking, publishing, resending, restarts>>

\* Takes the due message with the least AvailableAt, appends it a second time
\* and calls notifyLongPollWaiters, which locks b.mu, while it holds b.mu.
ProcessDelayQueue(o) ==
    LET msg == [Deref(o) EXCEPT !.AvailableAt = now]
        p   == msg.Partition
    IN  /\ sweep.pc = "idle"
        /\ mu = Free
        /\ o \in delayQueue
        /\ Deref(o).AvailableAt <= now
        /\ \A q \in delayQueue : Deref(o).AvailableAt <= Deref(q).AvailableAt
        /\ HasRoom(p)
        /\ delayQueue' = delayQueue \ {o}
        /\ AppendMessage(p, msg)
        /\ mu' = DelayQueueTask
        /\ UNCHANGED <<now, dlqFile, tables, roundRobin, polling, sweep,
                       nacking, publishing, resending, restarts>>
        /\ HeapBecomes([heap EXCEPT ![o] = [msg EXCEPT !.Offset = NextOffset(p)]])

\* The clean-up goes through the partitions in order.  The log of an empty one is
\* locked and unlocked; in the first other one CleanupExpired calls Read, which
\* waits for the lock that CleanupExpired holds.
CleanupExpired(p) ==
    /\ Cleaning
    /\ sweep.pc = "idle"
    /\ mu # DelayQueueTask
    /\ log[p] # <<>>
    /\ \A q \in Partition : q < p => log[q] = <<>>
    /\ sweep' = [NoSweep EXCEPT !.pc = "cleanup", !.part = p]
    /\ UNCHANGED <<now, persistent, heap, tables, roundRobin, polling,
                   delayQueue, locking, publishing, resending, restarts>>

-----------------------------------------------------------------------------
\* The process dies and NewBroker starts over.  The log and the DLQ file are
\* read back; NewBroker loads the consumer groups and the in-flight messages
\* and then replaces both with empty maps for every topic it knows.
Restart(loaded) ==
    /\ restarts < MaxRestarts
    /\ \A m \in Msg : (loaded[m] = NoObj) <=> (dlqFile[m] = NoMessage)
    /\ \A m, n \in Msg : loaded[m] = loaded[n] => m = n \/ loaded[m] = NoObj
    /\ restarts' = restarts + 1
    /\ dlq' = loaded
    /\ inFlight' = [m \in Msg |-> NoObj]
    /\ groups' = [g \in Group |-> NoSuchGroup]
    /\ roundRobin' = 0
    /\ delayQueue' = {}
    /\ waiters' = {}
    /\ channel' = [c \in Client |-> NoObj]
    /\ call' = [c \in Client |-> NoCall]
    /\ publishing' = [m \in Msg |-> NoPublish]
    /\ resending' = [m \in Msg |-> NoResend]
    /\ sweep' = NoSweep
    /\ mu' = Free
    /\ nacking' = NoNack
    /\ heap' = [o \in Obj |-> IF \E m \in Msg : loaded[m] = o
                              THEN dlqFile[CHOOSE m \in Msg : loaded[m] = o]
                              ELSE NoMessage]
    /\ UNCHANGED <<now, persistent>>

-----------------------------------------------------------------------------
Publisher ==
    \/ \E m \in Msg, p \in Partition, o \in Obj :
          Publish(m, p, o) \/ \E d \in Delays : PublishDelayed(m, p, o, d)
    \/ \E m \in Msg : PublishNotify(m) \/ PublishDelayedAppend(m)

ConsumeCall(c) ==
    \/ ScanPartition(c) \/ ScanExhausted(c)
    \/ \E k \in 0 .. MaxLog - 1 :
          ScanRefused(c, k) \/ \E o \in Obj : ScanAssign(c, k, o)
    \/ ConsumeReturn(c) \/ RegisterWaiter(c)
    \/ WaiterReceive(c) \/ WaiterTimeout(c) \/ RemoveLongPollWaiter(c)

Consumer ==
    \/ \E c \in Client : ConsumeStart(c) \/ ConsumeCall(c)
    \/ \E g \in Group, i \in Instance :
          \/ Heartbeat(g, i)
          \/ \E m \in Msg : \/ Ack(g, i, m) \/ NackRetry(g, i, m) \/ NackDLQ(g, i, m)
                            \/ SettleBlocks(g, i, m)
    \/ NackDLQAppend

\* A resend that has taken its letter.
Resend(m) == ResendReset(m) \/ ResendAppend(m) \/ ResendOffset(m) \/ ResendNotify(m)

Administrator ==
    \/ \E g \in Group, p \in Partition, k \in ReplayOffsets : Replay(g, p, k)
    \/ \E m \in Msg : ResendRemove(m) \/ Resend(m)

Background ==
    \/ CheckVisibilityTimeouts
    \/ DeadSweepStart \/ RemoveDead
    \/ \E g \in Group : CheckDead(g)
    \/ \E i \in Instance : ReleaseDead(i)
    \/ \E o \in Obj : ProcessDelayQueue(o)
    \/ \E p \in Partition : CleanupExpired(p)

Crash == \E loaded \in [Msg -> Obj \cup {NoObj}] : Restart(loaded)

Next == Tick \/ Publisher \/ Consumer \/ Administrator \/ Background \/ Crash

Spec == Init /\ [][Next]_vars

\* What is scheduled: an operation that has begun goes on, consumers poll again,
\* and the background goroutine's select serves every ticker.
DeadSweep == \/ RemoveDead
             \/ \E g \in Group : CheckDead(g)
             \/ \E i \in Instance : ReleaseDead(i)

\* The deadline of a call passes: one that comes again and again to where it looks
\* at the deadline ends there at last.
DeadlinePasses(c) == ConsumeCall(c) /\ Idle(c)'

Fairness ==
    /\ \A c \in Client : /\ WF_vars(ConsumeStart(c)) /\ WF_vars(ConsumeCall(c))
                         /\ SF_vars(DeadlinePasses(c))
    /\ \A m \in Msg : /\ WF_vars(PublishNotify(m) \/ PublishDelayedAppend(m))
                      /\ WF_vars(Resend(m))
    /\ WF_vars(NackDLQAppend)
    /\ SF_vars(CheckVisibilityTimeouts)
    /\ WF_vars(DeadSweep)
    /\ WF_vars(\E o \in Obj : ProcessDelayQueue(o))

FairSpec == Spec /\ Fairness

=============================================================================
