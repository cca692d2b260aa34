-------------------------- MODULE BrokerProperties --------------------------
(***************************************************************************)
(* What the broker's code guarantees, and what its texts promise.          *)
(***************************************************************************)
EXTENDS Broker, FiniteSets

CONSTANT Nobody     \* the holder of a message that is not leased

ASSUME NobodyAssumption ==
    Nobody \notin [group : Group \cup {NoGroup}, inst : Instance \cup {NoInstance},
                   until : Nat]

-----------------------------------------------------------------------------
(* Types *)

CallRec == [pc     : {"idle", "scan", "search", "empty", "waiting", "leaving"},
            part   : Partition,
            offset : Int,
            limit  : Nat,
            at     : Nat]

SweepRec == [pc    : {"idle", "check", "release", "remove", "cleanup"},
             todo  : SUBSET Group,
             group : Group \cup {NoGroup},
             dead  : SUBSET Instance,
             inst  : Instance \cup {NoInstance},
             part  : Partition]

ResendPC == DOMAIN AfterWrite \cup {"idle", "append", "offset", "notify"}

TypeOK ==
    /\ now \in Nat
    /\ log \in [Partition -> Seq(Message)]
    /\ dlqFile \in [Msg -> Message \cup {NoMessage}]
    /\ heap \in [Obj -> Message \cup {NoMessage}]
    /\ inFlight \in [Msg -> Obj \cup {NoObj}]
    /\ dlq \in [Msg -> Obj \cup {NoObj}]
    /\ groups \in [Group -> ConsumerGroupRec \cup {NoSuchGroup}]
    /\ roundRobin \in Partition
    /\ delayQueue \in SUBSET Obj
    /\ waiters \in SUBSET Client
    /\ channel \in [Client -> Obj \cup {NoObj}]
    /\ call \in [Client -> CallRec]
    /\ publishing \in [Msg -> [pc : {"idle", "notify", "append"}, obj : Obj \cup {NoObj}]]
    /\ resending \in [Msg -> [pc     : ResendPC,
                              obj    : Obj \cup {NoObj},
                              offset : Nat]]
    /\ sweep \in SweepRec
    /\ mu \in {Free, NackCall, DelayQueueTask, LogWaiter}
    /\ nacking \in [group : Group \cup {NoGroup}, inst : Instance \cup {NoInstance},
                    obj : Obj \cup {NoObj}]
    /\ restarts \in Nat

-----------------------------------------------------------------------------
(* References and control: what keeps the pointers of the code valid *)

\* The collector never clears an object something still points to.
Allocated == \A o \in Live : heap[o] \in Message

\* A Consume call in progress has its group and reads within the log.
CallsValid ==
    \A c \in Client : /\ call[c].limit <= NextOffset(call[c].part)
                      /\ call[c].pc # "idle" => GroupExists(GroupOf[c])

OperationsValid ==
    /\ \A m \in Msg : /\ publishing[m].pc # "idle" => publishing[m].obj # NoObj
                      /\ resending[m].pc # "idle" => resending[m].obj # NoObj
    /\ mu = NackCall => /\ nacking.group \in Group /\ nacking.inst \in Instance
                        /\ nacking.obj # NoObj

SweepValid ==
    /\ \A g \in sweep.todo : GroupExists(g)
    /\ sweep.pc \in {"release", "remove"} =>
          sweep.group \in Group /\ GroupExists(sweep.group)
    /\ sweep.pc = "remove" => sweep.inst \in Instance

TypeInv == TypeOK /\ Allocated /\ CallsValid /\ OperationsValid /\ SweepValid

-----------------------------------------------------------------------------
(* Offsets *)

\* The offset of a group whose offset no administrator modifies does not run ahead
\* of the log, so a record appended by a publish, a nack or a resend is never
\* behind the group when it is written (Consume, tryAssignMessage; stored offsets
\* are stale, never ahead).
OffsetWithinLog ==
    \A g \in Group \ Replayable, p \in Partition :
        GroupExists(g) => GetOffset(groups[g], p) <= NextOffset(p)

\* The offset a message carries is that of a record of its partition.
Logged(msg) == msg.Offset < NextOffset(msg.Partition)

\* The objects that have a record.  Only a delayed message has none yet.
Recorded == ({inFlight[m] : m \in Msg} \cup {dlq[m] : m \in Msg}
               \cup {channel[c] : c \in Client}
               \cup {resending[m].obj : m \in Msg} \cup {nacking.obj}
               \cup {publishing[m].obj : m \in {n \in Msg : publishing[n].pc = "notify"}})
            \ {NoObj}

ObjectsLogged ==
    /\ \A o \in Recorded : Logged(Deref(o))
    /\ \A o \in Live : Deref(o).Offset <= NextOffset(Deref(o).Partition)
    /\ \A m \in Msg : resending[m].pc = "offset" =>
          resending[m].offset < NextOffset(Deref(resending[m].obj).Partition)

FileLogged == \A m \in Msg : dlqFile[m] # NoMessage => Logged(dlqFile[m])

\* A record lies in the partition it names, and its own field never points past it.
RecordsBehind ==
    \A p \in Partition : \A k \in 1 .. Len(log[p]) :
        log[p][k].Offset < k /\ log[p][k].Partition = p

OffsetInv == OffsetWithinLog /\ ObjectsLogged /\ FileLogged /\ RecordsBehind

\* Nothing but a Replay takes a group's offset past the end of its partition: what
\* the delivery does to an offset that an administrator has moved, even one moved
\* beyond the log, brings it back to where records are or leaves it alone
\* (tryAssignMessage, SetOffset, Replay).
OffsetMoves ==
    \A g \in Group, p \in Partition :
        GroupExists(g)' =>
           \/ GetOffset(groups'[g], p) <= NextOffset(p)'
           \/ GroupExists(g) /\ GetOffset(groups'[g], p) = GetOffset(groups[g], p)
           \/ \E k \in ReplayOffsets : Replay(g, p, k)

OnlyReplayPassesLog == [][OffsetMoves]_vars

-----------------------------------------------------------------------------
(* Waiting calls *)

\* A notification is never dropped by the default case of the select: whoever
\* is in the list has room in its channel (notifyLongPollWaiters).
WaiterHasRoom == \A c \in waiters : channel[c] = NoObj

\* No wakeup is lost once a call is registered: a waiting call is in the list,
\* or its message is in its channel (Consume, removeLongPollWaiter).
WaiterNotForgotten ==
    \A c \in Client : call[c].pc = "waiting" => c \in waiters \/ channel[c] # NoObj

WaiterInv ==
    /\ WaiterHasRoom
    /\ WaiterNotForgotten
    /\ \A c \in Client : c \in waiters \/ channel[c] # NoObj =>
          call[c].pc \in {"waiting", "leaving"}

-----------------------------------------------------------------------------
(* The in-flight table *)

\* An entry is the message it is filed under.
InFlightOwn == \A m \in Msg : inFlight[m] # NoObj => Deref(inFlight[m]).ID = m

-----------------------------------------------------------------------------
(* The leases *)

LeaseOf(m) ==
    IF inFlight[m] # NoObj /\ Deref(inFlight[m]).VisibilityUntil > now
    THEN [group |-> Deref(inFlight[m]).ConsumerGroup,
          inst  |-> Deref(inFlight[m]).ConsumerInstance,
          until |-> Deref(inFlight[m]).VisibilityUntil]
    ELSE Nobody

Leases == INSTANCE Lease WITH
            lease <- [m \in Msg |-> LeaseOf(m)],
            Duration <- VisibilityTimeout

\* The broker implements Lease: through the races of consuming calls, acks, sweeps
\* and the unlocked writes of resends, a message is leased to one instance at a
\* time (tryAssignMessage, ResendDLQMessage).
LeaseSpec == Leases!Spec

-----------------------------------------------------------------------------
(* Delayed messages *)

\* A delayed message is never in flight before its time, although only the scan
\* and not tryAssignMessage looks at AvailableAt (Publish, Consume).
DeliveredWhenDue ==
    \A m \in Msg : inFlight[m] # NoObj => Deref(inFlight[m]).AvailableAt <= now

-----------------------------------------------------------------------------
(* Liveness, under FairSpec *)

\* The records of message m.
RecordsOf(m) == {r \in Partition \X (1 .. MaxLog) :
                   r[2] <= Len(log[r[1]]) /\ log[r[1]][r[2]].ID = m}
Rec(r) == log[r[1]][r[2]]

\* One of the two tasks that lock what they hold has run: from then on calls wait
\* for it until the process ends (ProcessDelayQueue, log.go:214).
LockedOut == mu = DelayQueueTask \/ sweep.pc = "cleanup"

\* Every Consume call returns unless a task has locked itself out: no wakeup is
\* waited for in vain, and what holds b.mu gives it back (Consume, Nack).
ConsumeReturns ==
    \A c \in Client : call[c].pc # "idle" ~> call[c].pc = "idle" \/ LockedOut

\* A pending record the group has not passed.
Backlog(g, m) ==
    /\ GroupExists(g)
    /\ \E r \in RecordsOf(m) : /\ Rec(r).State = StatePending
                               /\ r[2] > GetOffset(groups[g], r[1])

\* A group with a backlog is served: this message or another one is delivered,
\* whether the record was published or nacked, and whether the call that takes it
\* was scanning or waiting (Consume, tryGetNextMessage), unless a task has locked
\* itself out.
BacklogServed ==
    \A g \in Group, m \in Msg :
        Backlog(g, m) ~> LockedOut \/ \E n \in Msg : inFlight[n] # NoObj

\* A restart loses no message: whatever was in flight or waiting to be retried
\* is read again from the log, which the new process serves from the start
\* (NewBroker, with its empty in-flight and consumer-group maps), unless a task
\* locks itself out first.
RestartRedelivers ==
    \A g \in Group, m \in Msg :
        /\ restarts > 0
        /\ ~GroupExists(g)
        /\ \E r \in RecordsOf(m) : Rec(r).State = StatePending
        ~> inFlight[m] # NoObj \/ LockedOut

-----------------------------------------------------------------------------
(* What the repository's texts say and the code does not do *)

\* A message ahead of a polling group is delivered, whatever else is published
\* (dashboard.html:54, a highly reliable queue).
BacklogDelivered ==
    \A g \in Group, m \in Msg :
        Backlog(g, m) /\ inFlight[m] = NoObj ~> inFlight[m] # NoObj

\* A message the visibility timeout released is delivered again
\* (broker.go:772, "visibility timeout, releasing").
LatestRecord(m) == CHOOSE r \in RecordsOf(m) : \A q \in RecordsOf(m) : q[2] <= r[2]

Unsettled(m) == /\ RecordsOf(m) # {}
                /\ Rec(LatestRecord(m)).State = StatePending

ReleasedIsRedelivered ==
    \A m \in Msg : Unsettled(m) /\ inFlight[m] = NoObj ~> inFlight[m] # NoObj

\* A message that was acknowledged is not delivered again to a group whose
\* offset nobody has reset (topic.html:195).
Acked(m) == \E r \in RecordsOf(m) : Rec(r).State = StateAcked

AckIsFinal ==
    [][\A m \in Msg : Acked(m) /\ inFlight[m] = NoObj => inFlight'[m] = NoObj]_vars

=============================================================================
