---------------------------- MODULE BrokerDelays ----------------------------
(***************************************************************************)
(* A delayed message is not delivered before its time.                     *)
(***************************************************************************)
EXTENDS BrokerSafety

USE MessageAssumption, ConsumerGroupAssumption, BrokerAssumption
USE DEF MessageAssumption, ConsumerGroupAssumption, BrokerAssumption
USE DEF vars, persistent, tables, polling, background, locking,
        NoCall, NoPublish, NoResend, NoNack, NoSweep

-----------------------------------------------------------------------------
(* The invariant *)

\* A message whose record has been appended and that something other than the
\* delay queue knows of is due, and so is one that is or was in flight.
ObjectsDue ==
    /\ \A o \in Recorded : Deref(o).AvailableAt <= now
    /\ \A o \in Live : Deref(o).State = StateInFlight => Deref(o).AvailableAt <= now

FileDue == \A m \in Msg : dlqFile[m] # NoMessage => dlqFile[m].AvailableAt <= now

\* The scan does not look at AvailableAt of a record that is in flight.
RecordsDue ==
    \A p \in Partition : \A k \in 1 .. Len(log[p]) :
        log[p][k].State = StateInFlight => log[p][k].AvailableAt <= now

\* The scan compares with the time Consume read when it began.
CallsDue == \A c \in Client : call[c].at <= now

DueInv == ObjectsDue /\ FileDue /\ RecordsDue /\ CallsDue

LEMMA DueStates == StateInFlight \notin {StatePending, StateAcked, StateDLQ}
BY DEF StateInFlight, StatePending, StateAcked, StateDLQ

\* The objects after a step that writes one of them, or none: o is the one, msg
\* what it holds then.
LEMMA ObjectDueWritten ==
    ASSUME TypeInv, ObjectsDue, now' = now, NEW o, NEW msg,
           \A x \in Live' : heap'[x] = IF x = o THEN msg ELSE heap[x],
           \A x \in Live' : x \in Live \/ x = o,
           \A x \in Recorded' : x \in Recorded \/ x = o,
           o \in Recorded' \/ msg.State = StateInFlight => msg.AvailableAt <= now
    PROVE  ObjectsDue'
<1>1. Recorded' \subseteq Live'
  BY DEF Recorded, Live
<1> QED BY <1>1 DEF ObjectsDue, Deref

\* A step that writes no object and adds no reference.
LEMMA ObjectsDueKept ==
    ASSUME TypeInv, ObjectsDue, now' = now,
           \A x \in Live' : x \in Live /\ heap'[x] = heap[x],
           \A x \in Recorded' : x \in Recorded
    PROVE  ObjectsDue'
<1>1. Recorded' \subseteq Live'
  BY DEF Recorded, Live
<1> QED BY <1>1 DEF ObjectsDue, Deref

\* An appended record is due if it is in flight.
LEMMA RecordsDueKept ==
    ASSUME TypeOK, RecordsDue, now' = now, NEW p \in Partition, NEW msg \in Message,
           AppendMessage(p, msg), msg.State = StateInFlight => msg.AvailableAt <= now
    PROVE  RecordsDue'
<1> SUFFICES ASSUME NEW q \in Partition, NEW k \in 1 .. Len(log'[q]),
                    log'[q][k].State = StateInFlight
             PROVE  log'[q][k].AvailableAt <= now
  BY DEF RecordsDue
<1>1. /\ \A r \in Partition : r # p => log'[r] = log[r]
      /\ Len(log'[p]) = Len(log[p]) + 1
      /\ \A r \in Partition : \A j \in 1 .. Len(log[r]) : log'[r][j] = log[r][j]
      /\ log'[p][Len(log[p]) + 1] = msg
      /\ Len(log[p]) \in Nat
  BY AppendTypes, SMTT(60) DEF TypeOK, LogGrows
<1>2. CASE k \in 1 .. Len(log[q])
  BY <1>1, <1>2 DEF RecordsDue
<1>3. CASE k \notin 1 .. Len(log[q])
  <2>1. q = p /\ k = Len(log[p]) + 1
    BY <1>1, <1>3
  <2> QED BY <1>1, <2>1
<1> QED BY <1>2, <1>3

\* The part of the state a step leaves alone stays due.
LEMMA RestDue ==
    ASSUME TypeOK, DueInv, now' = now
    PROVE  /\ UNCHANGED log => RecordsDue'
           /\ UNCHANGED dlqFile => FileDue'
           /\ UNCHANGED call => CallsDue'
BY DEF DueInv, RecordsDue, FileDue, CallsDue

-----------------------------------------------------------------------------
(* Publishers and the delay queue *)

\* A message published without a delay is due at once.
LEMMA DuePublish ==
    ASSUME TypeInv, TypeInv', DueInv,
           NEW m \in Msg, NEW p \in Partition, NEW o \in Obj, Publish(m, p, o)
    PROVE  DueInv'
<1> DEFINE msg == NewMessage(m, p, now)
           known == [msg EXCEPT !.Offset = NextOffset(p)]
<1> USE DEF TypeInv, DueInv
<1>1. msg \in Message /\ known.AvailableAt = now /\ msg.State = StatePending /\ now \in Nat
  BY MessageFacts DEF TypeOK, NewMessage
<1>2. /\ AppendMessage(p, msg) /\ HeapBecomes([heap EXCEPT ![o] = known])
      /\ publishing' = [publishing EXCEPT ![m] = [pc |-> "notify", obj |-> o]]
      /\ UNCHANGED <<now, dlqFile, tables, polling, background, locking, resending, restarts>>
  BY DEF Publish
<1> HIDE DEF msg, known
<1>3. \A x \in Live' : heap'[x] = IF x = o THEN known ELSE heap[x]
  BY <1>2, HeapAfter
<1>4. /\ \A x \in Live' : x \in Live \/ x = o
      /\ \A x \in Recorded' : x \in Recorded \/ x = o
  BY <1>2, SMTT(60) DEF Live, Recorded, TypeOK
<1>5. ObjectsDue'
  BY <1>1, <1>2, <1>3, <1>4, ObjectDueWritten
<1>6. RecordsDue'
  BY <1>1, <1>2, DueStates, RecordsDueKept
<1> QED BY <1>2, <1>5, <1>6, RestDue

\* A delayed message is known to the delay queue only.
LEMMA DuePublishDelayed ==
    ASSUME TypeInv, TypeInv', DueInv,
           NEW m \in Msg, NEW p \in Partition, NEW o \in Obj, NEW d \in Delays,
           PublishDelayed(m, p, o, d)
    PROVE  DueInv'
<1> DEFINE msg == NewMessage(m, p, now + d)
<1> USE DEF TypeInv, DueInv
<1>1. msg.State = StatePending
  BY DEF NewMessage
<1>2. /\ HeapBecomes([heap EXCEPT ![o] = msg])
      /\ delayQueue' = delayQueue \cup {o}
      /\ publishing' = [publishing EXCEPT ![m] = [pc |-> "append", obj |-> o]]
      /\ o \notin Live
      /\ UNCHANGED <<now, persistent, tables, polling, sweep, locking, resending, restarts>>
  BY DEF PublishDelayed
<1> HIDE DEF msg
<1>3. \A x \in Live' : heap'[x] = IF x = o THEN msg ELSE heap[x]
  BY <1>2, HeapAfter
<1>4. /\ \A x \in Live' : x \in Live \/ x = o
      /\ \A x \in Recorded' : x \in Recorded /\ x # o
  BY <1>2, SMTT(60) DEF Live, Recorded, TypeOK
<1>5. ObjectsDue'
  BY <1>1, <1>2, <1>3, <1>4, DueStates, ObjectDueWritten
<1> QED BY <1>2, <1>5, RestDue

\* An object keeps its AvailableAt and is appended.
LEMMA DueAppended ==
    ASSUME TypeInv, TypeInv', DueInv, NEW o \in Obj, NEW msg \in Message, NEW known,
           o \in Live, AppendMessage(msg.Partition, msg),
           HeapBecomes([heap EXCEPT ![o] = known]),
           known.AvailableAt = msg.AvailableAt, known.State = msg.State,
           o \in Recorded \/ msg.State = StateInFlight => msg.AvailableAt <= now,
           \A x \in Live' : x \in Live,
           \A x \in Recorded' : x \in Recorded,
           UNCHANGED <<now, dlqFile, call>>
    PROVE  DueInv'
<1> USE DEF TypeInv, DueInv
<1>1. \A x \in Live' : heap'[x] = IF x = o THEN known ELSE heap[x]
  BY HeapAfter
<1>2. ObjectsDue'
  BY <1>1, ObjectDueWritten
<1>3. msg.Partition \in Partition
  BY MessageFacts
<1>4. RecordsDue'
  BY <1>3, RecordsDueKept
<1> QED BY <1>2, <1>4, RestDue

LEMMA DuePublishDelayedAppend ==
    ASSUME TypeInv, TypeInv', DueInv, NEW m \in Msg, PublishDelayedAppend(m)
    PROVE  DueInv'
<1> DEFINE o == publishing[m].obj
           msg == heap[o]
           known == [msg EXCEPT !.Offset = NextOffset(msg.Partition)]
<1> USE DEF TypeInv
<1>1. o \in Obj /\ o \in Live /\ msg \in Message
  BY DEF PublishDelayedAppend, OperationsValid, TypeOK, Live, Allocated
<1>2. /\ AppendMessage(msg.Partition, msg) /\ HeapBecomes([heap EXCEPT ![o] = known])
      /\ publishing' = [publishing EXCEPT ![m] = NoPublish]
      /\ UNCHANGED <<now, dlqFile, tables, roundRobin, polling, background,
                     locking, resending, restarts>>
  BY DEF PublishDelayedAppend, Deref
<1>3. known.AvailableAt = msg.AvailableAt /\ known.State = msg.State
  BY <1>1 DEF Message
<1>4. o \in Recorded \/ msg.State = StateInFlight => msg.AvailableAt <= now
  BY <1>1 DEF DueInv, ObjectsDue, Deref
<1> HIDE DEF o, known
<1>5. /\ \A x \in Live' : x \in Live
      /\ \A x \in Recorded' : x \in Recorded
  BY <1>2 DEF Live, Recorded, TypeOK
<1> QED BY <1>1, <1>2, <1>3, <1>4, <1>5, DueAppended

\* The delay queue makes the message due.
LEMMA DueProcessDelayQueue ==
    ASSUME TypeInv, TypeInv', DueInv, NEW o \in Obj, ProcessDelayQueue(o)
    PROVE  DueInv'
<1> DEFINE msg == [heap[o] EXCEPT !.AvailableAt = now]
           known == [msg EXCEPT !.Offset = NextOffset(msg.Partition)]
<1> USE DEF TypeInv
<1>1. o \in Live /\ heap[o] \in Message /\ now \in Nat
  BY DEF ProcessDelayQueue, Live, Allocated, TypeOK
<1>2. msg \in Message /\ msg.AvailableAt = now
  BY <1>1, MessageFacts DEF Message
<1>3. known.AvailableAt = msg.AvailableAt /\ known.State = msg.State
  BY <1>2 DEF Message
<1>4. /\ AppendMessage(msg.Partition, msg) /\ HeapBecomes([heap EXCEPT ![o] = known])
      /\ delayQueue' = delayQueue \ {o}
      /\ UNCHANGED <<now, dlqFile, tables, roundRobin, polling, sweep,
                     nacking, publishing, resending, restarts>>
  BY DEF ProcessDelayQueue, Deref
<1> HIDE DEF msg, known
<1>5. /\ \A x \in Live' : x \in Live
      /\ \A x \in Recorded' : x \in Recorded
  BY <1>4 DEF Live, Recorded
<1> QED BY <1>1, <1>2, <1>3, <1>4, <1>5, DueAppended

-----------------------------------------------------------------------------
(* Consume *)

\* The steps that write no object, record or dead letter and move no reference.
LEMMA DueQuiet ==
    ASSUME TypeInv, DueInv, CallsDue',
           UNCHANGED <<now, log, dlqFile, heap, inFlight, dlq, channel, delayQueue,
                       publishing, resending, nacking>>
    PROVE  DueInv'
<1>1. ObjectsDue'
  BY DEF DueInv, ObjectsDue, Live, Recorded, Deref
<1> QED BY <1>1, RestDue DEF DueInv, TypeInv

\* A call that moves keeps the time it scans with, or takes the clock's.
LEMMA CallMovesDue ==
    ASSUME TypeOK, CallsDue, now' = now, NEW c \in Client, NEW next,
           call' = [call EXCEPT ![c] = next],
           next.at \in {0, call[c].at, now}
    PROVE  CallsDue'
<1>1. now \in Nat /\ \A d \in Client : call'[d].at \in {0, call[d].at, now}
  BY DEF TypeOK
<1> QED BY <1>1 DEF CallsDue

LEMMA LoopDue ==
    ASSUME TypeOK, CallsDue, now' = now, NEW c \in Client, LoopOrReturn(c)
    PROVE  CallsDue'
<1>1. PICK next \in {NoCall, Scanning(0, now)} : call' = [call EXCEPT ![c] = next]
  BY DEF LoopOrReturn
<1>2. next.at \in {0, now}
  BY DEF Scanning
<1> QED BY <1>1, <1>2, CallMovesDue

\* The steps of a call that touch no message.
LEMMA DueCallOnly ==
    ASSUME TypeInv, DueInv, NEW c \in Client,
           \/ ConsumeStart(c) \/ ScanPartition(c) \/ ScanExhausted(c) \/ ConsumeReturn(c)
           \/ RegisterWaiter(c) \/ WaiterTimeout(c)
           \/ \E k \in 0 .. MaxLog - 1 : ScanRefused(c, k)
    PROVE  DueInv'
<1> USE DEF TypeInv
<1>1. UNCHANGED <<now, log, dlqFile, heap, inFlight, dlq, channel, delayQueue,
                  publishing, resending, nacking>>
  BY DEF ConsumeStart, ScanPartition, ScanExhausted, ConsumeReturn, RegisterWaiter,
         WaiterTimeout, ScanRefused, Refuse
<1>2. /\ call \in [Client -> CallRec] /\ now \in Nat
      /\ call[c].at \in Nat
  BY DEF TypeOK, CallRec
<1>3. PICK next : call' = [call EXCEPT ![c] = next] /\ next.at \in {0, call[c].at, now}
  <2>1. CASE ConsumeStart(c)
    <3>1. call' = [call EXCEPT ![c] = Scanning(0, now)]
      BY <2>1 DEF ConsumeStart
    <3>2. Scanning(0, now).at = now
      BY DEF Scanning
    <3> QED BY <3>1, <3>2
  <2>2. CASE ScanExhausted(c)
    <3>1. call' = [call EXCEPT ![c] = IF call[c].part + 1 < Partitions
                                      THEN Scanning(call[c].part + 1, call[c].at)
                                      ELSE [NoCall EXCEPT !.pc = "empty"]]
      BY <2>2 DEF ScanExhausted
    <3>2. /\ Scanning(call[c].part + 1, call[c].at).at = call[c].at
          /\ [NoCall EXCEPT !.pc = "empty"].at = 0
      BY DEF Scanning
    <3> QED BY <3>1, <3>2
  <2>3. CASE ConsumeReturn(c)
    <3>1. call' = [call EXCEPT ![c] = NoCall] /\ NoCall.at = 0
      BY <2>3 DEF ConsumeReturn
    <3> QED BY <3>1
  <2>4. CASE ScanPartition(c)
    <3> DEFINE next == [call[c] EXCEPT !.pc = "search",
                          !.offset = GetOffset(groups[GroupOf[c]], call[c].part),
                          !.limit = NextOffset(call[c].part)]
    <3>1. call' = [call EXCEPT ![c] = next]
      BY <2>4 DEF ScanPartition
    <3>2. next.at = call[c].at
      BY <1>2 DEF CallRec
    <3> QED BY <3>1, <3>2
  <2>5. CASE RegisterWaiter(c) \/ WaiterTimeout(c)
    <3>1. PICK s \in {"waiting", "leaving"} : call' = [call EXCEPT ![c].pc = s]
      BY <2>5 DEF RegisterWaiter, WaiterTimeout
    <3>2. [call[c] EXCEPT !.pc = s].at = call[c].at
      BY <1>2 DEF CallRec
    <3> QED BY <3>1, <3>2
  <2>6. ASSUME NEW k \in 0 .. MaxLog - 1, ScanRefused(c, k)
        PROVE  \E next : call' = [call EXCEPT ![c] = next] /\ next.at \in {0, call[c].at, now}
    <3>1. call' = [call EXCEPT ![c] = [call[c] EXCEPT !.offset = k + 1]]
      BY <2>6 DEF ScanRefused
    <3>2. [call[c] EXCEPT !.offset = k + 1].at = call[c].at
      BY <1>2 DEF CallRec
    <3> QED BY <3>1, <3>2
  <2> QED BY <2>1, <2>2, <2>3, <2>4, <2>5, <2>6
<1>4. CallsDue'
  BY <1>1, <1>3, CallMovesDue DEF DueInv
<1> QED BY <1>1, <1>4, DueQuiet

\* The scan assigns a record that is due when it is pending, and that was due
\* before when it is in flight.
LEMMA DueScanAssign ==
    ASSUME TypeInv, TypeInv', DueInv, NEW c \in Client, NEW k, NEW o \in Obj,
           ScanAssign(c, k, o)
    PROVE  DueInv'
<1> DEFINE msg == ReadMessage(call[c].part, k)
           g   == GroupOf[c]
           i   == InstanceOf[c]
           taken == Assigned(msg, g, i)
<1> USE DEF TypeInv, DueInv
<1>1. k \in Candidates(c) /\ g \in Group /\ i \in Instance
  BY DEF ScanAssign, NextCandidate
<1>2. /\ call[c].part \in Partition
      /\ k \in Nat /\ k + 1 \in 1 .. Len(log[call[c].part])
      /\ msg \in Message
  BY <1>1, ReadFacts
<1>3. msg.AvailableAt <= now
  <2>1. Candidate(msg, g, call[c].at)
    BY <1>1 DEF Candidates
  <2>2. CASE msg.State = StatePending /\ msg.AvailableAt <= call[c].at
    <3>1. /\ msg.AvailableAt \in Nat /\ call[c].at \in Nat /\ now \in Nat
          /\ call[c].at <= now
      BY <1>2, MessageFacts DEF TypeOK, CallRec, CallsDue
    <3> HIDE DEF msg
    <3> QED BY <2>2, <3>1
  <2>3. CASE msg.State = StateInFlight
    BY <1>2, <2>3 DEF RecordsDue, ReadMessage
  <2> QED BY <2>1, <2>2, <2>3 DEF Candidate
<1>4. taken.AvailableAt = msg.AvailableAt
  BY <1>1, <1>2, AssignedFacts DEF TypeOK
<1>5. /\ Assign(o, msg, g, i) /\ HeapBecomes([heap EXCEPT ![o] = taken])
      /\ LoopOrReturn(c)
      /\ UNCHANGED <<now, persistent, dlq, roundRobin, waiters, channel,
                     background, locking, publishing, resending, restarts>>
  BY DEF ScanAssign
<1> HIDE DEF msg, g, i, taken
<1>6. \A x \in Live' : heap'[x] = IF x = o THEN taken ELSE heap[x]
  BY <1>5, HeapAfter
<1>7. /\ \A x \in Live' : x \in Live \/ x = o
      /\ \A x \in Recorded' : x \in Recorded \/ x = o
  BY <1>5 DEF Assign, Live, Recorded, TypeOK
<1>8. ObjectsDue'
  BY <1>3, <1>4, <1>5, <1>6, <1>7, ObjectDueWritten
<1>9. CallsDue'
  BY <1>5, LoopDue
<1> QED BY <1>5, <1>8, <1>9, RestDue

\* A call is handed an object that has a record, so it is due already.
LEMMA DueWaiterReceive ==
    ASSUME TypeInv, TypeInv', DueInv, NEW c \in Client, WaiterReceive(c)
    PROVE  DueInv'
<1> DEFINE o   == channel[c]
           msg == heap[o]
           g   == GroupOf[c]
           i   == InstanceOf[c]
           taken == Assigned(msg, g, i)
<1> USE DEF TypeInv, DueInv
<1>1. o \in Obj /\ o \in Live /\ o \in Recorded /\ msg \in Message /\ msg.AvailableAt <= now
  <2>1. o \in Obj /\ o \in Live /\ o \in Recorded
    BY DEF WaiterReceive, TypeOK, Live, Recorded
  <2> QED BY <2>1 DEF Allocated, ObjectsDue, Deref
<1>2. taken.AvailableAt = msg.AvailableAt
  BY <1>1, AssignedFacts DEF TypeOK
<1>3. \/ Assign(o, msg, g, i) /\ HeapBecomes([heap EXCEPT ![o] = taken])
      \/ Refuse(msg, g, i) /\ HeapBecomes(heap)
  BY DEF WaiterReceive, Deref
<1>4. /\ UNCHANGED <<now, log, dlqFile, dlq, roundRobin, delayQueue, sweep, mu, nacking,
                     publishing, resending, restarts>>
      /\ channel' = [channel EXCEPT ![c] = NoObj]
      /\ LoopOrReturn(c)
  BY DEF WaiterReceive
<1> HIDE DEF msg, g, i, taken
<1>5. /\ \A x \in Live' : x \in Live
      /\ \A x \in Recorded' : x \in Recorded
  BY <1>1, <1>3, <1>4, SMTT(60) DEF Assign, Refuse, Live, Recorded, TypeOK
<1> HIDE DEF o
<1>6. ObjectsDue'
  <2>1. CASE HeapBecomes([heap EXCEPT ![o] = taken])
    <3>1. \A x \in Live' : heap'[x] = IF x = o THEN taken ELSE heap[x]
      BY <1>1, <2>1, HeapAfter
    <3> QED BY <1>1, <1>2, <1>4, <1>5, <3>1, ObjectDueWritten
  <2>2. CASE HeapBecomes(heap)
    <3>1. \A x \in Live' : heap'[x] = heap[x]
      BY <2>2, HeapSame
    <3> QED BY <1>4, <1>5, <3>1, ObjectsDueKept
  <2> QED BY <1>3, <2>1, <2>2
<1>7. CallsDue'
  BY <1>4, LoopDue
<1> QED BY <1>4, <1>6, <1>7, RestDue

\* The notifications, and the end of a wait: references move, nothing else.
LEMMA DueHandedOn ==
    ASSUME TypeInv, TypeInv', DueInv, HeapBecomes(heap), CallsDue',
           \A x \in Live' : x \in Live,
           \A x \in Recorded' : x \in Recorded,
           UNCHANGED <<now, log, dlqFile>>
    PROVE  DueInv'
<1> USE DEF TypeInv, DueInv
<1>1. \A x \in Live' : heap'[x] = heap[x]
  BY HeapSame
<1>2. ObjectsDue'
  BY <1>1, ObjectsDueKept
<1> QED BY <1>2, RestDue

\* A publish hands its recorded object on.
LEMMA DuePublishNotify ==
    ASSUME TypeInv, TypeInv', DueInv, NEW m \in Msg, PublishNotify(m)
    PROVE  DueInv'
<1>1. /\ \A x \in Live' : x \in Live
      /\ \A x \in Recorded' : x \in Recorded
  BY DEF PublishNotify, NotifyLongPollWaiters, Live, Recorded, TypeInv, TypeOK
<1>2. CallsDue'
  BY RestDue DEF PublishNotify, TypeInv
<1> QED BY <1>1, <1>2, DueHandedOn DEF PublishNotify

\* A call that gives up waiting drops what it was handed.
LEMMA DueRemoveLongPollWaiter ==
    ASSUME TypeInv, TypeInv', DueInv, NEW c \in Client, RemoveLongPollWaiter(c)
    PROVE  DueInv'
<1>1. /\ \A x \in Live' : x \in Live
      /\ \A x \in Recorded' : x \in Recorded
  BY DEF RemoveLongPollWaiter, Live, Recorded, TypeInv, TypeOK
<1>2. CallsDue'
  <2>1. call' = [call EXCEPT ![c] = NoCall] /\ NoCall.at = 0 /\ now' = now
    BY DEF RemoveLongPollWaiter
  <2> QED BY <2>1, CallMovesDue DEF DueInv, TypeInv
<1> QED BY <1>1, <1>2, DueHandedOn DEF RemoveLongPollWaiter

-----------------------------------------------------------------------------
(* Acks and nacks *)

\* What is settled was in flight, so it was due.
LEMMA SettleDue ==
    ASSUME TypeInv, TypeInv', DueInv, NEW m \in Msg, NEW msg \in Message, Settle(m, msg),
           inFlight[m] # NoObj,
           msg.AvailableAt = heap[inFlight[m]].AvailableAt,
           UNCHANGED <<now, dlqFile, dlq, channel, call, delayQueue, publishing,
                       resending, nacking>>
    PROVE  DueInv'
<1> DEFINE o == inFlight[m]
           known == [msg EXCEPT !.Offset = NextOffset(msg.Partition)]
<1> USE DEF TypeInv
<1>1. o \in Obj /\ o \in Live /\ o \in Recorded
  BY DEF TypeOK, Live, Recorded
<1>2. /\ AppendMessage(msg.Partition, msg) /\ HeapBecomes([heap EXCEPT ![o] = known])
      /\ inFlight' = [inFlight EXCEPT ![m] = NoObj]
  BY DEF Settle
<1>3. known.AvailableAt = msg.AvailableAt /\ known.State = msg.State
  BY DEF Message
<1>4. msg.AvailableAt <= now
  BY <1>1 DEF DueInv, ObjectsDue, Deref
<1> HIDE DEF known
<1>5. /\ \A x \in Live' : x \in Live
      /\ \A x \in Recorded' : x \in Recorded
  BY <1>2, SMTT(60) DEF Live, Recorded, TypeOK
<1> HIDE DEF o
<1> QED BY <1>1, <1>2, <1>3, <1>4, <1>5, DueAppended

\* An ack settles a due message.
LEMMA DueAck ==
    ASSUME TypeInv, TypeInv', DueInv, NEW g \in Group, NEW i \in Instance, NEW m \in Msg,
           Ack(g, i, m)
    PROVE  DueInv'
<1> DEFINE msg == TransitionsState(heap[inFlight[m]], StateAcked)
<1>1. /\ inFlight[m] # NoObj /\ msg \in Message
      /\ msg.AvailableAt = heap[inFlight[m]].AvailableAt
  <2>1. inFlight[m] # NoObj /\ heap[inFlight[m]] \in Message
    BY HeldFacts DEF Ack
  <2>2. msg \in Message
    BY <2>1, MessageFacts DEF MessageState
  <2> QED BY <2>1, <2>2 DEF TransitionsState, Message
<1>2. /\ Settle(m, msg)
      /\ UNCHANGED <<now, dlqFile, dlq, roundRobin, polling, background, locking,
                     publishing, resending, restarts>>
  BY DEF Ack, Deref
<1> HIDE DEF msg
<1> QED BY <1>1, <1>2, SettleDue

\* So does a nack that leaves retries.
LEMMA DueNackRetry ==
    ASSUME TypeInv, TypeInv', DueInv, NEW g \in Group, NEW i \in Instance, NEW m \in Msg,
           NackRetry(g, i, m)
    PROVE  DueInv'
<1> DEFINE pending == TransitionsState(Retried(heap[inFlight[m]]), StatePending)
           msg == [pending EXCEPT !.VisibilityUntil = 0]
<1>1. /\ inFlight[m] # NoObj /\ msg \in Message
      /\ msg.AvailableAt = heap[inFlight[m]].AvailableAt
  <2>1. inFlight[m] # NoObj /\ heap[inFlight[m]] \in Message
    BY HeldFacts DEF NackRetry
  <2>2. Retried(heap[inFlight[m]]) \in Message
    BY <2>1, MessageFacts
  <2>3. pending \in Message /\ pending.AvailableAt = heap[inFlight[m]].AvailableAt
    BY <2>1, <2>2, MessageFacts DEF MessageState, TransitionsState, Retried, Message
  <2> HIDE DEF pending
  <2> QED BY <2>1, <2>3 DEF Message
<1>2. /\ Settle(m, msg)
      /\ UNCHANGED <<now, dlqFile, dlq, roundRobin, polling, background, locking,
                     publishing, resending, restarts>>
  BY DEF NackRetry, Deref
<1> HIDE DEF msg
<1> QED BY <1>1, <1>2, SettleDue

\* What an ack or a nack has taken from the table when the log locks it out.
LEMMA DueSettleBlocks ==
    ASSUME TypeInv, TypeInv', DueInv, NEW g \in Group, NEW i \in Instance, NEW m \in Msg,
           SettleBlocks(g, i, m)
    PROVE  DueInv'
<1> DEFINE o == inFlight[m]
<1> USE DEF TypeInv, DueInv
<1>1. PICK msg \in Message : /\ HeapBecomes([heap EXCEPT ![o] = msg])
                             /\ msg.AvailableAt = heap[o].AvailableAt
  BY SettleBlocksFacts
<1>2. /\ o \in Obj /\ o \in Live
      /\ inFlight' = [inFlight EXCEPT ![m] = NoObj]
      /\ UNCHANGED <<now, persistent, dlq, roundRobin, polling, background,
                     nacking, publishing, resending, restarts>>
  BY SettleBlocksFacts
<1>3. heap[o].AvailableAt <= now
  <2>1. o \in Recorded
    BY <1>2 DEF Recorded
  <2> QED BY <2>1 DEF ObjectsDue, Deref
<1> HIDE DEF o
<1>4. /\ \A x \in Live' : x \in Live
      /\ \A x \in Recorded' : x \in Recorded
  BY <1>2 DEF Live, Recorded, TypeOK
<1>5. \A x \in Live' : heap'[x] = IF x = o THEN msg ELSE heap[x]
  BY <1>1, <1>2, HeapAfter
<1>6. ObjectsDue'
  BY <1>1, <1>2, <1>3, <1>4, <1>5, ObjectDueWritten
<1> QED BY <1>2, <1>6, RestDue

\* The dead letter, in memory and in the file, was in flight.
LEMMA DueNackDLQ ==
    ASSUME TypeInv, TypeInv', DueInv, NEW g \in Group, NEW i \in Instance, NEW m \in Msg,
           NackDLQ(g, i, m)
    PROVE  DueInv'
<1> DEFINE o   == inFlight[m]
           msg == TransitionsState(Retried(heap[o]), StateDLQ)
<1> USE DEF TypeInv, DueInv
<1>1. /\ o \in Obj /\ o \in Live /\ o \in Recorded /\ o # NoObj /\ heap[o] \in Message
      /\ heap[o].AvailableAt <= now
  <2>1. o \in Obj /\ o \in Live /\ o # NoObj /\ heap[o] \in Message
    BY HeldFacts DEF NackDLQ
  <2>2. o \in Recorded
    BY <2>1 DEF Recorded
  <2> QED BY <2>1, <2>2 DEF ObjectsDue, Deref
<1>2. msg.AvailableAt = heap[o].AvailableAt /\ msg.State = StateDLQ
  <2>1. Retried(heap[o]) \in Message /\ Retried(heap[o]).AvailableAt = heap[o].AvailableAt
    BY <1>1, MessageFacts DEF Retried, Message
  <2> QED BY <1>1, <2>1 DEF TransitionsState, Message
<1>3. /\ HeapBecomes([heap EXCEPT ![o] = msg])
      /\ nacking' = [group |-> g, inst |-> i, obj |-> o]
      /\ inFlight' = [inFlight EXCEPT ![m] = NoObj]
      /\ dlq' = [dlq EXCEPT ![m] = o]
      /\ dlqFile' = [dlqFile EXCEPT ![m] = msg]
      /\ UNCHANGED <<now, log, groups, roundRobin, polling, background,
                     publishing, resending, restarts>>
  BY DEF NackDLQ, Deref
<1> HIDE DEF msg
<1>4. /\ \A x \in Live' : x \in Live
      /\ \A x \in Recorded' : x \in Recorded
  BY <1>1, <1>3 DEF Live, Recorded, TypeOK
<1> HIDE DEF o
<1>5. \A x \in Live' : heap'[x] = IF x = o THEN msg ELSE heap[x]
  BY <1>1, <1>3, HeapAfter
<1>6. ObjectsDue'
  BY <1>1, <1>2, <1>3, <1>4, <1>5, ObjectDueWritten
<1>7. FileDue'
  BY <1>1, <1>2, <1>3 DEF FileDue, TypeOK
<1> QED BY <1>3, <1>6, <1>7, RestDue

\* The dead letter's own record.
LEMMA DueNackDLQAppend ==
    ASSUME TypeInv, TypeInv', DueInv, NackDLQAppend
    PROVE  DueInv'
<1> DEFINE o == nacking.obj
           msg == heap[o]
           known == [msg EXCEPT !.Offset = NextOffset(msg.Partition)]
<1> USE DEF TypeInv
<1>1. o \in Obj /\ o \in Live /\ o \in Recorded /\ msg \in Message
  BY DEF NackDLQAppend, TypeOK, OperationsValid, Allocated, Live, Recorded
<1>2. /\ AppendMessage(msg.Partition, msg) /\ HeapBecomes([heap EXCEPT ![o] = known])
      /\ nacking' = NoNack
      /\ UNCHANGED <<now, dlqFile, inFlight, dlq, roundRobin, polling, background,
                     publishing, resending, restarts>>
  BY DEF NackDLQAppend, Deref
<1>3. known.AvailableAt = msg.AvailableAt /\ known.State = msg.State
  BY <1>1 DEF Message
<1>4. msg.AvailableAt <= now
  BY <1>1 DEF DueInv, ObjectsDue, Deref
<1> HIDE DEF known
<1>5. /\ \A x \in Live' : x \in Live
      /\ \A x \in Recorded' : x \in Recorded
  BY <1>2 DEF Live, Recorded, TypeOK
<1> HIDE DEF o
<1> QED BY <1>1, <1>2, <1>3, <1>4, <1>5, DueAppended

-----------------------------------------------------------------------------
(* The administrator's resend *)

\* A dead letter passes from the map to the resend.
LEMMA DueResendRemove ==
    ASSUME TypeInv, TypeInv', DueInv, NEW m \in Msg, ResendRemove(m)
    PROVE  DueInv'
<1> USE DEF TypeInv, DueInv
<1>1. /\ \A x \in Live' : x \in Live
      /\ \A x \in Recorded' : x \in Recorded
  BY DEF ResendRemove, Live, Recorded, TypeOK
<1>2. ObjectsDue'
  BY <1>1, ObjectsDueKept DEF ResendRemove
<1> QED BY <1>2, RestDue DEF ResendRemove

\* The five writes leave its AvailableAt alone.
LEMMA DueResendReset ==
    ASSUME TypeInv, TypeInv', DueInv, NEW m \in Msg, ResendReset(m)
    PROVE  DueInv'
<1> DEFINE o == resending[m].obj
           msg == ResetWrite(heap[o], resending[m].pc)
<1>1. /\ o \in Obj /\ msg \in Message
      /\ msg.AvailableAt = heap[o].AvailableAt
      /\ heap' = [heap EXCEPT ![o] = msg]
  BY ResendResetFacts, ResetFacts
<1>2. PICK rec \in ResendRec : /\ rec.obj = o
                              /\ resending' = [resending EXCEPT ![m] = rec]
  BY ResendResetFacts
<1>3. Live' = Live
  BY TypeResendReset
<1> USE DEF TypeInv, DueInv
<1>4. \A n \in Msg : resending'[n].obj = resending[n].obj
  BY <1>2 DEF TypeOK
<1>5. \A x \in Recorded' : x \in Recorded
  BY <1>4 DEF ResendReset, Recorded
<1>6. o \in Recorded /\ heap[o].AvailableAt <= now
  <2>1. o \in Recorded
    BY <1>1 DEF Recorded
  <2> QED BY <2>1 DEF ObjectsDue, Deref
<1> HIDE DEF o, msg
<1>7. \A x \in Live' : heap'[x] = IF x = o THEN msg ELSE heap[x]
  <2>1. \A x \in Live' : x \in Obj
    BY <1>3, LiveAddresses
  <2> QED BY <1>1, <2>1 DEF TypeOK
<1>8. ObjectsDue'
  BY <1>1, <1>3, <1>5, <1>6, <1>7, ObjectDueWritten DEF ResendReset
<1> QED BY <1>8, RestDue DEF ResendReset

\* The record of a resent message is pending or, when a call was handed the
\* object meanwhile, a copy of one in flight.
LEMMA DueResendAppend ==
    ASSUME TypeInv, TypeInv', DueInv, NEW m \in Msg, ResendAppend(m)
    PROVE  DueInv'
<1> DEFINE o   == resending[m].obj
           msg == heap[o]
           next == [resending[m] EXCEPT !.pc = "offset", !.offset = NextOffset(msg.Partition)]
<1> USE DEF TypeInv, DueInv
<1>1. /\ o \in Obj /\ o \in Recorded /\ msg \in Message /\ msg.Partition \in Partition
  BY ResendFacts DEF ResendAppend, OperationsValid, Recorded
<1>2. /\ AppendMessage(msg.Partition, msg)
      /\ resending' = [resending EXCEPT ![m] = next]
      /\ UNCHANGED <<now, dlqFile, heap, tables, roundRobin, polling,
                     background, locking, publishing, restarts>>
  BY DEF ResendAppend, Deref
<1>3. next.obj = o
  BY DEF TypeOK
<1> HIDE DEF next
<1>4. /\ \A x \in Live' : x \in Live
      /\ \A x \in Recorded' : x \in Recorded
  BY <1>2, <1>3 DEF Live, Recorded, TypeOK
<1>5. ObjectsDue'
  BY <1>2, <1>4, ObjectsDueKept
<1>6. msg.AvailableAt <= now
  BY <1>1 DEF ObjectsDue, Deref
<1>7. RecordsDue'
  BY <1>1, <1>2, <1>6, RecordsDueKept
<1> QED BY <1>2, <1>5, <1>7, RestDue

\* The object learns its offset and stays due.
LEMMA DueResendOffset ==
    ASSUME TypeInv, TypeInv', DueInv, NEW m \in Msg, ResendOffset(m)
    PROVE  DueInv'
<1> DEFINE o == resending[m].obj
           msg == [heap[o] EXCEPT !.Offset = resending[m].offset]
           rec == [resending[m] EXCEPT !.pc = "notify", !.offset = 0]
<1>1. Live' = Live
  BY TypeResendOffset
<1> USE DEF TypeInv, DueInv
<1>2. /\ resending' = [resending EXCEPT ![m] = rec]
      /\ UNCHANGED <<inFlight, dlq, channel, nacking, publishing>>
      /\ heap' = [heap EXCEPT ![o] = msg] /\ now' = now
  BY DEF ResendOffset
<1>3. \A n \in Msg : resending'[n].obj = resending[n].obj
  BY <1>2 DEF TypeOK
<1>4. \A x \in Recorded' : x \in Recorded
  BY <1>2, <1>3 DEF Recorded
<1>5. o \in Obj /\ o \in Recorded /\ heap[o] \in Message
  BY ResendFacts DEF ResendOffset, OperationsValid, Recorded
<1>6. msg.AvailableAt = heap[o].AvailableAt /\ heap[o].AvailableAt <= now
  BY <1>5 DEF ObjectsDue, Deref, Message
<1> HIDE DEF o, msg, rec
<1>7. \A x \in Live' : heap'[x] = IF x = o THEN msg ELSE heap[x]
  <2>1. \A x \in Live' : x \in Obj
    BY <1>1, LiveAddresses
  <2> QED BY <1>2, <1>5, <2>1 DEF TypeOK
<1>8. ObjectsDue'
  <2>1. now' = now
    BY <1>2
  <2> QED BY <1>1, <2>1, <1>4, <1>6, <1>7, ObjectDueWritten
<1> QED BY <1>8, RestDue DEF ResendOffset

\* The waiting calls are handed a due object.
LEMMA DueResendNotify ==
    ASSUME TypeInv, TypeInv', DueInv, NEW m \in Msg, ResendNotify(m)
    PROVE  DueInv'
<1>1. /\ \A x \in Live' : x \in Live
      /\ \A x \in Recorded' : x \in Recorded
  BY DEF ResendNotify, NotifyLongPollWaiters, Live, Recorded, TypeInv, TypeOK
<1>2. CallsDue'
  BY RestDue DEF ResendNotify, TypeInv
<1> QED BY <1>1, <1>2, DueHandedOn DEF ResendNotify

-----------------------------------------------------------------------------
(* The background sweeps, the clock and a restart *)

\* A released message stays as due as it was.
LEMMA DueRelease ==
    ASSUME TypeInv, TypeInv', DueInv, NEW S, Release(S),
           UNCHANGED <<now, log, dlqFile, call, dlq, channel, delayQueue, publishing,
                       resending, nacking>>
    PROVE  DueInv'
<1> USE DEF TypeInv, DueInv
<1>1. /\ \A x \in Live' : x \in Live
      /\ \A x \in Recorded' : x \in Recorded
  BY DEF Release, Live, Recorded, TypeOK
<1>2. \A x \in Live' : x \in Obj /\ heap[x] \in Message
  BY <1>1, LiveAddresses DEF Allocated
<1>3. ASSUME NEW x \in Live'
      PROVE  \/ heap'[x] = heap[x]
             \/ heap'[x].AvailableAt = heap[x].AvailableAt /\ heap'[x].State = StatePending
  <2>1. \/ heap'[x] = heap[x]
        \/ heap'[x] = [TransitionsState(heap[x], StatePending) EXCEPT !.VisibilityUntil = 0]
    BY <1>2 DEF Release, HeapBecomes
  <2> QED BY <1>2, <2>1 DEF TransitionsState, Message
<1>4. \A x \in Recorded' : x \in Live'
  BY DEF Recorded, Live
<1>5. ObjectsDue'
  BY <1>1, <1>3, <1>4, DueStates DEF ObjectsDue, Deref
<1> QED BY <1>5, RestDue

\* Time only makes messages due.
LEMMA DueTick ==
    ASSUME TypeInv, TypeInv', DueInv, Tick
    PROVE  DueInv'
<1> USE DEF TypeInv, DueInv
<1>1. /\ now \in Nat /\ now' = now + 1
      /\ UNCHANGED <<persistent, heap, tables, roundRobin, polling,
                     background, locking, publishing, resending, restarts>>
  BY DEF Tick, TypeOK
<1>2. \A n \in Nat : n <= now => n <= now'
  BY <1>1
<1>3. ObjectsDue'
  <2>1. \A x \in Live : heap[x].AvailableAt \in Nat
    BY MessageFacts DEF Allocated
  <2>2. Live' = Live /\ Recorded' = Recorded
    BY <1>1 DEF Live, Recorded
  <2> QED BY <1>1, <1>2, <2>1, <2>2, RecordedLive DEF ObjectsDue, Deref
<1>4. FileDue'
  <2>1. \A m \in Msg : dlqFile[m] # NoMessage => dlqFile[m].AvailableAt \in Nat
    BY MessageFacts DEF TypeOK
  <2> QED BY <1>1, <1>2, <2>1 DEF FileDue
<1>5. RecordsDue'
  <2>1. ASSUME NEW p \in Partition, NEW k \in 1 .. Len(log[p])
        PROVE  log[p][k].AvailableAt \in Nat
    <3>1. log[p] \in Seq(Message)
      BY DEF TypeOK
    <3>2. log[p][k] \in Message
      BY <3>1
    <3> QED BY <3>2, MessageFacts
  <2> QED BY <1>1, <1>2, <2>1 DEF RecordsDue
<1>6. CallsDue'
  <2>1. \A c \in Client : call[c].at \in Nat
    BY DEF TypeOK, CallRec
  <2> QED BY <1>1, <1>2, <2>1 DEF CallsDue
<1> QED BY <1>3, <1>4, <1>5, <1>6

\* What a restart reads back from the file is due.
LEMMA DueRestart ==
    ASSUME TypeInv, TypeInv', DueInv, NEW loaded \in [Msg -> Obj \cup {NoObj}],
           Restart(loaded)
    PROVE  DueInv'
<1> DEFINE owner(o) == CHOOSE m \in Msg : loaded[m] = o
<1> USE DEF TypeInv, DueInv
<1>1. /\ dlq' = loaded /\ inFlight' = [m \in Msg |-> NoObj]
      /\ delayQueue' = {} /\ channel' = [c \in Client |-> NoObj]
      /\ publishing' = [m \in Msg |-> NoPublish]
      /\ resending' = [m \in Msg |-> NoResend]
      /\ nacking' = NoNack
      /\ call' = [c \in Client |-> NoCall]
      /\ heap' = [o \in Obj |-> IF \E m \in Msg : loaded[m] = o
                                THEN dlqFile[owner(o)] ELSE NoMessage]
      /\ \A m \in Msg : (loaded[m] = NoObj) <=> (dlqFile[m] = NoMessage)
      /\ UNCHANGED <<now, log, dlqFile>>
  BY DEF Restart
<1>2. \A o \in Obj : (\E m \in Msg : loaded[m] = o) =>
         owner(o) \in Msg /\ loaded[owner(o)] = o
  OBVIOUS
<1> HIDE DEF owner
<1>3. \A o \in Obj : (\E m \in Msg : loaded[m] = o) => dlqFile[owner(o)].AvailableAt <= now
  BY <1>1, <1>2 DEF FileDue
<1>4. /\ \A x \in Live' : x \in Obj /\ \E m \in Msg : loaded[m] = x
      /\ \A x \in Recorded' : x \in Live'
  BY <1>1 DEF Live, Recorded
<1>5. ObjectsDue'
  BY <1>1, <1>3, <1>4 DEF ObjectsDue, Deref
<1>6. CallsDue'
  BY <1>1 DEF CallsDue, TypeOK
<1> QED BY <1>1, <1>5, <1>6, RestDue

-----------------------------------------------------------------------------
(* The theorems *)

\* Every step delivers, keeps and records due messages only.
LEMMA DueStep ==
    ASSUME TypeInv, TypeInv', DueInv, [Next]_vars
    PROVE  DueInv'
<1>1. CASE Publisher
  BY <1>1, DuePublish, DuePublishDelayed, DuePublishNotify, DuePublishDelayedAppend
     DEF Publisher
<1>2. ASSUME UNCHANGED <<now, log, dlqFile, heap, inFlight, dlq, channel, delayQueue,
                         publishing, resending, nacking, call>>
      PROVE  DueInv'
  BY <1>2, DueQuiet, RestDue DEF TypeInv
<1>3. CASE Consumer
  <2>1. ASSUME NEW g \in Group, NEW i \in Instance, Heartbeat(g, i)
        PROVE  DueInv'
    BY <1>2, <2>1 DEF Heartbeat
  <2> QED BY <1>3, <2>1, DueCallOnly, DueScanAssign, DueWaiterReceive,
             DueRemoveLongPollWaiter, DueAck, DueNackRetry, DueNackDLQ, DueNackDLQAppend,
             DueSettleBlocks
          DEF Consumer, ConsumeCall
<1>4. CASE Administrator
  <2>1. ASSUME NEW g \in Group, NEW p \in Partition, NEW k \in ReplayOffsets, Replay(g, p, k)
        PROVE  DueInv'
    BY <1>2, <2>1 DEF Replay
  <2> QED BY <1>4, <2>1, DueResendRemove, DueResendReset, DueResendAppend, DueResendOffset,
             DueResendNotify
          DEF Administrator, Resend
<1>5. CASE Background
  <2>1. CASE CheckVisibilityTimeouts
    BY <2>1, DueRelease DEF CheckVisibilityTimeouts
  <2>2. ASSUME NEW i \in Instance, ReleaseDead(i)
        PROVE  DueInv'
    BY <2>2, DueRelease DEF ReleaseDead
  <2>3. CASE \/ DeadSweepStart \/ RemoveDead \/ \E g \in Group : CheckDead(g)
             \/ \E p \in Partition : CleanupExpired(p)
    BY <1>2, <2>3 DEF DeadSweepStart, RemoveDead, CheckDead, CleanupExpired
  <2> QED BY <1>5, <2>1, <2>2, <2>3, DueProcessDelayQueue DEF Background
<1>6. CASE Crash
  BY <1>6, DueRestart DEF Crash
<1>7. CASE UNCHANGED vars
  BY <1>2, <1>7
<1> QED BY <1>1, <1>3, <1>4, <1>5, <1>6, <1>7, DueTick DEF Next

\* Whatever the broker knows of a message outside the delay queue, in memory, in
\* the DLQ file and in the records of deliveries, says that it is due.
THEOREM DelaysKept == Spec => []DueInv
<1>1. Init => DueInv
  <2> SUFFICES ASSUME Init PROVE DueInv
    OBVIOUS
  <2>1. Live = {} /\ Recorded = {}
    BY DEF Init, Live, Recorded
  <2> QED BY <2>1 DEF Init, DueInv, ObjectsDue, FileDue, RecordsDue, CallsDue
<1> QED BY <1>1, DueStep, TypeCorrect, PTL DEF Spec

\* A delayed message is not delivered before its time, through a scan of the
\* log, a notification, a nack, a resend or a restart (Publish, tryGetNextMessage).
COROLLARY DelaysRespected == Spec => []DeliveredWhenDue
<1>1. DueInv => DeliveredWhenDue
  BY DEF DueInv, ObjectsDue, DeliveredWhenDue, Recorded
<1> QED BY <1>1, DelaysKept, PTL
=============================================================================
