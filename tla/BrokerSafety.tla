---------------------------- MODULE BrokerSafety ----------------------------
(***************************************************************************)
(* The safety invariants of the broker, on top of the types.               *)
(***************************************************************************)
EXTENDS BrokerProofs

USE MessageAssumption, ConsumerGroupAssumption, BrokerAssumption
USE DEF MessageAssumption, ConsumerGroupAssumption, BrokerAssumption
USE DEF vars, persistent, tables, polling, background, locking,
        NoCall, NoPublish, NoResend, NoNack, NoSweep

-----------------------------------------------------------------------------
(* Waiting calls *)

\* What a notification does to the list and the channels.
LEMMA NotifyFacts ==
    ASSUME TypeOK, WaiterInv, NEW o \in Obj, NotifyLongPollWaiters(o), call' = call
    PROVE  WaiterInv'
<1>1. \A c \in Client : channel'[c] = IF c \in waiters /\ channel[c] = NoObj
                                      THEN o ELSE channel[c]
  BY DEF NotifyLongPollWaiters
<1>2. waiters' = {} /\ o # NoObj
  BY DEF NotifyLongPollWaiters
<1> QED BY <1>1, <1>2 DEF WaiterInv, WaiterHasRoom, WaiterNotForgotten

\* A call that starts, scans or returns has neither an entry nor a message.
LEMMA CallMoves ==
    ASSUME TypeOK, WaiterInv, NEW c \in Client, UNCHANGED <<waiters, channel>>,
           call[c].pc \notin {"waiting", "leaving"}, call'[c].pc # "waiting",
           \A d \in Client : d # c => call'[d] = call[d]
    PROVE  WaiterInv'
BY DEF WaiterInv, WaiterHasRoom, WaiterNotForgotten

\* Every step keeps the list of waiters and the channels in order.
LEMMA WaiterStep ==
    ASSUME TypeInv, WaiterInv, [Next]_vars
    PROVE  WaiterInv'
<1> USE DEF TypeInv
<1>1. CASE UNCHANGED polling
  BY <1>1 DEF WaiterInv, WaiterHasRoom, WaiterNotForgotten
<1>2. ASSUME NEW m \in Msg, PublishNotify(m)
      PROVE  WaiterInv'
  <2>1. publishing[m].obj \in Obj
    BY <1>2 DEF PublishNotify, OperationsValid, TypeOK
  <2> QED BY <1>2, <2>1, NotifyFacts DEF PublishNotify
<1>3. ASSUME NEW m \in Msg, ResendNotify(m)
      PROVE  WaiterInv'
  <2>1. resending[m].obj \in Obj
    BY <1>3, ResendFacts DEF ResendNotify
  <2> QED BY <1>3, <2>1, NotifyFacts DEF ResendNotify
<1>4. ASSUME NEW c \in Client,
             \/ ConsumeStart(c) \/ ScanPartition(c) \/ ScanExhausted(c) \/ ConsumeReturn(c)
             \/ \E k \in 0 .. MaxLog - 1 :
                   ScanRefused(c, k) \/ \E o \in Obj : ScanAssign(c, k, o)
      PROVE  WaiterInv'
  <2>1. /\ call'[c].pc # "waiting"
        /\ \A d \in Client : d # c => call'[d] = call[d]
    <3>1. CASE ConsumeStart(c) \/ ScanExhausted(c) \/ ConsumeReturn(c)
      BY <3>1 DEF ConsumeStart, ScanExhausted, ConsumeReturn, Scanning, TypeOK
    <3>2. CASE ScanPartition(c)
      BY <3>2 DEF ScanPartition, TypeOK, CallRec
    <3>3. CASE \E k \in 0 .. MaxLog - 1 : ScanRefused(c, k)
      BY <3>3 DEF ScanRefused, TypeOK, CallRec
    <3>4. CASE \E k \in 0 .. MaxLog - 1, o \in Obj : ScanAssign(c, k, o)
      <4>1. PICK next \in {NoCall, Scanning(0, now)} : call' = [call EXCEPT ![c] = next]
        BY <3>4 DEF ScanAssign, LoopOrReturn
      <4>2. next.pc # "waiting"
        BY DEF Scanning
      <4> QED BY <4>1, <4>2 DEF TypeOK
    <3> QED BY <1>4, <3>1, <3>2, <3>3, <3>4
  <2>2. UNCHANGED <<waiters, channel>> /\ call[c].pc \notin {"waiting", "leaving"}
    BY <1>4 DEF ConsumeStart, ScanPartition, ScanExhausted, ConsumeReturn, ScanRefused,
                ScanAssign, Idle
  <2> QED BY <2>1, <2>2, CallMoves DEF TypeOK
<1>5. ASSUME NEW c \in Client, RegisterWaiter(c)
      PROVE  WaiterInv'
  BY <1>5 DEF RegisterWaiter, WaiterInv, WaiterHasRoom, WaiterNotForgotten, TypeOK, CallRec
<1>6. ASSUME NEW c \in Client, WaiterReceive(c)
      PROVE  WaiterInv'
  <2>1. PICK next \in {NoCall, Scanning(0, now)} : call' = [call EXCEPT ![c] = next]
    BY <1>6 DEF WaiterReceive, LoopOrReturn
  <2>2. next.pc # "waiting"
    BY DEF Scanning
  <2> QED BY <1>6, <2>1, <2>2
          DEF WaiterReceive, WaiterInv, WaiterHasRoom, WaiterNotForgotten, TypeOK
<1>7. ASSUME NEW c \in Client, WaiterTimeout(c)
      PROVE  WaiterInv'
  BY <1>7 DEF WaiterTimeout, WaiterInv, WaiterHasRoom, WaiterNotForgotten, TypeOK, CallRec
<1>8. ASSUME NEW c \in Client, RemoveLongPollWaiter(c)
      PROVE  WaiterInv'
  BY <1>8 DEF RemoveLongPollWaiter, WaiterInv, WaiterHasRoom, WaiterNotForgotten, TypeOK
<1>9. CASE Crash
  BY <1>9 DEF Crash, Restart, WaiterInv, WaiterHasRoom, WaiterNotForgotten
<1>10. CASE Publisher
  <2>1. ASSUME NEW m \in Msg, NEW p \in Partition, NEW o \in Obj,
               Publish(m, p, o) \/ \E d \in Delays : PublishDelayed(m, p, o, d)
        PROVE  UNCHANGED polling
    BY <2>1 DEF Publish, PublishDelayed
  <2>2. ASSUME NEW m \in Msg, PublishDelayedAppend(m)
        PROVE  UNCHANGED polling
    BY <2>2 DEF PublishDelayedAppend
  <2> QED BY <1>1, <1>2, <1>10, <2>1, <2>2 DEF Publisher
<1>11. CASE Consumer
  <2>1. ASSUME NEW g \in Group, NEW i \in Instance,
               \/ Heartbeat(g, i)
               \/ \E m \in Msg : \/ Ack(g, i, m) \/ NackRetry(g, i, m) \/ NackDLQ(g, i, m)
                                 \/ SettleBlocks(g, i, m)
        PROVE  UNCHANGED polling
    BY <2>1 DEF Heartbeat, Ack, NackRetry, NackDLQ, SettleBlocks
  <2>2. NackDLQAppend => UNCHANGED polling
    BY DEF NackDLQAppend
  <2> QED BY <1>1, <1>4, <1>5, <1>6, <1>7, <1>8, <1>11, <2>1, <2>2 DEF Consumer, ConsumeCall
<1>12. CASE Administrator
  <2>1. ASSUME NEW g \in Group, NEW p \in Partition, NEW k \in ReplayOffsets, Replay(g, p, k)
        PROVE  UNCHANGED polling
    BY <2>1 DEF Replay
  <2>2. ASSUME NEW m \in Msg,
               ResendRemove(m) \/ ResendReset(m) \/ ResendAppend(m) \/ ResendOffset(m)
        PROVE  UNCHANGED polling
    BY <2>2 DEF ResendRemove, ResendReset, ResendAppend, ResendOffset
  <2> QED BY <1>1, <1>3, <1>12, <2>1, <2>2 DEF Administrator, Resend
<1>13. CASE Background
  <2>1. UNCHANGED polling
    BY <1>13 DEF Background, CheckVisibilityTimeouts, DeadSweepStart, RemoveDead, CheckDead,
                 ReleaseDead, ProcessDelayQueue, CleanupExpired
  <2> QED BY <1>1, <2>1
<1>14. CASE Tick
  BY <1>1, <1>14 DEF Tick
<1>15. CASE UNCHANGED vars
  BY <1>1, <1>15
<1> QED BY <1>9, <1>10, <1>11, <1>12, <1>13, <1>14, <1>15 DEF Next

\* A Consume call that waits is in the list of waiters or has its message in its
\* channel, and no notification finds a full channel, in every interleaving of
\* registrations, notifications and timeouts.
THEOREM WaitersCorrect == Spec => []WaiterInv
<1>1. Init => WaiterInv
  BY DEF Init, WaiterInv, WaiterHasRoom, WaiterNotForgotten
<1> QED BY <1>1, WaiterStep, TypeCorrect, PTL DEF Spec

-----------------------------------------------------------------------------
(* Offsets *)

\* Of the operators on groups only the two setters move an offset, and only the
\* one they are asked to.
LEMMA GroupOffsets ==
    ASSUME NEW cg \in ConsumerGroupRec
    PROVE  /\ \A i \in Instance, t \in Nat :
                 /\ RegisterInstance(cg, i, t).Offsets = cg.Offsets
                 /\ HeartbeatOf(cg, i, t).Offsets = cg.Offsets
           /\ \A i \in Instance : RemoveInstance(cg, i).Offsets = cg.Offsets
           /\ \A i \in Instance, d \in Int : IncrementInFlight(cg, i, d).Offsets = cg.Offsets
<1>1. ASSUME NEW i \in Instance, NEW t \in Nat
      PROVE  /\ RegisterInstance(cg, i, t).Offsets = cg.Offsets
             /\ HeartbeatOf(cg, i, t).Offsets = cg.Offsets
             /\ RemoveInstance(cg, i).Offsets = cg.Offsets
  BY DEF RegisterInstance, HeartbeatOf, RemoveInstance, ConsumerGroupRec
<1>2. ASSUME NEW i \in Instance, NEW d \in Int
      PROVE  IncrementInFlight(cg, i, d).Offsets = cg.Offsets
  BY DEF IncrementInFlight, ConsumerGroupRec
<1>3. \A i \in Instance : RemoveInstance(cg, i).Offsets = cg.Offsets
  BY DEF RemoveInstance, ConsumerGroupRec
<1> QED BY <1>1, <1>2, <1>3

\* The offsets stay within the log if a step moves one group's record, each of
\* its offsets staying where it is or being set to a place in the log.
LEMMA GroupMoves ==
    ASSUME TypeOK, TypeOK', OffsetWithinLog, LogGrows, NEW g \in Group,
           \A gg \in Group : gg # g => groups'[gg] = groups[gg],
           GroupExists(g)' =>
              \A p \in Partition :
                 \/ GroupExists(g) /\ groups'[g].Offsets[p] = groups[g].Offsets[p]
                 \/ groups'[g].Offsets[p] <= Len(log'[p])
    PROVE  OffsetWithinLog' /\ OffsetMoves
<1>1. ASSUME NEW gg \in Group, NEW p \in Partition, GroupExists(gg)'
      PROVE  \/ GroupExists(gg) /\ groups'[gg].Offsets[p] = groups[gg].Offsets[p]
             \/ groups'[gg].Offsets[p] <= Len(log'[p])
  <2>1. CASE gg = g
    BY <1>1, <2>1
  <2>2. CASE gg # g
    BY <1>1, <2>2 DEF GroupExists
  <2> QED BY <2>1, <2>2
<1>2. ASSUME NEW gg \in Group \ Replayable, NEW p \in Partition, GroupExists(gg)'
      PROVE  groups'[gg].Offsets[p] <= Len(log'[p])
  <2>1. /\ Len(log[p]) \in Nat /\ Len(log'[p]) \in Nat /\ Len(log[p]) <= Len(log'[p])
        /\ groups'[gg].Offsets[p] \in Int
    BY <1>2 DEF LogGrows, TypeOK, GroupExists, ConsumerGroupRec
  <2>2. GroupExists(gg) => groups[gg].Offsets[p] <= Len(log[p])
    BY DEF OffsetWithinLog, GetOffset, NextOffset
  <2> QED BY <1>1, <1>2, <2>1, <2>2
<1> QED BY <1>1, <1>2 DEF OffsetMoves, OffsetWithinLog, GetOffset, NextOffset

\* A step that moves no group.
LEMMA GroupsStay ==
    ASSUME TypeOK, TypeOK', OffsetWithinLog, LogGrows, groups' = groups
    PROVE  OffsetWithinLog' /\ OffsetMoves
<1>1. ASSUME NEW gg \in Group \ Replayable, NEW p \in Partition, GroupExists(gg)
      PROVE  groups[gg].Offsets[p] <= Len(log'[p])
  <2>1. /\ Len(log[p]) \in Nat /\ Len(log'[p]) \in Nat /\ Len(log[p]) <= Len(log'[p])
        /\ groups[gg].Offsets[p] \in Int
        /\ groups[gg].Offsets[p] <= Len(log[p])
    BY <1>1 DEF LogGrows, TypeOK, GroupExists, ConsumerGroupRec, OffsetWithinLog, GetOffset,
                NextOffset
  <2> QED BY <2>1
<1> QED BY <1>1 DEF OffsetMoves, OffsetWithinLog, GroupExists, GetOffset, NextOffset

\* A counter that moves, or a heartbeat, leaves the offsets alone.
LEMMA SettleOffsets ==
    ASSUME TypeOK, TypeOK', OffsetWithinLog, LogGrows, NEW g \in Group, NEW i \in Instance,
           SettleCount(g, i)
    PROVE  OffsetWithinLog' /\ OffsetMoves
<1>1. CASE GroupExists(g)
  <2>1. groups[g] \in ConsumerGroupRec
    BY <1>1 DEF TypeOK, GroupExists
  <2>2. groups' = [groups EXCEPT ![g] = IncrementInFlight(groups[g], i, -1)]
    BY <1>1 DEF SettleCount
  <2>3. groups'[g].Offsets = groups[g].Offsets
    BY <2>1, <2>2, GroupOffsets, SMTT(60) DEF TypeOK
  <2>4. \A gg \in Group : gg # g => groups'[gg] = groups[gg]
    BY <2>2 DEF TypeOK
  <2> QED BY <1>1, <2>3, <2>4, GroupMoves
<1>2. CASE ~GroupExists(g)
  BY <1>2, GroupsStay DEF SettleCount
<1> QED BY <1>1, <1>2

\* The record a message leaves behind.
LEMMA RecordAppended ==
    ASSUME TypeOK, RecordsBehind, NEW msg \in Message,
           AppendMessage(msg.Partition, msg), msg.Offset <= NextOffset(msg.Partition)
    PROVE  RecordsBehind'
<1> DEFINE p == msg.Partition
<1>1. p \in Partition /\ msg.Offset \in Nat
  BY MessageFacts
<1> SUFFICES ASSUME NEW q \in Partition, NEW k \in 1 .. Len(log'[q])
             PROVE  log'[q][k].Offset < k /\ log'[q][k].Partition = q
  BY DEF RecordsBehind
<1>2. /\ \A r \in Partition : r # p => log'[r] = log[r]
      /\ Len(log'[p]) = Len(log[p]) + 1
      /\ \A r \in Partition : \A j \in 1 .. Len(log[r]) : log'[r][j] = log[r][j]
      /\ log'[p][Len(log[p]) + 1] = msg
      /\ Len(log[p]) \in Nat
  BY <1>1, AppendTypes, SMTT(60) DEF TypeOK, LogGrows
<1>3. CASE k \in 1 .. Len(log[q])
  <2>1. log[q][k].Offset < k /\ log[q][k].Partition = q
    BY <1>3 DEF RecordsBehind
  <2> QED BY <1>2, <1>3, <2>1
<1>4. CASE k \notin 1 .. Len(log[q])
  <2>1. q = p /\ k = Len(log[p]) + 1
    BY <1>2, <1>4
  <2> QED BY <1>1, <1>2, <2>1 DEF NextOffset
<1> QED BY <1>3, <1>4

\* What has a record keeps it.
LEMMA LoggedKept ==
    ASSUME LogGrows, NEW msg \in Message
    PROVE  /\ msg.Offset < NextOffset(msg.Partition) => msg.Offset < Len(log'[msg.Partition])
           /\ msg.Offset <= NextOffset(msg.Partition) => msg.Offset <= Len(log'[msg.Partition])
<1>1. msg.Partition \in Partition /\ msg.Offset \in Nat
  BY MessageFacts
<1> QED BY <1>1 DEF LogGrows, NextOffset

\* Dead letters of the file keep their record while the log only grows.
LEMMA FileKept ==
    ASSUME TypeOK, FileLogged, LogGrows, dlqFile' = dlqFile
    PROVE  FileLogged'
<1> SUFFICES ASSUME NEW m \in Msg, dlqFile[m] # NoMessage
             PROVE  dlqFile[m].Offset < Len(log'[dlqFile[m].Partition])
  BY DEF FileLogged, Logged, NextOffset
<1>1. dlqFile[m] \in Message /\ Logged(dlqFile[m])
  BY DEF TypeOK, FileLogged
<1> QED BY <1>1, LoggedKept DEF Logged

\* What has a record is referred to.
LEMMA RecordedLive == Recorded \subseteq Live
BY DEF Recorded, Live

\* The objects after a step that writes one of them, or none: o is the one, msg
\* what it holds then.
LEMMA ObjectWritten ==
    ASSUME TypeInv, ObjectsLogged, LogGrows, NEW o \in Obj, NEW msg \in Message,
           \A x \in Live' : heap'[x] = IF x = o THEN msg ELSE heap[x],
           \A x \in Live' : x \in Live \/ x = o,
           \A x \in Recorded' : x \in Recorded \/ x = o,
           o \in Live => msg.Partition = heap[o].Partition,
           msg.Offset <= Len(log'[msg.Partition]),
           o \in Recorded' => msg.Offset < Len(log'[msg.Partition]),
           \A m \in Msg : resending'[m].pc = "offset" => resending'[m] = resending[m]
    PROVE  ObjectsLogged'
<1> USE DEF TypeInv
<1>1. \A x \in Live : x \in Obj /\ heap[x] \in Message
                      /\ heap[x].Offset <= NextOffset(heap[x].Partition)
  BY LiveAddresses DEF Allocated, ObjectsLogged, Deref
<1>2. ASSUME NEW x \in Live'
      PROVE  heap'[x].Offset <= Len(log'[heap'[x].Partition])
  BY <1>1, LoggedKept
<1>3. ASSUME NEW x \in Recorded'
      PROVE  heap'[x].Offset < Len(log'[heap'[x].Partition])
  <2>1. x \in Live'
    BY RecordedLive DEF Recorded, Live
  <2>2. CASE x = o
    BY <2>1, <2>2
  <2>3. CASE x # o
    <3>1. x \in Recorded /\ heap'[x] = heap[x]
      BY <2>1, <2>3
    <3>2. heap[x] \in Message /\ heap[x].Offset < NextOffset(heap[x].Partition)
      BY <3>1, <1>1, RecordedLive DEF ObjectsLogged, Logged, Deref
    <3> QED BY <3>1, <3>2, LoggedKept
  <2> QED BY <2>2, <2>3
<1>4. ASSUME NEW m \in Msg, resending'[m].pc = "offset"
      PROVE  resending'[m].offset < Len(log'[heap'[resending'[m].obj].Partition])
  <2> DEFINE x == resending[m].obj
             p == heap[x].Partition
  <2>1. resending'[m] = resending[m] /\ resending[m].pc = "offset"
    BY <1>4
  <2>2. x # NoObj /\ x \in Live /\ x \in Live' /\ resending[m].offset \in Nat
    BY <2>1 DEF OperationsValid, Live, TypeOK
  <2>3. p \in Partition
    BY <1>1, <2>2, MessageFacts
  <2>4. heap'[x].Partition = p
    BY <2>2
  <2>5. resending[m].offset < Len(log[p])
    BY <2>1 DEF ObjectsLogged, Deref, NextOffset
  <2> HIDE DEF p
  <2> QED BY <2>1, <2>2, <2>3, <2>4, <2>5 DEF LogGrows
<1> QED BY <1>2, <1>3, <1>4 DEF ObjectsLogged, Logged, Deref, NextOffset

\* A step that leaves the offset and the partition of every object alone.
LEMMA ObjectsKept ==
    ASSUME TypeInv, ObjectsLogged, LogGrows,
           \A x \in Live' : /\ x \in Live
                            /\ heap'[x].Offset = heap[x].Offset
                            /\ heap'[x].Partition = heap[x].Partition,
           \A x \in Recorded' : x \in Recorded,
           \A m \in Msg : resending'[m].pc = "offset" => resending'[m] = resending[m]
    PROVE  ObjectsLogged'
<1> USE DEF TypeInv
<1>1. \A x \in Live : x \in Obj /\ heap[x] \in Message
                      /\ heap[x].Offset <= NextOffset(heap[x].Partition)
  BY LiveAddresses DEF Allocated, ObjectsLogged, Deref
<1>2. ASSUME NEW x \in Live'
      PROVE  heap'[x].Offset <= Len(log'[heap'[x].Partition])
  <2>1. heap[x] \in Message /\ heap[x].Offset <= NextOffset(heap[x].Partition)
    BY <1>1
  <2>2. heap[x].Offset <= Len(log'[heap[x].Partition])
    BY <2>1, LoggedKept
  <2> QED BY <2>2
<1>3. ASSUME NEW x \in Recorded'
      PROVE  heap'[x].Offset < Len(log'[heap'[x].Partition])
  <2>1. x \in Live' /\ x \in Recorded /\ x \in Live
    <3>1. x \in Live'
      BY DEF Recorded, Live
    <3> QED BY <3>1
  <2>2. heap[x] \in Message /\ heap[x].Offset < NextOffset(heap[x].Partition)
    BY <2>1, <1>1 DEF ObjectsLogged, Logged, Deref
  <2>3. heap[x].Offset < Len(log'[heap[x].Partition])
    BY <2>2, LoggedKept
  <2> QED BY <2>1, <2>3
<1>4. ASSUME NEW m \in Msg, resending'[m].pc = "offset"
      PROVE  resending'[m].offset < Len(log'[heap'[resending'[m].obj].Partition])
  <2> DEFINE x == resending[m].obj
             p == heap[x].Partition
  <2>1. resending'[m] = resending[m] /\ resending[m].pc = "offset"
    BY <1>4
  <2>2. x # NoObj /\ x \in Live /\ x \in Live' /\ resending[m].offset \in Nat
    BY <2>1 DEF OperationsValid, Live, TypeOK
  <2>3. p \in Partition
    BY <1>1, <2>2, MessageFacts
  <2>4. heap'[x].Partition = p
    BY <2>2
  <2>5. resending[m].offset < Len(log[p])
    BY <2>1 DEF ObjectsLogged, Deref, NextOffset
  <2> HIDE DEF p
  <2> QED BY <2>1, <2>2, <2>3, <2>4, <2>5 DEF LogGrows
<1> QED BY <1>2, <1>3, <1>4 DEF ObjectsLogged, Logged, Deref, NextOffset

\* A step that ends with HeapBecomes, as the lemmas above need it.
LEMMA HeapAfter ==
    ASSUME TypeInv, NEW o \in Obj, NEW msg,
           HeapBecomes([heap EXCEPT ![o] = msg]) \/ heap' = [heap EXCEPT ![o] = msg],
           TypeOK'
    PROVE  \A x \in Live' : heap'[x] = IF x = o THEN msg ELSE heap[x]
<1>1. \A x \in Live' : x \in Obj
  BY DEF Live, TypeOK
<1> QED BY <1>1 DEF HeapBecomes, TypeInv, TypeOK

\* The same for a step that writes no object.
LEMMA HeapSame ==
    ASSUME TypeInv, HeapBecomes(heap) \/ heap' = heap, TypeOK'
    PROVE  \A x \in Live' : heap'[x] = heap[x]
<1>1. \A x \in Live' : x \in Obj
  BY DEF Live, TypeOK
<1> QED BY <1>1 DEF HeapBecomes, TypeInv, TypeOK

\* A step that writes neither the log nor the file.
LEMMA NothingAppended ==
    ASSUME TypeOK, RecordsBehind, FileLogged, log' = log, dlqFile' = dlqFile
    PROVE  LogGrows /\ RecordsBehind' /\ FileLogged'
<1>1. LogGrows
  BY LogKept
<1>2. RecordsBehind'
  BY DEF RecordsBehind
<1> QED BY <1>1, <1>2, FileKept

-----------------------------------------------------------------------------
\* A publish learns the offset of the record it has appended.
LEMMA OffsetPublish ==
    ASSUME TypeInv, TypeInv', OffsetInv,
           NEW m \in Msg, NEW p \in Partition, NEW o \in Obj, Publish(m, p, o)
    PROVE  OffsetInv' /\ OffsetMoves
<1> DEFINE msg == NewMessage(m, p, now)
           known == [msg EXCEPT !.Offset = NextOffset(p)]
<1> USE DEF TypeInv, OffsetInv
<1>1. /\ msg \in Message /\ msg.Offset = 0 /\ msg.Partition = p
      /\ NextOffset(p) \in Nat
  <2>1. msg \in Message
    BY MessageFacts DEF TypeOK
  <2>2. msg.Offset = 0 /\ msg.Partition = p
    BY DEF NewMessage
  <2>3. NextOffset(p) \in Nat
    BY DEF TypeOK, NextOffset
  <2> QED BY <2>1, <2>2, <2>3
<1>2. /\ AppendMessage(p, msg) /\ HeapBecomes([heap EXCEPT ![o] = known])
      /\ publishing' = [publishing EXCEPT ![m] = [pc |-> "notify", obj |-> o]]
      /\ o \notin Live
      /\ UNCHANGED <<now, dlqFile, tables, polling, background, locking, resending, restarts>>
  BY DEF Publish
<1> HIDE DEF msg
<1>3. known \in Message /\ known.Offset = NextOffset(p) /\ known.Partition = p
  BY <1>1, MessageFacts DEF Message
<1> HIDE DEF known
<1>4. LogGrows /\ Len(log'[p]) = NextOffset(p) + 1
  BY <1>1, <1>2, AppendTypes DEF TypeOK, NextOffset
<1>5. RecordsBehind'
  BY <1>1, <1>2, RecordAppended
<1>6. \A x \in Live' : heap'[x] = IF x = o THEN known ELSE heap[x]
  BY <1>2, HeapAfter
<1>7. /\ \A x \in Live' : x \in Live \/ x = o
      /\ \A x \in Recorded' : x \in Recorded \/ x = o
  BY <1>2, SMTT(60) DEF Live, Recorded, TypeOK
<1>8. ObjectsLogged'
  BY <1>1, <1>2, <1>3, <1>4, <1>6, <1>7, ObjectWritten
<1>9. OffsetWithinLog' /\ FileLogged' /\ OffsetMoves
  BY <1>2, <1>4, GroupsStay, FileKept
<1> QED BY <1>5, <1>8, <1>9

\* A delayed publish makes an object without a record.
LEMMA OffsetPublishDelayed ==
    ASSUME TypeInv, TypeInv', OffsetInv,
           NEW m \in Msg, NEW p \in Partition, NEW o \in Obj, NEW d \in Delays,
           PublishDelayed(m, p, o, d)
    PROVE  OffsetInv' /\ OffsetMoves
<1> DEFINE msg == NewMessage(m, p, now + d)
<1> USE DEF TypeInv, OffsetInv
<1>1. msg \in Message /\ msg.Offset = 0
  <2>1. now + d \in Nat
    BY DEF TypeOK
  <2>2. msg.Offset = 0
    BY DEF NewMessage
  <2> QED BY <2>1, <2>2, MessageFacts
<1>2. /\ HeapBecomes([heap EXCEPT ![o] = msg])
      /\ delayQueue' = delayQueue \cup {o}
      /\ publishing' = [publishing EXCEPT ![m] = [pc |-> "append", obj |-> o]]
      /\ o \notin Live
      /\ UNCHANGED <<now, persistent, tables, polling, sweep, locking, resending, restarts>>
  BY DEF PublishDelayed
<1> HIDE DEF msg
<1>3. LogGrows /\ RecordsBehind' /\ FileLogged'
  BY <1>2, NothingAppended
<1>4. \A x \in Live' : heap'[x] = IF x = o THEN msg ELSE heap[x]
  BY <1>1, <1>2, HeapAfter
<1>5. /\ \A x \in Live' : x \in Live \/ x = o
      /\ \A x \in Recorded' : x \in Recorded /\ x # o
  BY <1>2, SMTT(60) DEF Live, Recorded, TypeOK
<1>6. msg.Offset <= Len(log'[msg.Partition])
  BY <1>1, <1>3, MessageFacts DEF LogGrows
<1>7. ObjectsLogged'
  BY <1>1, <1>2, <1>3, <1>4, <1>5, <1>6, ObjectWritten
<1>8. OffsetWithinLog' /\ OffsetMoves
  BY <1>2, <1>3, GroupsStay
<1> QED BY <1>3, <1>7, <1>8

\* The second half of a delayed publish, and the delay queue's second append:
\* an object without a record gets one.
LEMMA OffsetFirstRecord ==
    ASSUME TypeInv, TypeInv', OffsetInv, NEW o \in Obj, NEW msg \in Message,
           msg.Partition = heap[o].Partition, msg.Offset = heap[o].Offset, o \in Live,
           AppendMessage(msg.Partition, msg),
           HeapBecomes([heap EXCEPT ![o] = [msg EXCEPT !.Offset = NextOffset(msg.Partition)]]),
           \A x \in Live' : x \in Live,
           \A x \in Recorded' : x \in Recorded \/ x = o,
           UNCHANGED <<dlqFile, resending>>
    PROVE  ObjectsLogged' /\ FileLogged' /\ RecordsBehind' /\ LogGrows
<1> DEFINE p == msg.Partition
           known == [msg EXCEPT !.Offset = NextOffset(p)]
<1> USE DEF TypeInv, OffsetInv
<1>1. p \in Partition /\ NextOffset(p) \in Nat
  <2>1. p \in Partition
    BY MessageFacts
  <2> QED BY <2>1, SMTT(60) DEF TypeOK, NextOffset
<1>2. known \in Message /\ known.Offset = NextOffset(p) /\ known.Partition = p
  BY <1>1, MessageFacts DEF Message
<1>3. HeapBecomes([heap EXCEPT ![o] = known])
  OBVIOUS
<1> HIDE DEF known
<1>4. LogGrows /\ Len(log'[p]) = NextOffset(p) + 1
  BY <1>1, AppendTypes DEF TypeOK, NextOffset
<1>5. RecordsBehind'
  <2>1. msg.Offset <= NextOffset(p)
    BY DEF ObjectsLogged, Deref
  <2> QED BY <2>1, RecordAppended
<1>6. \A x \in Live' : heap'[x] = IF x = o THEN known ELSE heap[x]
  BY <1>3, HeapAfter
<1>7. ObjectsLogged'
  BY <1>1, <1>2, <1>4, <1>6, ObjectWritten, SMTT(60)
<1> QED BY <1>4, <1>5, <1>7, FileKept

\* A delayed publish appends its object's first record.
LEMMA OffsetPublishDelayedAppend ==
    ASSUME TypeInv, TypeInv', OffsetInv, NEW m \in Msg, PublishDelayedAppend(m)
    PROVE  OffsetInv' /\ OffsetMoves
<1> DEFINE o == publishing[m].obj
           msg == heap[o]
<1> USE DEF TypeInv, OffsetInv
<1>1. o \in Obj /\ o \in Live /\ msg \in Message
  BY DEF PublishDelayedAppend, OperationsValid, TypeOK, Live, Allocated
<1>2. /\ AppendMessage(msg.Partition, msg)
      /\ HeapBecomes([heap EXCEPT ![o] = [msg EXCEPT !.Offset = NextOffset(msg.Partition)]])
      /\ publishing' = [publishing EXCEPT ![m] = NoPublish]
      /\ UNCHANGED <<now, dlqFile, tables, roundRobin, polling, background,
                     locking, resending, restarts>>
  BY DEF PublishDelayedAppend, Deref
<1> HIDE DEF o
<1>3. /\ \A x \in Live' : x \in Live
      /\ \A x \in Recorded' : x \in Recorded
  BY <1>2 DEF Live, Recorded, TypeOK
<1>4. ObjectsLogged' /\ FileLogged' /\ RecordsBehind' /\ LogGrows
  BY <1>1, <1>2, <1>3, OffsetFirstRecord
<1> QED BY <1>2, <1>4, GroupsStay

\* The delay queue's task appends a due message once more.
LEMMA OffsetProcessDelayQueue ==
    ASSUME TypeInv, TypeInv', OffsetInv, NEW o \in Obj, ProcessDelayQueue(o)
    PROVE  OffsetInv' /\ OffsetMoves
<1> DEFINE msg == [heap[o] EXCEPT !.AvailableAt = now]
<1> USE DEF TypeInv, OffsetInv
<1>1. o \in Live /\ heap[o] \in Message
  BY DEF ProcessDelayQueue, Live, Allocated
<1>2. /\ msg \in Message /\ msg.Partition = heap[o].Partition /\ msg.Offset = heap[o].Offset
  BY <1>1, MessageFacts DEF TypeOK, Message
<1>3. /\ AppendMessage(msg.Partition, msg)
      /\ HeapBecomes([heap EXCEPT ![o] = [msg EXCEPT !.Offset = NextOffset(msg.Partition)]])
      /\ delayQueue' = delayQueue \ {o}
      /\ UNCHANGED <<now, dlqFile, tables, roundRobin, polling, sweep,
                     nacking, publishing, resending, restarts>>
  BY DEF ProcessDelayQueue, Deref
<1> HIDE DEF msg
<1>4. /\ \A x \in Live' : x \in Live
      /\ \A x \in Recorded' : x \in Recorded
  BY <1>3 DEF Live, Recorded
<1>5. ObjectsLogged' /\ FileLogged' /\ RecordsBehind' /\ LogGrows
  BY <1>1, <1>2, <1>3, <1>4, OffsetFirstRecord
<1> QED BY <1>3, <1>5, GroupsStay

\* The steps that change no group, object, record or reference.
LEMMA OffsetQuiet ==
    ASSUME TypeInv, TypeInv', OffsetInv,
           UNCHANGED <<log, dlqFile, heap, inFlight, dlq, groups, channel, delayQueue,
                       publishing, resending, nacking>>
    PROVE  OffsetInv' /\ OffsetMoves
<1>1. OffsetInv'
  BY DEF OffsetInv, OffsetWithinLog, NextOffset, GroupExists, ObjectsLogged, Live, Recorded,
         Deref, Logged, FileLogged, RecordsBehind
<1>2. OffsetMoves
  BY DEF OffsetMoves, GroupExists
<1> QED BY <1>1, <1>2

\* The steps that change one group only.
LEMMA OffsetGroupOnly ==
    ASSUME TypeInv, TypeInv', OffsetInv, NEW g \in Group, NEW cg \in ConsumerGroupRec,
           groups' = [groups EXCEPT ![g] = cg],
           \A p \in Partition : \/ GroupExists(g) /\ cg.Offsets[p] = groups[g].Offsets[p]
                                \/ cg.Offsets[p] <= Len(log[p]),
           UNCHANGED <<log, dlqFile, heap, inFlight, dlq, channel, delayQueue, publishing,
                       resending, nacking>>
    PROVE  OffsetInv' /\ OffsetMoves
<1> USE DEF TypeInv, OffsetInv
<1>1. LogGrows /\ RecordsBehind' /\ FileLogged'
  BY NothingAppended
<1>2. ObjectsLogged'
  BY DEF ObjectsLogged, Live, Recorded, Deref, Logged, NextOffset
<1>3. groups'[g] = cg /\ \A gg \in Group : gg # g => groups'[gg] = groups[gg]
  BY DEF TypeOK
<1>4. OffsetWithinLog' /\ OffsetMoves
  BY <1>1, <1>3, GroupMoves
<1> QED BY <1>1, <1>2, <1>4

\* A new group starts at the beginning of the log, a known one where it was.
LEMMA OffsetConsumeStart ==
    ASSUME TypeInv, TypeInv', OffsetInv, NEW c \in Client, ConsumeStart(c)
    PROVE  OffsetInv' /\ OffsetMoves
<1> DEFINE g  == GroupOf[c]
           old == IF GroupExists(g) THEN groups[g] ELSE NewConsumerGroup
           cg == RegisterInstance(old, InstanceOf[c], now)
<1> USE DEF TypeInv
<1>1. g \in Group /\ InstanceOf[c] \in Instance /\ now \in Nat
  BY DEF TypeOK
<1>2. old \in ConsumerGroupRec
  BY <1>1, GroupFacts DEF TypeOK, GroupExists
<1>3. groups' = [groups EXCEPT ![g] = cg]
  BY DEF ConsumeStart
<1>4. \A p \in Partition : \/ GroupExists(g) /\ old.Offsets[p] = groups[g].Offsets[p]
                           \/ old.Offsets[p] <= Len(log[p])
  BY DEF NewConsumerGroup, TypeOK
<1> HIDE DEF g, old
<1>5. cg \in ConsumerGroupRec /\ cg.Offsets = old.Offsets
  <2>1. cg \in ConsumerGroupRec
    BY <1>1, <1>2, GroupFacts
  <2>2. cg.Offsets = old.Offsets
    BY <1>1, <1>2, GroupOffsets
  <2> QED BY <2>1, <2>2
<1> HIDE DEF cg
<1>6. \A p \in Partition : \/ GroupExists(g) /\ cg.Offsets[p] = groups[g].Offsets[p]
                           \/ cg.Offsets[p] <= Len(log[p])
  BY <1>4, <1>5
<1> QED BY <1>1, <1>3, <1>5, <1>6, OffsetGroupOnly DEF ConsumeStart

\* A heartbeat moves no offset.
LEMMA OffsetHeartbeat ==
    ASSUME TypeInv, TypeInv', OffsetInv, NEW g \in Group, NEW i \in Instance, Heartbeat(g, i)
    PROVE  OffsetInv' /\ OffsetMoves
<1> DEFINE cg == HeartbeatOf(groups[g], i, now)
<1>1. groups[g] \in ConsumerGroupRec /\ now \in Nat
  BY DEF Heartbeat, TypeInv, TypeOK, GroupExists
<1>2. cg \in ConsumerGroupRec /\ cg.Offsets = groups[g].Offsets
  <2>1. cg \in ConsumerGroupRec
    BY <1>1, GroupFacts
  <2>2. cg.Offsets = groups[g].Offsets
    BY <1>1, GroupOffsets
  <2> QED BY <2>1, <2>2
<1>3. groups' = [groups EXCEPT ![g] = cg] /\ GroupExists(g)
  BY DEF Heartbeat
<1> HIDE DEF cg
<1> QED BY <1>2, <1>3, OffsetGroupOnly DEF Heartbeat

\* A replay request moves one offset, of a group that may be moved.
LEMMA OffsetReplay ==
    ASSUME TypeInv, TypeInv', OffsetInv, NEW g \in Group, NEW p \in Partition,
           NEW k \in ReplayOffsets, Replay(g, p, k)
    PROVE  OffsetInv' /\ OffsetMoves
<1> DEFINE cg == SetAllOffsets(groups[g], [q \in {p} |-> k])
<1> USE DEF TypeInv, OffsetInv
<1>1. groups[g] \in ConsumerGroupRec /\ g \in Replayable /\ GroupExists(g)
  BY DEF Replay, TypeOK, GroupExists
<1>2. ASSUME NEW q \in Partition, q # p
      PROVE  cg.Offsets[q] = groups[g].Offsets[q]
  BY <1>1, <1>2 DEF SetAllOffsets, ConsumerGroupRec
<1>3. /\ groups' = [groups EXCEPT ![g] = cg]
      /\ UNCHANGED <<now, persistent, heap, inFlight, dlq, roundRobin, polling,
                     background, locking, publishing, resending, restarts>>
  BY DEF Replay
<1> HIDE DEF cg
<1>4. groups'[g] = cg /\ \A gg \in Group : gg # g => groups'[gg] = groups[gg]
  BY <1>3 DEF TypeOK
<1>5. RecordsBehind' /\ FileLogged'
  BY <1>3, NothingAppended
<1>6. ObjectsLogged'
  BY <1>3 DEF ObjectsLogged, Live, Recorded, Deref, Logged, NextOffset
<1>7. OffsetWithinLog'
  BY <1>1, <1>3, <1>4 DEF OffsetWithinLog, GroupExists, NextOffset
<1>8. OffsetMoves
  <2> SUFFICES ASSUME NEW gg \in Group, NEW q \in Partition, GroupExists(gg)'
               PROVE  \/ GroupExists(gg) /\ GetOffset(groups'[gg], q) = GetOffset(groups[gg], q)
                      \/ \E j \in ReplayOffsets : Replay(gg, q, j)
    BY DEF OffsetMoves
  <2>1. CASE gg = g /\ q = p
    BY <2>1
  <2>2. CASE gg = g /\ q # p
    BY <1>1, <1>2, <1>4, <2>2 DEF GetOffset
  <2>3. CASE gg # g
    BY <1>4, <2>3 DEF GroupExists
  <2> QED BY <2>1, <2>2, <2>3
<1> QED BY <1>5, <1>6, <1>7, <1>8

\* Removing an instance moves no offset.
LEMMA OffsetRemoveDead ==
    ASSUME TypeInv, TypeInv', OffsetInv, RemoveDead
    PROVE  OffsetInv' /\ OffsetMoves
<1> DEFINE g  == sweep.group
           cg == RemoveInstance(groups[g], sweep.inst)
<1>1. g \in Group /\ groups[g] \in ConsumerGroupRec /\ sweep.inst \in Instance /\ GroupExists(g)
  BY DEF RemoveDead, TypeInv, SweepValid, TypeOK, GroupExists
<1>2. cg \in ConsumerGroupRec /\ cg.Offsets = groups[g].Offsets
  <2>1. cg \in ConsumerGroupRec
    BY <1>1, GroupFacts
  <2>2. cg.Offsets = groups[g].Offsets
    BY <1>1, GroupOffsets
  <2> QED BY <2>1, <2>2
<1>3. groups' = [groups EXCEPT ![g] = cg]
  BY DEF RemoveDead
<1> HIDE DEF g, cg
<1> QED BY <1>1, <1>2, <1>3, OffsetGroupOnly DEF RemoveDead

\* An assignment moves an offset only to the place behind the message's own
\* offset, and a refusal moves none.
LEMMA AssignOffsets ==
    ASSUME TypeOK, TypeOK', OffsetWithinLog, LogGrows, NEW o, NEW msg \in Message,
           NEW g \in Group, NEW i \in Instance, GroupExists(g),
           Assign(o, msg, g, i) \/ Refuse(msg, g, i), Logged(msg)
    PROVE  OffsetWithinLog' /\ OffsetMoves
<1>1. groups[g] \in ConsumerGroupRec /\ now \in Nat
  BY DEF TypeOK, GroupExists
<1>2. CASE Assign(o, msg, g, i)
  <2> DEFINE counted == IncrementInFlight(groups[g], i, 1)
             next == IF msg.State = StatePending
                     THEN SetOffset(counted, msg.Partition, msg.Offset + 1)
                     ELSE counted
  <2>1. counted \in ConsumerGroupRec /\ counted.Offsets = groups[g].Offsets
    <3>1. counted \in ConsumerGroupRec
      BY <1>1, GroupFacts
    <3>2. counted.Offsets = groups[g].Offsets
      BY <1>1, GroupOffsets
    <3> QED BY <3>1, <3>2
  <2>2. msg.Partition \in Partition /\ msg.Offset + 1 \in Nat
    BY MessageFacts
  <2>3. msg.Offset + 1 <= Len(log'[msg.Partition])
    <3>1. msg.Offset \in Nat
      BY MessageFacts
    <3> QED BY <2>2, <3>1 DEF Logged, NextOffset, LogGrows
  <2>4. groups' = [groups EXCEPT ![g] = next]
    BY <1>2 DEF Assign
  <2> HIDE DEF counted
  <2>5. ASSUME NEW q \in Partition
        PROVE  SetOffset(counted, msg.Partition, msg.Offset + 1).Offsets[q]
                 = IF q = msg.Partition THEN msg.Offset + 1 ELSE counted.Offsets[q]
    BY <2>1, <2>2 DEF SetOffset, ConsumerGroupRec
  <2>6. \A q \in Partition : \/ next.Offsets[q] = groups[g].Offsets[q]
                             \/ next.Offsets[q] <= Len(log'[q])
    BY <2>1, <2>3, <2>5
  <2> HIDE DEF next
  <2>7. groups'[g] = next /\ \A gg \in Group : gg # g => groups'[gg] = groups[gg]
    BY <2>4 DEF TypeOK
  <2> QED BY <2>6, <2>7, GroupMoves
<1>3. CASE Refuse(msg, g, i)
  <2> DEFINE next == IF Leased(msg) THEN groups[g]
                     ELSE HeartbeatOf(groups[g], msg.ConsumerInstance, now)
  <2>1. next.Offsets = groups[g].Offsets
    <3>1. CASE Leased(msg)
      BY <3>1
    <3>2. CASE ~Leased(msg)
      <4>1. msg.ConsumerInstance \in Instance
        BY <1>3, <3>2, MessageFacts DEF Refuse, HeldByOther
      <4>2. HeartbeatOf(groups[g], msg.ConsumerInstance, now).Offsets = groups[g].Offsets
        BY <1>1, <4>1, GroupOffsets
      <4> QED BY <3>2, <4>2
    <3> QED BY <3>1, <3>2
  <2>2. groups' = [groups EXCEPT ![g] = next]
    BY <1>3 DEF Refuse
  <2> HIDE DEF next
  <2>3. groups'[g] = next /\ \A gg \in Group : gg # g => groups'[gg] = groups[gg]
    BY <2>2 DEF TypeOK
  <2> QED BY <2>1, <2>3, GroupMoves
<1> QED BY <1>2, <1>3

\* A record that a call has found.
LEMMA RecordLogged ==
    ASSUME TypeInv, OffsetInv, NEW c \in Client, NEW k, k \in Candidates(c)
    PROVE  Logged(ReadMessage(call[c].part, k))
<1>1. /\ call[c].part \in Partition /\ k \in Nat
      /\ k + 1 \in 1 .. Len(log[call[c].part])
      /\ ReadMessage(call[c].part, k) \in Message
  BY ReadFacts
<1>2. /\ ReadMessage(call[c].part, k).Offset < k + 1
      /\ ReadMessage(call[c].part, k).Partition = call[c].part
  BY <1>1 DEF OffsetInv, RecordsBehind, ReadMessage
<1>3. ReadMessage(call[c].part, k).Offset \in Nat
  BY <1>1, MessageFacts
<1> QED BY <1>1, <1>2, <1>3 DEF Logged, NextOffset, TypeInv, TypeOK

\* A record that was read sets the offset from its own, stale, field.
LEMMA OffsetScanAssign ==
    ASSUME TypeInv, TypeInv', OffsetInv, NEW c \in Client, NEW k, NEW o \in Obj,
           ScanAssign(c, k, o)
    PROVE  OffsetInv' /\ OffsetMoves
<1> DEFINE msg == ReadMessage(call[c].part, k)
           g   == GroupOf[c]
           i   == InstanceOf[c]
           taken == Assigned(msg, g, i)
<1> USE DEF TypeInv, OffsetInv
<1>1. msg \in Message /\ g \in Group /\ i \in Instance /\ GroupExists(g) /\ Logged(msg)
  BY ReadFacts, RecordLogged DEF ScanAssign, NextCandidate, CallsValid
<1>2. /\ Assign(o, msg, g, i) /\ HeapBecomes([heap EXCEPT ![o] = taken])
      /\ o \notin Live
      /\ UNCHANGED <<now, persistent, dlq, roundRobin, waiters, channel,
                     background, locking, publishing, resending, restarts>>
  BY DEF ScanAssign
<1>3. taken \in Message /\ taken.Offset = msg.Offset /\ taken.Partition = msg.Partition
  BY <1>1, AssignedFacts DEF TypeOK
<1> HIDE DEF msg, g, i, taken
<1>4. LogGrows /\ RecordsBehind' /\ FileLogged'
  BY <1>2, NothingAppended
<1>5. OffsetWithinLog' /\ OffsetMoves
  BY <1>1, <1>2, <1>4, AssignOffsets
<1>6. \A x \in Live' : heap'[x] = IF x = o THEN taken ELSE heap[x]
  BY <1>2, HeapAfter
<1>7. /\ \A x \in Live' : x \in Live \/ x = o
      /\ \A x \in Recorded' : x \in Recorded \/ x = o
  BY <1>2 DEF Assign, Live, Recorded, TypeOK
<1>8. taken.Offset < Len(log'[taken.Partition]) /\ taken.Offset <= Len(log'[taken.Partition])
  <2>1. taken.Offset \in Nat /\ taken.Partition \in Partition
    BY <1>3, MessageFacts
  <2> QED BY <1>1, <1>3, <1>4, <2>1 DEF Logged, NextOffset, LogGrows
<1>9. ObjectsLogged'
  BY <1>2, <1>3, <1>4, <1>6, <1>7, <1>8, ObjectWritten
<1> QED BY <1>4, <1>5, <1>9

\* A refused record moves no offset.
LEMMA OffsetScanRefused ==
    ASSUME TypeInv, TypeInv', OffsetInv, NEW c \in Client, NEW k, ScanRefused(c, k)
    PROVE  OffsetInv' /\ OffsetMoves
<1> DEFINE msg == ReadMessage(call[c].part, k)
           g   == GroupOf[c]
           i   == InstanceOf[c]
<1> USE DEF TypeInv, OffsetInv
<1>1. msg \in Message /\ g \in Group /\ i \in Instance /\ GroupExists(g) /\ Logged(msg)
  BY ReadFacts, RecordLogged DEF ScanRefused, NextCandidate, CallsValid
<1>2. /\ Refuse(msg, g, i)
      /\ UNCHANGED <<now, persistent, heap, dlq, roundRobin, waiters, channel,
                     background, locking, publishing, resending, restarts>>
  BY DEF ScanRefused
<1> HIDE DEF msg, g, i
<1>3. LogGrows /\ RecordsBehind' /\ FileLogged'
  BY <1>2, NothingAppended
<1>4. OffsetWithinLog' /\ OffsetMoves
  BY <1>1, <1>2, <1>3, AssignOffsets
<1>5. ObjectsLogged'
  BY <1>2 DEF Refuse, ObjectsLogged, Live, Recorded, Deref, Logged, NextOffset
<1> QED BY <1>3, <1>4, <1>5

\* An object that was handed over sets the offset from its real one.
LEMMA OffsetWaiterReceive ==
    ASSUME TypeInv, TypeInv', OffsetInv, NEW c \in Client, WaiterReceive(c)
    PROVE  OffsetInv' /\ OffsetMoves
<1> DEFINE o   == channel[c]
           msg == heap[o]
           g   == GroupOf[c]
           i   == InstanceOf[c]
           taken == Assigned(msg, g, i)
<1> USE DEF TypeInv, OffsetInv
<1>1. o \in Obj /\ o \in Live /\ o \in Recorded /\ msg \in Message /\ Logged(msg)
  <2>1. o \in Obj /\ o \in Live /\ o \in Recorded
    BY DEF WaiterReceive, TypeOK, Live, Recorded
  <2> QED BY <2>1 DEF Allocated, ObjectsLogged, Deref
<1>2. g \in Group /\ i \in Instance /\ GroupExists(g)
  BY DEF WaiterReceive, CallsValid
<1>3. taken \in Message /\ taken.Offset = msg.Offset /\ taken.Partition = msg.Partition
  BY <1>1, <1>2, AssignedFacts DEF TypeOK
<1>4. \/ Assign(o, msg, g, i) /\ HeapBecomes([heap EXCEPT ![o] = taken])
      \/ Refuse(msg, g, i) /\ HeapBecomes(heap)
  BY DEF WaiterReceive, Deref
<1>5. /\ UNCHANGED <<now, log, dlqFile, dlq, roundRobin, delayQueue, sweep, mu, nacking,
                     publishing, resending, restarts>>
      /\ channel' = [channel EXCEPT ![c] = NoObj]
  BY DEF WaiterReceive
<1> HIDE DEF msg, g, i, taken
<1>6. LogGrows /\ RecordsBehind' /\ FileLogged'
  BY <1>5, NothingAppended
<1>7. OffsetWithinLog' /\ OffsetMoves
  BY <1>1, <1>2, <1>4, <1>6, AssignOffsets
<1>8. /\ \A x \in Live' : x \in Live
      /\ \A x \in Recorded' : x \in Recorded
  BY <1>1, <1>4, <1>5, SMTT(60) DEF Assign, Refuse, Live, Recorded, TypeOK
<1> HIDE DEF o
<1>9. CASE HeapBecomes([heap EXCEPT ![o] = taken])
  <2>1. \A x \in Live' : heap'[x] = IF x = o THEN taken ELSE heap[x]
    BY <1>1, <1>9, HeapAfter
  <2>2. \A x \in Live' : /\ heap'[x].Offset = heap[x].Offset
                         /\ heap'[x].Partition = heap[x].Partition
    BY <2>1, <1>3 DEF msg
  <2> QED BY <1>5, <1>6, <1>7, <1>8, <2>2, ObjectsKept
<1>10. CASE HeapBecomes(heap)
  <2>1. \A x \in Live' : heap'[x] = heap[x]
    BY <1>10, HeapSame
  <2> QED BY <1>5, <1>6, <1>7, <1>8, <2>1, ObjectsKept
<1> QED BY <1>4, <1>9, <1>10

\* The notifications, and the end of a wait: references move, nothing else.
LEMMA OffsetHandedOn ==
    ASSUME TypeInv, TypeInv', OffsetInv, HeapBecomes(heap),
           \A x \in Live' : x \in Live,
           \A x \in Recorded' : x \in Recorded,
           \A m \in Msg : resending'[m].pc = "offset" => resending'[m] = resending[m],
           UNCHANGED <<log, dlqFile, groups>>
    PROVE  OffsetInv' /\ OffsetMoves
<1> USE DEF TypeInv, OffsetInv
<1>1. LogGrows /\ RecordsBehind' /\ FileLogged'
  BY NothingAppended
<1>2. \A x \in Live' : heap'[x] = heap[x]
  BY HeapSame
<1>3. ObjectsLogged'
  BY <1>1, <1>2, ObjectsKept
<1> QED BY <1>1, <1>3, GroupsStay

\* A publish only hands its recorded object on.
LEMMA OffsetPublishNotify ==
    ASSUME TypeInv, TypeInv', OffsetInv, NEW m \in Msg, PublishNotify(m)
    PROVE  OffsetInv' /\ OffsetMoves
<1>1. /\ \A x \in Live' : x \in Live
      /\ \A x \in Recorded' : x \in Recorded
  BY DEF PublishNotify, NotifyLongPollWaiters, Live, Recorded, TypeInv, TypeOK
<1> QED BY <1>1, OffsetHandedOn DEF PublishNotify

\* A call that gives up waiting moves no offset.
LEMMA OffsetRemoveLongPollWaiter ==
    ASSUME TypeInv, TypeInv', OffsetInv, NEW c \in Client, RemoveLongPollWaiter(c)
    PROVE  OffsetInv' /\ OffsetMoves
<1>1. /\ \A x \in Live' : x \in Live
      /\ \A x \in Recorded' : x \in Recorded
  BY DEF RemoveLongPollWaiter, Live, Recorded, TypeInv, TypeOK
<1> QED BY <1>1, OffsetHandedOn DEF RemoveLongPollWaiter

\* An ack, or a nack that leaves retries.
LEMMA SettleLogged ==
    ASSUME TypeInv, TypeInv', OffsetInv, NEW m \in Msg, NEW msg \in Message, Settle(m, msg),
           inFlight[m] # NoObj,
           msg.Offset = heap[inFlight[m]].Offset,
           msg.Partition = heap[inFlight[m]].Partition,
           UNCHANGED <<dlqFile, dlq, channel, delayQueue, publishing, resending, nacking>>
    PROVE  LogGrows /\ RecordsBehind' /\ ObjectsLogged' /\ FileLogged'
<1> DEFINE o == inFlight[m]
           known == [msg EXCEPT !.Offset = NextOffset(msg.Partition)]
<1> USE DEF TypeInv, OffsetInv
<1>1. o \in Obj /\ o \in Live
  BY DEF TypeOK, Live
<1>2. /\ AppendMessage(msg.Partition, msg) /\ HeapBecomes([heap EXCEPT ![o] = known])
      /\ inFlight' = [inFlight EXCEPT ![m] = NoObj]
  BY DEF Settle
<1>3. /\ \A x \in Live' : x \in Live
      /\ \A x \in Recorded' : x \in Recorded
  BY <1>2, SMTT(60) DEF Live, Recorded, TypeOK
<1> HIDE DEF o
<1> QED BY <1>1, <1>2, <1>3, OffsetFirstRecord DEF o

\* An ack appends a record and gives the object its offset.
LEMMA OffsetAck ==
    ASSUME TypeInv, TypeInv', OffsetInv, NEW g \in Group, NEW i \in Instance, NEW m \in Msg,
           Ack(g, i, m)
    PROVE  OffsetInv' /\ OffsetMoves
<1> DEFINE msg == TransitionsState(heap[inFlight[m]], StateAcked)
<1> USE DEF TypeInv, OffsetInv
<1>1. /\ inFlight[m] # NoObj /\ msg \in Message
      /\ msg.Offset = heap[inFlight[m]].Offset
      /\ msg.Partition = heap[inFlight[m]].Partition
  <2>1. inFlight[m] # NoObj /\ heap[inFlight[m]] \in Message
    BY HeldFacts DEF Ack
  <2>2. msg \in Message
    BY <2>1, MessageFacts DEF MessageState
  <2> QED BY <2>1, <2>2 DEF TransitionsState, Message
<1>2. /\ Settle(m, msg) /\ SettleCount(g, i)
      /\ UNCHANGED <<now, dlqFile, dlq, roundRobin, polling, background, locking,
                     publishing, resending, restarts>>
  BY DEF Ack, Deref
<1> HIDE DEF msg
<1>3. LogGrows /\ RecordsBehind' /\ ObjectsLogged' /\ FileLogged'
  BY <1>1, <1>2, SettleLogged
<1> QED BY <1>2, <1>3, SettleOffsets

\* So does a nack that leaves retries.
LEMMA OffsetNackRetry ==
    ASSUME TypeInv, TypeInv', OffsetInv, NEW g \in Group, NEW i \in Instance, NEW m \in Msg,
           NackRetry(g, i, m)
    PROVE  OffsetInv' /\ OffsetMoves
<1> DEFINE pending == TransitionsState(Retried(heap[inFlight[m]]), StatePending)
           msg == [pending EXCEPT !.VisibilityUntil = 0]
<1> USE DEF TypeInv, OffsetInv
<1>1. /\ inFlight[m] # NoObj /\ msg \in Message
      /\ msg.Offset = heap[inFlight[m]].Offset
      /\ msg.Partition = heap[inFlight[m]].Partition
  <2>1. inFlight[m] # NoObj /\ heap[inFlight[m]] \in Message
    BY HeldFacts DEF NackRetry
  <2>2. Retried(heap[inFlight[m]]) \in Message
    BY <2>1, MessageFacts
  <2>3. /\ pending \in Message
        /\ pending.Offset = heap[inFlight[m]].Offset
        /\ pending.Partition = heap[inFlight[m]].Partition
    BY <2>1, <2>2, MessageFacts DEF MessageState, TransitionsState, Retried, Message
  <2> HIDE DEF pending
  <2> QED BY <2>1, <2>3 DEF Message
<1>2. /\ Settle(m, msg) /\ SettleCount(g, i)
      /\ UNCHANGED <<now, dlqFile, dlq, roundRobin, polling, background, locking,
                     publishing, resending, restarts>>
  BY DEF NackRetry, Deref
<1> HIDE DEF msg
<1>3. LogGrows /\ RecordsBehind' /\ ObjectsLogged' /\ FileLogged'
  BY <1>1, <1>2, SettleLogged
<1> QED BY <1>2, <1>3, SettleOffsets

\* An ack or a nack that waits for the log has appended nothing.
LEMMA OffsetSettleBlocks ==
    ASSUME TypeInv, TypeInv', OffsetInv, NEW g \in Group, NEW i \in Instance, NEW m \in Msg,
           SettleBlocks(g, i, m)
    PROVE  OffsetInv' /\ OffsetMoves
<1> DEFINE o == inFlight[m]
<1> USE DEF TypeInv, OffsetInv
<1>1. PICK msg \in Message : /\ HeapBecomes([heap EXCEPT ![o] = msg])
                             /\ msg.Offset = heap[o].Offset
                             /\ msg.Partition = heap[o].Partition
  BY SettleBlocksFacts
<1>2. /\ o \in Obj
      /\ inFlight' = [inFlight EXCEPT ![m] = NoObj]
      /\ UNCHANGED <<now, persistent, dlq, roundRobin, polling, background,
                     nacking, publishing, resending, restarts>>
      /\ SettleCount(g, i) \/ UNCHANGED groups
  BY SettleBlocksFacts
<1> HIDE DEF o
<1>3. /\ \A x \in Live' : x \in Live
      /\ \A x \in Recorded' : x \in Recorded
  BY <1>2 DEF Live, Recorded, TypeOK
<1>4. LogGrows /\ RecordsBehind' /\ FileLogged'
  BY <1>2, NothingAppended
<1>5. \A x \in Live' : heap'[x] = IF x = o THEN msg ELSE heap[x]
  BY <1>1, <1>2, HeapAfter
<1>6. ObjectsLogged'
  <2>1. \A x \in Live' : /\ x \in Live
                         /\ heap'[x].Offset = heap[x].Offset
                         /\ heap'[x].Partition = heap[x].Partition
    BY <1>1, <1>3, <1>5
  <2> QED BY <1>2, <1>3, <1>4, <2>1, ObjectsKept
<1>7. OffsetWithinLog' /\ OffsetMoves
  BY <1>2, <1>4, SettleOffsets, GroupsStay
<1> QED BY <1>4, <1>6, <1>7

\* The dead letter keeps the offset it had in flight.
LEMMA OffsetNackDLQ ==
    ASSUME TypeInv, TypeInv', OffsetInv, NEW g \in Group, NEW i \in Instance, NEW m \in Msg,
           NackDLQ(g, i, m)
    PROVE  OffsetInv' /\ OffsetMoves
<1> DEFINE o   == inFlight[m]
           msg == TransitionsState(Retried(heap[o]), StateDLQ)
<1> USE DEF TypeInv, OffsetInv
<1>1. o \in Obj /\ o \in Live /\ o # NoObj /\ heap[o] \in Message /\ Logged(heap[o])
  <2>1. o \in Obj /\ o \in Live /\ o # NoObj /\ heap[o] \in Message
    BY HeldFacts DEF NackDLQ
  <2>2. o \in Recorded
    BY <2>1 DEF Recorded
  <2> QED BY <2>1, <2>2 DEF ObjectsLogged, Deref
<1>2. /\ msg \in Message
      /\ msg.Offset = heap[o].Offset
      /\ msg.Partition = heap[o].Partition
  <2>1. Retried(heap[o]) \in Message
    BY <1>1, MessageFacts
  <2> QED BY <1>1, <2>1, MessageFacts DEF MessageState, TransitionsState, Retried, Message
<1>3. /\ HeapBecomes([heap EXCEPT ![o] = msg])
      /\ nacking' = [group |-> g, inst |-> i, obj |-> o]
      /\ inFlight' = [inFlight EXCEPT ![m] = NoObj]
      /\ dlq' = [dlq EXCEPT ![m] = o]
      /\ dlqFile' = [dlqFile EXCEPT ![m] = msg]
      /\ UNCHANGED <<now, log, groups, roundRobin, polling, background,
                     publishing, resending, restarts>>
  BY DEF NackDLQ, Deref
<1> HIDE DEF msg
<1>4. LogGrows /\ RecordsBehind'
  BY <1>3, LogKept DEF RecordsBehind
<1>5. /\ \A x \in Live' : x \in Live
      /\ \A x \in Recorded' : x \in Recorded
  BY <1>1, <1>3 DEF Live, Recorded, TypeOK
<1> HIDE DEF o
<1>6. \A x \in Live' : heap'[x] = IF x = o THEN msg ELSE heap[x]
  BY <1>1, <1>3, HeapAfter
<1>7. ObjectsLogged'
  <2>1. \A x \in Live' : /\ x \in Live
                         /\ heap'[x].Offset = heap[x].Offset
                         /\ heap'[x].Partition = heap[x].Partition
    BY <1>2, <1>5, <1>6
  <2> QED BY <1>3, <1>4, <1>5, <2>1, ObjectsKept
<1>8. FileLogged'
  BY <1>1, <1>2, <1>3 DEF FileLogged, Logged, NextOffset, TypeOK
<1> QED BY <1>3, <1>4, <1>7, <1>8, GroupsStay

\* The dead letter's own record gives it its offset.
LEMMA OffsetNackDLQAppend ==
    ASSUME TypeInv, TypeInv', OffsetInv, NackDLQAppend
    PROVE  OffsetInv' /\ OffsetMoves
<1> DEFINE o == nacking.obj
           msg == heap[o]
<1> USE DEF TypeInv, OffsetInv
<1>1. /\ o \in Obj /\ o \in Live /\ msg \in Message
      /\ nacking.group \in Group /\ nacking.inst \in Instance
  BY DEF NackDLQAppend, TypeOK, OperationsValid, Allocated, Live
<1>2. /\ AppendMessage(msg.Partition, msg)
      /\ HeapBecomes([heap EXCEPT ![o] = [msg EXCEPT !.Offset = NextOffset(msg.Partition)]])
      /\ SettleCount(nacking.group, nacking.inst)
      /\ nacking' = NoNack
      /\ UNCHANGED <<now, dlqFile, inFlight, dlq, roundRobin, polling, background,
                     publishing, resending, restarts>>
  BY DEF NackDLQAppend, Deref
<1>3. /\ \A x \in Live' : x \in Live
      /\ \A x \in Recorded' : x \in Recorded
  BY <1>2 DEF Live, Recorded, TypeOK
<1> HIDE DEF o
<1>4. ObjectsLogged' /\ FileLogged' /\ RecordsBehind' /\ LogGrows
  BY <1>1, <1>2, <1>3, OffsetFirstRecord
<1> QED BY <1>1, <1>2, <1>4, SettleOffsets

\* A resend that takes a dead letter moves no offset.
LEMMA OffsetResendRemove ==
    ASSUME TypeInv, TypeInv', OffsetInv, NEW m \in Msg, ResendRemove(m)
    PROVE  OffsetInv' /\ OffsetMoves
<1> USE DEF TypeInv, OffsetInv
<1>1. LogGrows /\ RecordsBehind' /\ FileLogged'
  BY NothingAppended DEF ResendRemove
<1>2. /\ \A x \in Live' : x \in Live
      /\ \A x \in Recorded' : x \in Recorded
  BY DEF ResendRemove, Live, Recorded, TypeOK
<1>3. \A n \in Msg : resending'[n].pc = "offset" => resending'[n] = resending[n]
  BY DEF ResendRemove, TypeOK
<1>4. ObjectsLogged'
  BY <1>1, <1>2, <1>3, ObjectsKept DEF ResendRemove
<1> QED BY <1>1, <1>4, GroupsStay DEF ResendRemove

\* The five writes leave the offset alone.
LEMMA OffsetResendReset ==
    ASSUME TypeInv, TypeInv', OffsetInv, NEW m \in Msg, ResendReset(m)
    PROVE  OffsetInv' /\ OffsetMoves
<1> DEFINE o == resending[m].obj
           msg == ResetWrite(heap[o], resending[m].pc)
<1>1. /\ o \in Obj /\ msg \in Message
      /\ msg.Offset = heap[o].Offset /\ msg.Partition = heap[o].Partition
      /\ heap' = [heap EXCEPT ![o] = msg]
  BY ResendResetFacts, ResetFacts
<1>2. PICK rec \in ResendRec : /\ rec.obj = o /\ rec.pc # "offset"
                              /\ resending' = [resending EXCEPT ![m] = rec]
  BY ResendResetFacts
<1>3. Live' = Live
  BY TypeResendReset
<1> USE DEF TypeInv, OffsetInv
<1>4. LogGrows /\ RecordsBehind' /\ FileLogged'
  BY NothingAppended DEF ResendReset
<1>5. \A n \in Msg : resending'[n] = IF n = m THEN rec ELSE resending[n]
  BY <1>2 DEF TypeOK
<1>6. \A x \in Recorded' : x \in Recorded
  BY <1>2, <1>5 DEF ResendReset, Recorded
<1>7. \A n \in Msg : resending'[n].pc = "offset" => resending'[n] = resending[n]
  BY <1>2, <1>5
<1> HIDE DEF o, msg
<1>8. \A x \in Live' : heap'[x] = IF x = o THEN msg ELSE heap[x]
  <2>1. \A x \in Live' : x \in Obj
    BY <1>3, LiveAddresses
  <2> QED BY <1>1, <2>1 DEF TypeOK
<1>9. ObjectsLogged'
  BY <1>1, <1>3, <1>4, <1>6, <1>7, <1>8, ObjectsKept
<1> QED BY <1>4, <1>9, GroupsStay DEF ResendReset

\* The offset a resend remembers is that of the record it has appended.
LEMMA OffsetResendAppend ==
    ASSUME TypeInv, TypeInv', OffsetInv, NEW m \in Msg, ResendAppend(m)
    PROVE  OffsetInv' /\ OffsetMoves
<1> DEFINE o   == resending[m].obj
           msg == heap[o]
           p   == msg.Partition
           next == [resending[m] EXCEPT !.pc = "offset", !.offset = NextOffset(p)]
<1> USE DEF TypeInv, OffsetInv
<1>1. /\ o \in Obj /\ o \in Live /\ o # NoObj /\ msg \in Message
      /\ p \in Partition /\ NextOffset(p) \in Nat
  BY ResendFacts DEF ResendAppend, OperationsValid
<1>2. /\ AppendMessage(p, msg)
      /\ resending' = [resending EXCEPT ![m] = next]
      /\ UNCHANGED <<now, dlqFile, heap, tables, roundRobin, polling,
                     background, locking, publishing, restarts>>
  BY DEF ResendAppend, Deref
<1>3. next.obj = o /\ next.offset = NextOffset(p) /\ next.pc = "offset"
  BY DEF TypeOK
<1> HIDE DEF next
<1>4. LogGrows /\ Len(log'[p]) = NextOffset(p) + 1
  BY <1>1, <1>2, AppendTypes DEF TypeOK, NextOffset
<1>5. RecordsBehind'
  <2>1. msg.Offset <= NextOffset(p)
    BY <1>1 DEF ObjectsLogged, Deref
  <2> QED BY <1>1, <1>2, <2>1, RecordAppended
<1>6. resending'[m] = next /\ \A n \in Msg : n # m => resending'[n] = resending[n]
  BY <1>2 DEF TypeOK
<1>7. /\ \A x \in Live' : x \in Live
      /\ \A x \in Recorded' : x \in Recorded
  BY <1>2, <1>3, <1>6 DEF Live, Recorded, TypeOK
<1>8. /\ \A x \in Live : x \in Obj /\ heap[x] \in Message
      /\ \A x \in Recorded : heap[x].Offset < NextOffset(heap[x].Partition)
      /\ \A x \in Live : heap[x].Offset <= NextOffset(heap[x].Partition)
  BY LiveAddresses DEF Allocated, ObjectsLogged, Deref, Logged
<1>9. \A x \in Live' : heap[x].Offset <= Len(log'[heap[x].Partition])
  BY <1>4, <1>7, <1>8, LoggedKept
<1>10. \A x \in Recorded' : heap[x].Offset < Len(log'[heap[x].Partition])
  BY <1>4, <1>7, <1>8, RecordedLive, LoggedKept
<1>11. ASSUME NEW n \in Msg, resending'[n].pc = "offset"
       PROVE  resending'[n].offset < Len(log'[heap[resending'[n].obj].Partition])
  <2>1. CASE n = m
    BY <1>1, <1>3, <1>4, <1>6, <2>1
  <2>2. CASE n # m
    <3> DEFINE x == resending[n].obj
               q == heap[x].Partition
    <3>1. resending'[n] = resending[n] /\ resending[n].pc = "offset"
      BY <1>6, <1>11, <2>2
    <3>2. x \in Live /\ resending[n].offset \in Nat
      BY <3>1 DEF OperationsValid, Live, TypeOK
    <3>3. q \in Partition
      BY <1>8, <3>2, MessageFacts
    <3>4. resending[n].offset < Len(log[q])
      BY <3>1 DEF ObjectsLogged, Deref, NextOffset
    <3> HIDE DEF q
    <3>5. resending[n].offset < Len(log'[q])
      BY <1>4, <3>2, <3>3, <3>4 DEF LogGrows
    <3> QED BY <3>1, <3>5 DEF q
  <2> QED BY <2>1, <2>2
<1>12. ObjectsLogged'
  BY <1>2, <1>9, <1>10, <1>11 DEF ObjectsLogged, Logged, Deref, NextOffset
<1> QED BY <1>2, <1>4, <1>5, <1>12, GroupsStay, FileKept

\* A resend gives the object the offset it remembered.
LEMMA OffsetResendOffset ==
    ASSUME TypeInv, TypeInv', OffsetInv, NEW m \in Msg, ResendOffset(m)
    PROVE  OffsetInv' /\ OffsetMoves
<1> DEFINE o == resending[m].obj
           msg == [heap[o] EXCEPT !.Offset = resending[m].offset]
           rec == [resending[m] EXCEPT !.pc = "notify", !.offset = 0]
<1>1. Live' = Live
  BY TypeResendOffset
<1> USE DEF TypeInv, OffsetInv
<1>2. LogGrows /\ RecordsBehind' /\ FileLogged'
  BY NothingAppended DEF ResendOffset
<1>3. /\ resending' = [resending EXCEPT ![m] = rec]
      /\ UNCHANGED <<inFlight, dlq, channel, nacking, publishing>>
  BY DEF ResendOffset
<1>4. rec.obj = o /\ rec.pc = "notify"
  BY DEF TypeOK
<1> HIDE DEF rec
<1>5. /\ \A n \in Msg : resending'[n].obj = resending[n].obj
      /\ \A n \in Msg : resending'[n].pc = "offset" => resending'[n] = resending[n]
      /\ \A x \in Recorded' : x \in Recorded
  <2>1. \A n \in Msg : resending'[n] = IF n = m THEN rec ELSE resending[n]
    BY <1>3 DEF TypeOK
  <2>2. /\ \A n \in Msg : resending'[n].obj = resending[n].obj
        /\ \A n \in Msg : resending'[n].pc = "offset" => resending'[n] = resending[n]
    BY <1>4, <2>1
  <2>3. \A x \in Recorded' : x \in Recorded
    BY <1>3, <2>2 DEF Recorded
  <2> QED BY <2>2, <2>3
<1>6. /\ o \in Obj /\ msg \in Message /\ msg.Partition = heap[o].Partition
      /\ msg.Offset < Len(log[msg.Partition])
      /\ msg.Partition \in Partition /\ msg.Offset \in Nat
  <2>1. /\ o \in Obj /\ heap[o] \in Message /\ resending[m].offset \in Nat
        /\ resending[m].pc = "offset"
    BY ResendFacts DEF ResendOffset, TypeOK
  <2>2. resending[m].offset < Len(log[heap[o].Partition])
    BY <2>1 DEF ObjectsLogged, Deref, NextOffset
  <2>3. msg \in Message /\ msg.Partition = heap[o].Partition /\ msg.Offset = resending[m].offset
    BY <2>1, MessageFacts DEF Message
  <2>4. msg.Partition \in Partition
    BY <2>3, MessageFacts
  <2> QED BY <2>1, <2>2, <2>3, <2>4
<1>7. heap' = [heap EXCEPT ![o] = msg] /\ log' = log /\ groups' = groups
  BY DEF ResendOffset
<1> HIDE DEF o, msg
<1>8. \A x \in Live' : heap'[x] = IF x = o THEN msg ELSE heap[x]
  BY <1>6, <1>7, HeapAfter
<1>9. msg.Offset < Len(log'[msg.Partition]) /\ msg.Offset <= Len(log'[msg.Partition])
  BY <1>2, <1>6, <1>7 DEF LogGrows
<1>10. ObjectsLogged'
  BY <1>1, <1>2, <1>5, <1>6, <1>8, <1>9, ObjectWritten
<1> QED BY <1>2, <1>7, <1>10, GroupsStay

\* A resend only hands its object on.
LEMMA OffsetResendNotify ==
    ASSUME TypeInv, TypeInv', OffsetInv, NEW m \in Msg, ResendNotify(m)
    PROVE  OffsetInv' /\ OffsetMoves
<1>1. /\ \A x \in Live' : x \in Live
      /\ \A x \in Recorded' : x \in Recorded
  BY DEF ResendNotify, NotifyLongPollWaiters, Live, Recorded, TypeInv, TypeOK
<1>2. \A n \in Msg : resending'[n].pc = "offset" => resending'[n] = resending[n]
  BY DEF ResendNotify, TypeInv, TypeOK
<1> QED BY <1>1, <1>2, OffsetHandedOn DEF ResendNotify

\* The two sweeps that release messages.
LEMMA OffsetRelease ==
    ASSUME TypeInv, TypeInv', OffsetInv, NEW S, Release(S),
           UNCHANGED <<log, dlqFile, dlq, groups, channel, delayQueue, publishing,
                       resending, nacking>>
    PROVE  OffsetInv' /\ OffsetMoves
<1> USE DEF TypeInv, OffsetInv
<1>1. LogGrows /\ RecordsBehind' /\ FileLogged'
  BY NothingAppended
<1>2. /\ \A x \in Live' : x \in Live
      /\ \A x \in Recorded' : x \in Recorded
  BY DEF Release, Live, Recorded, TypeOK
<1>3. \A x \in Live' : x \in Obj /\ heap[x] \in Message
  BY <1>2, LiveAddresses DEF Allocated
<1>4. ASSUME NEW x \in Live'
      PROVE  heap'[x].Offset = heap[x].Offset /\ heap'[x].Partition = heap[x].Partition
  <2>1. \/ heap'[x] = heap[x]
        \/ heap'[x] = [TransitionsState(heap[x], StatePending) EXCEPT !.VisibilityUntil = 0]
    BY <1>3 DEF Release, HeapBecomes
  <2> QED BY <1>3, <2>1 DEF TransitionsState, Message
<1>5. ObjectsLogged'
  BY <1>1, <1>2, <1>4, ObjectsKept
<1> QED BY <1>1, <1>5, GroupsStay

\* After a restart the dead letters of the file have their records still.
LEMMA OffsetRestart ==
    ASSUME TypeInv, TypeInv', OffsetInv, NEW loaded \in [Msg -> Obj \cup {NoObj}],
           Restart(loaded)
    PROVE  OffsetInv' /\ OffsetMoves
<1> DEFINE owner(o) == CHOOSE m \in Msg : loaded[m] = o
<1> USE DEF TypeInv, OffsetInv
<1>1. /\ dlq' = loaded /\ inFlight' = [m \in Msg |-> NoObj]
      /\ groups' = [g \in Group |-> NoSuchGroup]
      /\ delayQueue' = {} /\ channel' = [c \in Client |-> NoObj]
      /\ publishing' = [m \in Msg |-> NoPublish]
      /\ resending' = [m \in Msg |-> NoResend]
      /\ nacking' = NoNack
      /\ heap' = [o \in Obj |-> IF \E m \in Msg : loaded[m] = o
                                THEN dlqFile[owner(o)] ELSE NoMessage]
      /\ \A m \in Msg : (loaded[m] = NoObj) <=> (dlqFile[m] = NoMessage)
      /\ UNCHANGED <<now, log, dlqFile>>
  BY DEF Restart
<1>2. \A o \in Obj : (\E m \in Msg : loaded[m] = o) =>
         owner(o) \in Msg /\ loaded[owner(o)] = o
  OBVIOUS
<1> HIDE DEF owner
<1>3. LogGrows /\ RecordsBehind' /\ FileLogged'
  BY <1>1, NothingAppended
<1>4. \A o \in Obj : (\E m \in Msg : loaded[m] = o) =>
         dlqFile[owner(o)] \in Message /\ Logged(dlqFile[owner(o)])
  <2>1. \A m \in Msg : loaded[m] # NoObj => dlqFile[m] \in Message /\ Logged(dlqFile[m])
    BY <1>1 DEF TypeOK, FileLogged
  <2> QED BY <1>2, <2>1
<1>5. /\ \A x \in Live' : x \in Obj /\ \E m \in Msg : loaded[m] = x
      /\ \A x \in Recorded' : x \in Live'
  BY <1>1 DEF Live, Recorded
<1>6. \A x \in Live' : heap'[x] \in Message /\ Logged(heap'[x])
  BY <1>1, <1>4, <1>5
<1>7. \A x \in Live' : /\ heap'[x].Offset < Len(log'[heap'[x].Partition])
                       /\ heap'[x].Offset <= Len(log'[heap'[x].Partition])
  <2> SUFFICES ASSUME NEW x \in Live'
               PROVE  /\ heap'[x].Offset < Len(log'[heap'[x].Partition])
                      /\ heap'[x].Offset <= Len(log'[heap'[x].Partition])
    OBVIOUS
  <2>1. /\ heap'[x].Partition \in Partition /\ heap'[x].Offset \in Nat
        /\ heap'[x].Offset < Len(log[heap'[x].Partition])
    BY <1>6, MessageFacts DEF Logged, NextOffset
  <2> QED BY <1>1, <2>1 DEF TypeOK
<1>8. ObjectsLogged'
  BY <1>1, <1>5, <1>7 DEF ObjectsLogged, Logged, Deref, NextOffset
<1>9. OffsetWithinLog' /\ OffsetMoves
  BY <1>1 DEF OffsetWithinLog, OffsetMoves, GroupExists
<1> QED BY <1>3, <1>8, <1>9

\* Every step keeps offsets, objects, file and records within the log.
LEMMA OffsetStep ==
    ASSUME TypeInv, TypeInv', OffsetInv, [Next]_vars
    PROVE  OffsetInv' /\ OffsetMoves
<1>1. CASE Tick
  BY <1>1, OffsetQuiet DEF Tick
<1>2. CASE Publisher
  BY <1>2, OffsetPublish, OffsetPublishDelayed, OffsetPublishNotify, OffsetPublishDelayedAppend
     DEF Publisher
<1>3. CASE Consumer
  <2>1. ASSUME NEW c \in Client,
               \/ ScanPartition(c) \/ ScanExhausted(c) \/ ConsumeReturn(c)
               \/ RegisterWaiter(c) \/ WaiterTimeout(c)
        PROVE  OffsetInv' /\ OffsetMoves
    <3>1. UNCHANGED <<log, dlqFile, heap, inFlight, dlq, groups, channel, delayQueue,
                      publishing, resending, nacking>>
      BY <2>1 DEF ScanPartition, ScanExhausted, ConsumeReturn, RegisterWaiter, WaiterTimeout
    <3> QED BY <3>1, OffsetQuiet
  <2> QED BY <1>3, <2>1, OffsetConsumeStart, OffsetScanAssign, OffsetScanRefused,
             OffsetWaiterReceive, OffsetRemoveLongPollWaiter, OffsetHeartbeat, OffsetAck,
             OffsetNackRetry, OffsetNackDLQ, OffsetNackDLQAppend, OffsetSettleBlocks
          DEF Consumer, ConsumeCall
<1>4. CASE Administrator
  BY <1>4, OffsetReplay, OffsetResendRemove, OffsetResendReset, OffsetResendAppend,
     OffsetResendOffset, OffsetResendNotify
     DEF Administrator, Resend
<1>5. CASE Background
  <2>1. CASE CheckVisibilityTimeouts
    BY <2>1, OffsetRelease DEF CheckVisibilityTimeouts
  <2>2. ASSUME NEW i \in Instance, ReleaseDead(i)
        PROVE  OffsetInv' /\ OffsetMoves
    BY <2>2, OffsetRelease DEF ReleaseDead
  <2>3. CASE \/ DeadSweepStart \/ \E g \in Group : CheckDead(g)
             \/ \E p \in Partition : CleanupExpired(p)
    BY <2>3, OffsetQuiet DEF DeadSweepStart, CheckDead, CleanupExpired
  <2> QED BY <1>5, <2>1, <2>2, <2>3, OffsetRemoveDead, OffsetProcessDelayQueue DEF Background
<1>6. CASE Crash
  BY <1>6, OffsetRestart DEF Crash
<1>7. CASE UNCHANGED vars
  BY <1>7, OffsetQuiet
<1> QED BY <1>1, <1>2, <1>3, <1>4, <1>5, <1>6, <1>7 DEF Next

\* No group whose offsets no administrator modifies gets ahead of the log, whatever
\* the calls read from stale records, were handed by a notification, or carried over
\* from before a restart: what a publisher, a nack or a resend appends next is never
\* behind it.  And no object, dead letter or record carries an offset past the log.
THEOREM OffsetsCorrect == Spec => []OffsetInv
<1>1. Init => OffsetInv
  <2> SUFFICES ASSUME Init PROVE OffsetInv
    OBVIOUS
  <2>1. Live = {} /\ Recorded = {}
    BY DEF Init, Live, Recorded
  <2>2. \A p \in Partition : Len(log[p]) = 0
    BY DEF Init
  <2> QED BY <2>1, <2>2 DEF Init, OffsetInv, OffsetWithinLog, GroupExists, ObjectsLogged,
                            FileLogged, RecordsBehind
<1> QED BY <1>1, OffsetStep, TypeCorrect, PTL DEF Spec

\* Whatever offsets an administrator sets, also ones beyond the log, the delivery
\* takes no offset past the end of its partition: only a Replay does.
THEOREM ReplayAlonePassesLog == Spec => OnlyReplayPassesLog
<1>1. TypeInv /\ TypeInv' /\ OffsetInv /\ [Next]_vars => OffsetMoves
  BY OffsetStep
<1> QED BY <1>1, TypeCorrect, OffsetsCorrect, PTL DEF Spec, OnlyReplayPassesLog
=============================================================================
