---------------------------- MODULE BrokerProofs ----------------------------
(***************************************************************************)
(* Theorems about the broker, for every number of messages, groups,        *)
(* instances, calls, partitions and retries.                               *)
(***************************************************************************)
EXTENDS BrokerProperties, TLAPS

USE MessageAssumption, ConsumerGroupAssumption, BrokerAssumption
USE DEF MessageAssumption, ConsumerGroupAssumption, BrokerAssumption

-----------------------------------------------------------------------------
(* What the operators on messages and groups return *)

\* Every topic has a first partition.
LEMMA FirstPartition == 0 \in Partition
BY DEF Partition

\* The constructor and every update of a message the broker makes yield a
\* message, and leave its identifier and partition alone.
LEMMA MessageFacts ==
    /\ \A m \in Msg, p \in Partition, t \in Nat : NewMessage(m, p, t) \in Message
    /\ \A msg \in Message :
        /\ msg.ID \in Msg /\ msg.Partition \in Partition /\ msg.Offset \in Nat
        /\ msg.State \in MessageState /\ msg.AvailableAt \in Nat
        /\ msg.RetryCount \in Nat /\ msg.VisibilityUntil \in Nat
        /\ msg.ConsumerGroup \in Group \cup {NoGroup}
        /\ msg.ConsumerInstance \in Instance \cup {NoInstance}
        /\ \A n \in Nat : /\ [msg EXCEPT !.Offset = n] \in Message
                          /\ [msg EXCEPT !.VisibilityUntil = n] \in Message
                          /\ [msg EXCEPT !.AvailableAt = n] \in Message
        /\ \A s \in MessageState : TransitionsState(msg, s) \in Message
        /\ Retried(msg) \in Message
BY DEF NewMessage, Message, TransitionsState, Retried, MessageState, StatePending

\* The group operators yield groups.
LEMMA GroupFacts ==
    /\ NewConsumerGroup \in ConsumerGroupRec
    /\ \A cg \in ConsumerGroupRec :
        /\ \A p \in Partition : GetOffset(cg, p) \in Int
        /\ \A i \in Instance, t \in Nat :
              /\ RegisterInstance(cg, i, t) \in ConsumerGroupRec
              /\ HeartbeatOf(cg, i, t) \in ConsumerGroupRec
        /\ \A i \in Instance : RemoveInstance(cg, i) \in ConsumerGroupRec
        /\ \A i \in Instance, d \in Int : IncrementInFlight(cg, i, d) \in ConsumerGroupRec
        /\ \A p \in Partition, k \in Int : SetOffset(cg, p, k) \in ConsumerGroupRec
        /\ \A p \in Partition, k \in Int :
              SetAllOffsets(cg, [q \in {p} |-> k]) \in ConsumerGroupRec
<1>1. NewConsumerGroup \in ConsumerGroupRec
  BY DEF NewConsumerGroup, ConsumerGroupRec
<1>2. ASSUME NEW cg \in ConsumerGroupRec
      PROVE  /\ \A p \in Partition : GetOffset(cg, p) \in Int
             /\ \A i \in Instance : RemoveInstance(cg, i) \in ConsumerGroupRec
             /\ \A p \in Partition, k \in Int : SetOffset(cg, p, k) \in ConsumerGroupRec
  BY DEF GetOffset, RemoveInstance, SetOffset, ConsumerGroupRec
<1>3. ASSUME NEW cg \in ConsumerGroupRec, NEW i \in Instance, NEW t \in Nat
      PROVE  RegisterInstance(cg, i, t) \in ConsumerGroupRec
  BY DEF RegisterInstance, ConsumerGroupRec, ConsumerInstanceRec
<1>4. ASSUME NEW cg \in ConsumerGroupRec, NEW i \in Instance, NEW t \in Nat
      PROVE  HeartbeatOf(cg, i, t) \in ConsumerGroupRec
  BY DEF HeartbeatOf, HasInstance, ConsumerGroupRec, ConsumerInstanceRec
<1>5. ASSUME NEW cg \in ConsumerGroupRec, NEW i \in Instance, NEW d \in Int
      PROVE  IncrementInFlight(cg, i, d) \in ConsumerGroupRec
  BY DEF IncrementInFlight, HasInstance, ConsumerGroupRec, ConsumerInstanceRec
<1>6. ASSUME NEW cg \in ConsumerGroupRec, NEW p \in Partition, NEW k \in Int
      PROVE  SetAllOffsets(cg, [q \in {p} |-> k]) \in ConsumerGroupRec
  BY DEF SetAllOffsets, ConsumerGroupRec
<1> QED BY <1>1, <1>2, <1>3, <1>4, <1>5, <1>6

\* An assignment yields a message of the same identifier and partition.
LEMMA AssignedFacts ==
    ASSUME NEW msg \in Message, NEW g \in Group, NEW i \in Instance, now \in Nat
    PROVE  /\ Assigned(msg, g, i) \in Message
           /\ Assigned(msg, g, i).ID = msg.ID
           /\ Assigned(msg, g, i).Partition = msg.Partition
           /\ Assigned(msg, g, i).Offset = msg.Offset
           /\ Assigned(msg, g, i).AvailableAt = msg.AvailableAt
           /\ Assigned(msg, g, i).VisibilityUntil = now + VisibilityTimeout
           /\ Assigned(msg, g, i).ConsumerGroup = g
           /\ Assigned(msg, g, i).ConsumerInstance = i
<1> DEFINE t == TransitionsState(msg, StateInFlight)
           r == IF t.RetryCount > 0 THEN t.RetryCount + 1 ELSE t.RetryCount
<1>1. t \in Message /\ t.ID = msg.ID /\ t.Partition = msg.Partition
        /\ t.Offset = msg.Offset /\ t.AvailableAt = msg.AvailableAt
  BY DEF TransitionsState, Message, MessageState
<1>2. r \in Nat
  BY <1>1, MessageFacts
<1>3. now + VisibilityTimeout \in Nat
  OBVIOUS
<1>4. Assigned(msg, g, i) = [t EXCEPT !.VisibilityUntil  = now + VisibilityTimeout,
                                      !.ConsumerGroup    = g,
                                      !.ConsumerInstance = i,
                                      !.RetryCount       = r]
  BY Zenon DEF Assigned
<1> HIDE DEF t, r
<1> QED BY <1>1, <1>2, <1>3, <1>4, ZenonT(60) DEF Message

USE DEF vars, persistent, tables, polling, background, locking,
        NoCall, NoPublish, NoResend, NoNack, NoSweep

\* References are addresses.
LEMMA LiveAddresses == ASSUME TypeOK PROVE Live \subseteq Obj
BY DEF TypeOK, Live

\* The typing of the heap after a step that writes one object and adds no
\* reference to another.
LEMMA HeapWritten ==
    ASSUME TypeInv, NEW o \in Obj, NEW msg \in Message,
           HeapBecomes([heap EXCEPT ![o] = msg]),
           \A x \in Live' : x \in Live \/ x = o
    PROVE  /\ heap' \in [Obj -> Message \cup {NoMessage}]
           /\ Allocated'
<1> DEFINE h == [heap EXCEPT ![o] = msg]
<1>1. \A x \in Live' : x \in Obj
  BY LiveAddresses DEF TypeInv
<1>2. \A x \in Live' : h[x] \in Message
  BY <1>1 DEF TypeInv, TypeOK, Allocated
<1> QED BY <1>1, <1>2 DEF HeapBecomes, Allocated

\* The same for a step that writes no object.
LEMMA HeapUnwritten ==
    ASSUME TypeInv, HeapBecomes(heap), \A x \in Live' : x \in Live
    PROVE  /\ heap' \in [Obj -> Message \cup {NoMessage}]
           /\ Allocated'
<1>1. \A x \in Live' : x \in Obj
  BY LiveAddresses DEF TypeInv
<1> QED BY <1>1 DEF HeapBecomes, TypeInv, TypeOK, Allocated

\* The same for a step that leaves the heap as it is.
LEMMA HeapKept ==
    ASSUME TypeInv, heap' = heap, \A x \in Live' : x \in Live
    PROVE  Allocated'
BY DEF TypeInv, Allocated

\* No partition gets shorter.
LogGrows == \A q \in Partition : /\ Len(log[q]) \in Nat /\ Len(log'[q]) \in Nat
                                /\ Len(log[q]) <= Len(log'[q])

\* Appending a message keeps the log a log.
LEMMA AppendTypes ==
    ASSUME log \in [Partition -> Seq(Message)], NEW p \in Partition, NEW msg \in Message,
           AppendMessage(p, msg)
    PROVE  /\ log' \in [Partition -> Seq(Message)]
           /\ LogGrows
           /\ \A q \in Partition : q # p => log'[q] = log[q]
           /\ Len(log'[p]) = Len(log[p]) + 1
           /\ \A q \in Partition : \A k \in 1 .. Len(log[q]) : log'[q][k] = log[q][k]
           /\ log'[p][Len(log[p]) + 1] = msg
BY DEF AppendMessage, LogGrows

\* Calls stay valid while the log only grows and groups are not removed.
LEMMA CallsKept ==
    ASSUME TypeOK, CallsValid, call' = call,
           LogGrows,
           \A g \in Group : GroupExists(g) => GroupExists(g)'
    PROVE  CallsValid'
<1> SUFFICES ASSUME NEW c \in Client
             PROVE  (/\ call[c].limit <= NextOffset(call[c].part)
                     /\ call[c].pc # "idle" => GroupExists(GroupOf[c]))'
  BY DEF CallsValid
<1>1. /\ call[c].part \in Partition /\ call[c].limit \in Nat
      /\ GroupOf[c] \in Group
  BY DEF TypeOK, CallRec
<1>2. /\ call[c].limit <= NextOffset(call[c].part)
      /\ call[c].pc # "idle" => GroupExists(GroupOf[c])
  BY DEF CallsValid
<1> QED BY <1>1, <1>2 DEF LogGrows, NextOffset

\* A step that leaves the log alone makes no partition shorter.
LEMMA LogKept == ASSUME TypeOK, log' = log PROVE LogGrows
BY DEF TypeOK, LogGrows

\* The two records a call starts over with.
LEMMA FreshCall ==
    ASSUME now \in Nat, NEW next \in {NoCall, Scanning(0, now)}
    PROVE  next \in CallRec /\ next.limit = 0 /\ next.part = 0 /\ 0 \in Partition
<1>1. 0 \in Partition
  BY DEF Partition
<1> QED BY <1>1 DEF CallRec, Scanning

\* The updates of a call that moves on yield call records.
LEMMA CallUpdates ==
    ASSUME NEW rec \in CallRec
    PROVE  /\ \A s \in {"waiting", "leaving"} :
                 /\ [rec EXCEPT !.pc = s] \in CallRec
                 /\ [rec EXCEPT !.pc = s].limit = rec.limit
                 /\ [rec EXCEPT !.pc = s].part = rec.part
           /\ \A n \in Int : [rec EXCEPT !.offset = n] \in CallRec
BY DEF CallRec

\* A call that goes on or returns after an assignment stays valid.
LEMMA LoopTypes ==
    ASSUME TypeOK, CallsValid, NEW c \in Client, LoopOrReturn(c), call[c].pc # "idle"
    PROVE  /\ call' \in [Client -> CallRec]
           /\ LogGrows /\ (\A g \in Group : GroupExists(g) => GroupExists(g)') => CallsValid'
<1> PICK next \in {NoCall, Scanning(0, now)} : call' = [call EXCEPT ![c] = next]
  BY DEF LoopOrReturn
<1>1. next \in CallRec /\ next.limit = 0 /\ next.part = 0 /\ 0 \in Partition
  BY FreshCall DEF TypeOK
<1>2. call' \in [Client -> CallRec]
  BY <1>1 DEF TypeOK
<1>3. ASSUME LogGrows, \A g \in Group : GroupExists(g) => GroupExists(g)'
      PROVE  CallsValid'
  <2> SUFFICES ASSUME NEW d \in Client
               PROVE  (/\ call[d].limit <= NextOffset(call[d].part)
                       /\ call[d].pc # "idle" => GroupExists(GroupOf[d]))'
    BY DEF CallsValid
  <2>1. /\ call[d].part \in Partition /\ call[d].limit \in Nat /\ GroupOf[d] \in Group
        /\ call[d].limit <= NextOffset(call[d].part)
        /\ call[d].pc # "idle" => GroupExists(GroupOf[d])
    BY DEF TypeOK, CallRec, CallsValid
  <2>2. CASE d = c
    BY <1>1, <1>3, <2>1, <2>2 DEF TypeOK, NextOffset, LogGrows
  <2>3. CASE d # c
    BY <1>3, <2>1, <2>3 DEF TypeOK, NextOffset, LogGrows
  <2> QED BY <2>2, <2>3
<1> QED BY <1>2, <1>3

\* A record a call has found is a message of the log.
LEMMA ReadFacts ==
    ASSUME TypeInv, NEW c \in Client, NEW k, k \in Candidates(c)
    PROVE  /\ call[c].part \in Partition
           /\ k \in Nat /\ k + 1 \in 1 .. Len(log[call[c].part])
           /\ ReadMessage(call[c].part, k) \in Message
<1>1. /\ call[c].part \in Partition /\ call[c].limit \in Nat
      /\ log[call[c].part] \in Seq(Message)
      /\ call[c].limit <= Len(log[call[c].part])
  BY DEF TypeInv, TypeOK, CallRec, CallsValid, NextOffset
<1>2. k \in 0 .. call[c].limit - 1
  BY DEF Candidates
<1> QED BY <1>1, <1>2 DEF ReadMessage

\* What an assignment, a refusal and a settled delivery do to the tables.
LEMMA AssignFacts ==
    ASSUME TypeOK, NEW o \in Obj, NEW msg \in Message, NEW g \in Group, NEW i \in Instance,
           GroupExists(g), Assign(o, msg, g, i)
    PROVE  /\ groups' \in [Group -> ConsumerGroupRec \cup {NoSuchGroup}]
           /\ inFlight' \in [Msg -> Obj \cup {NoObj}]
           /\ \A gg \in Group : GroupExists(gg) => GroupExists(gg)'
<1>1. groups[g] \in ConsumerGroupRec
  BY DEF TypeOK, GroupExists
<1> DEFINE counted == IncrementInFlight(groups[g], i, 1)
           next == IF msg.State = StatePending
                   THEN SetOffset(counted, msg.Partition, msg.Offset + 1)
                   ELSE counted
<1>2. counted \in ConsumerGroupRec
  BY <1>1, GroupFacts
<1>3. next \in ConsumerGroupRec
  <2> HIDE DEF counted
  <2>1. msg.Partition \in Partition /\ msg.Offset + 1 \in Nat
    BY MessageFacts
  <2>2. SetOffset(counted, msg.Partition, msg.Offset + 1) \in ConsumerGroupRec
    BY <1>2, <2>1, GroupFacts
  <2> QED BY <1>2, <2>2
<1>4. groups' = [groups EXCEPT ![g] = next]
  BY DEF Assign
<1> HIDE DEF counted, next
<1>5. inFlight' \in [Msg -> Obj \cup {NoObj}]
  BY MessageFacts DEF Assign, TypeOK
<1> QED BY <1>3, <1>4, <1>5 DEF TypeOK, GroupExists

\* A refusal leaves the table alone and removes no group.
LEMMA RefuseFacts ==
    ASSUME TypeOK, NEW msg \in Message, NEW g \in Group, NEW i \in Instance,
           GroupExists(g), Refuse(msg, g, i)
    PROVE  /\ groups' \in [Group -> ConsumerGroupRec \cup {NoSuchGroup}]
           /\ inFlight' = inFlight
           /\ \A gg \in Group : GroupExists(gg) => GroupExists(gg)'
<1>1. groups[g] \in ConsumerGroupRec /\ now \in Nat
  BY DEF TypeOK, GroupExists
<1> DEFINE next == IF Leased(msg) THEN groups[g]
                   ELSE HeartbeatOf(groups[g], msg.ConsumerInstance, now)
<1>2. next \in ConsumerGroupRec
  <2>1. CASE Leased(msg)
    BY <1>1, <2>1
  <2>2. CASE ~Leased(msg)
    <3>1. msg.ConsumerInstance \in Instance
      BY <2>2, MessageFacts DEF Refuse, HeldByOther
    <3>2. HeartbeatOf(groups[g], msg.ConsumerInstance, now) \in ConsumerGroupRec
      BY <1>1, <3>1, GroupFacts
    <3> QED BY <2>2, <3>2
  <2> QED BY <2>1, <2>2
<1>3. groups' = [groups EXCEPT ![g] = next] /\ inFlight' = inFlight
  BY DEF Refuse
<1> HIDE DEF next
<1> QED BY <1>2, <1>3 DEF TypeOK, GroupExists

\* Counting a settled delivery keeps the groups groups.
LEMMA SettleCountFacts ==
    ASSUME TypeOK, NEW g \in Group, NEW i \in Instance, SettleCount(g, i)
    PROVE  /\ groups' \in [Group -> ConsumerGroupRec \cup {NoSuchGroup}]
           /\ \A gg \in Group : GroupExists(gg) => GroupExists(gg)'
<1>1. CASE GroupExists(g)
  <2>1. groups[g] \in ConsumerGroupRec
    BY <1>1 DEF TypeOK, GroupExists
  <2>2. IncrementInFlight(groups[g], i, -1) \in ConsumerGroupRec
    BY <2>1, GroupFacts
  <2>3. groups' = [groups EXCEPT ![g] = IncrementInFlight(groups[g], i, -1)]
    BY <1>1 DEF SettleCount
  <2> QED BY <2>2, <2>3 DEF TypeOK, GroupExists
<1>2. CASE ~GroupExists(g)
  BY <1>2 DEF SettleCount, TypeOK, GroupExists
<1> QED BY <1>1, <1>2

-----------------------------------------------------------------------------
(* Every action keeps the types and the references valid *)

\* Publish: the new object is the only new reference.
LEMMA TypePublish ==
    ASSUME TypeInv, NEW m \in Msg, NEW p \in Partition, NEW o \in Obj, Publish(m, p, o)
    PROVE  TypeInv'
<1> DEFINE msg == NewMessage(m, p, now)
           known == [msg EXCEPT !.Offset = NextOffset(p)]
<1> USE DEF TypeInv
<1>1. msg \in Message /\ known \in Message
  <2>1. msg \in Message
    BY MessageFacts DEF TypeOK
  <2>2. NextOffset(p) \in Nat
    BY DEF TypeOK, NextOffset
  <2> HIDE DEF msg
  <2> QED BY <2>1, <2>2, MessageFacts
<1>2. AppendMessage(p, msg) /\ HeapBecomes([heap EXCEPT ![o] = known])
  BY DEF Publish
<1> HIDE DEF msg, known
<1>3. \A x \in Live' : x \in Live \/ x = o
  BY DEF Publish, Live, TypeOK
<1>4. heap' \in [Obj -> Message \cup {NoMessage}] /\ Allocated'
  BY <1>1, <1>2, <1>3, HeapWritten
<1>5. LogGrows /\ log' \in [Partition -> Seq(Message)]
  BY <1>1, <1>2, AppendTypes DEF TypeOK
<1>6. TypeOK'
  <2>1. roundRobin' \in Partition
    BY SMTT(60) DEF TypeOK, Publish, RoutePartition, Partition
  <2> QED BY <1>4, <1>5, <2>1 DEF TypeOK, Publish
<1>7. CallsValid'
  BY <1>5, CallsKept DEF Publish, GroupExists
<1>8. OperationsValid' /\ SweepValid'
  BY DEF TypeOK, OperationsValid, SweepValid, Publish, GroupExists
<1> QED BY <1>4, <1>6, <1>7, <1>8

\* Publish hands its object to the waiting calls.
LEMMA TypePublishNotify ==
    ASSUME TypeInv, NEW m \in Msg, PublishNotify(m)
    PROVE  TypeInv'
<1> USE DEF TypeInv
<1>1. \A x \in Live' : x \in Live
  BY DEF PublishNotify, NotifyLongPollWaiters, Live, TypeOK
<1>2. heap' \in [Obj -> Message \cup {NoMessage}] /\ Allocated'
  BY <1>1, HeapUnwritten DEF PublishNotify
<1>3. TypeOK'
  BY <1>2 DEF TypeOK, PublishNotify, NotifyLongPollWaiters
<1>4. CallsValid'
  BY LogKept, CallsKept DEF PublishNotify, GroupExists
<1>5. OperationsValid' /\ SweepValid'
  BY DEF TypeOK, PublishNotify, OperationsValid, SweepValid, GroupExists
<1> QED BY <1>2, <1>3, <1>4, <1>5

\* A delayed publish queues a fresh object.
LEMMA TypePublishDelayed ==
    ASSUME TypeInv, NEW m \in Msg, NEW p \in Partition, NEW o \in Obj, NEW d \in Delays,
           PublishDelayed(m, p, o, d)
    PROVE  TypeInv'
<1> USE DEF TypeInv
<1>1. NewMessage(m, p, now + d) \in Message
  <2>1. now + d \in Nat
    BY DEF TypeOK
  <2> QED BY <2>1, MessageFacts
<1>2. \A x \in Live' : x \in Live \/ x = o
  BY DEF PublishDelayed, Live, TypeOK
<1>3. heap' \in [Obj -> Message \cup {NoMessage}] /\ Allocated'
  BY <1>1, <1>2, HeapWritten DEF PublishDelayed
<1>4. TypeOK'
  <2>1. roundRobin' \in Partition
    BY DEF TypeOK, PublishDelayed, RoutePartition, Partition
  <2> QED BY <1>3, <2>1 DEF TypeOK, PublishDelayed
<1>5. CallsValid'
  BY LogKept, CallsKept DEF PublishDelayed, GroupExists
<1>6. OperationsValid' /\ SweepValid'
  BY DEF TypeOK, OperationsValid, SweepValid, PublishDelayed, GroupExists
<1> QED BY <1>3, <1>4, <1>5, <1>6

\* A delayed publish appends the object it has queued.
LEMMA TypePublishDelayedAppend ==
    ASSUME TypeInv, NEW m \in Msg, PublishDelayedAppend(m)
    PROVE  TypeInv'
<1> DEFINE o == publishing[m].obj
           p == heap[o].Partition
           known == [heap[o] EXCEPT !.Offset = NextOffset(p)]
<1> USE DEF TypeInv
<1>1. o \in Obj /\ o \in Live /\ heap[o] \in Message
  BY DEF PublishDelayedAppend, OperationsValid, TypeOK, Live, Allocated
<1>2. p \in Partition /\ NextOffset(p) \in Nat
  BY <1>1, MessageFacts DEF TypeOK, NextOffset
<1>3. known \in Message
  BY <1>1, <1>2, MessageFacts
<1>4. AppendMessage(p, heap[o]) /\ HeapBecomes([heap EXCEPT ![o] = known])
  BY DEF PublishDelayedAppend, Deref
<1>5. \A x \in Live' : x \in Live
  BY DEF PublishDelayedAppend, Live, TypeOK
<1> HIDE DEF o, p, known
<1>6. heap' \in [Obj -> Message \cup {NoMessage}] /\ Allocated'
  BY <1>1, <1>3, <1>4, <1>5, HeapWritten
<1>7. LogGrows /\ log' \in [Partition -> Seq(Message)]
  BY <1>1, <1>2, <1>4, AppendTypes DEF TypeOK
<1>8. TypeOK'
  BY <1>6, <1>7 DEF TypeOK, PublishDelayedAppend
<1>9. CallsValid'
  BY <1>7, CallsKept DEF PublishDelayedAppend, GroupExists
<1>10. OperationsValid' /\ SweepValid'
  BY DEF TypeOK, OperationsValid, SweepValid, PublishDelayedAppend, GroupExists
<1> QED BY <1>6, <1>8, <1>9, <1>10

\* Consume creates the group if it has to and registers the instance.
LEMMA TypeConsumeStart ==
    ASSUME TypeInv, NEW c \in Client, ConsumeStart(c)
    PROVE  TypeInv'
<1> DEFINE g  == GroupOf[c]
           cg == IF GroupExists(g) THEN groups[g] ELSE NewConsumerGroup
<1> USE DEF TypeInv
<1>1. g \in Group /\ InstanceOf[c] \in Instance
  OBVIOUS
<1>2. cg \in ConsumerGroupRec
  BY <1>1, GroupFacts DEF TypeOK, GroupExists
<1>3. RegisterInstance(cg, InstanceOf[c], now) \in ConsumerGroupRec
  BY <1>1, <1>2, GroupFacts DEF TypeOK
<1>4. groups' = [groups EXCEPT ![g] = RegisterInstance(cg, InstanceOf[c], now)]
  BY DEF ConsumeStart
<1> HIDE DEF g, cg
<1>5. /\ groups' \in [Group -> ConsumerGroupRec \cup {NoSuchGroup}]
      /\ GroupExists(g)'
      /\ \A gg \in Group : GroupExists(gg) => GroupExists(gg)'
  BY <1>1, <1>3, <1>4 DEF TypeOK, GroupExists
<1>6. /\ call' = [call EXCEPT ![c] = Scanning(0, now)]
      /\ Scanning(0, now) \in CallRec
      /\ Scanning(0, now).limit = 0 /\ Scanning(0, now).part = 0
  BY FreshCall DEF ConsumeStart, TypeOK
<1>7. TypeOK'
  BY <1>5, <1>6 DEF TypeOK, ConsumeStart
<1>8. CallsValid'
  <2> SUFFICES ASSUME NEW d \in Client
               PROVE  (/\ call[d].limit <= NextOffset(call[d].part)
                       /\ call[d].pc # "idle" => GroupExists(GroupOf[d]))'
    BY DEF CallsValid
  <2>1. CASE d = c
    BY <2>1, <1>5, <1>6 DEF TypeOK, NextOffset, Partition, ConsumeStart, g
  <2>2. CASE d # c
    BY <2>2, <1>5, <1>6 DEF CallsValid, NextOffset, ConsumeStart, TypeOK
  <2> QED BY <2>1, <2>2
<1>9. Allocated' /\ OperationsValid' /\ SweepValid'
  BY <1>5 DEF TypeOK, Allocated, Live, OperationsValid, SweepValid, SweepRec, ConsumeStart
<1> QED BY <1>7, <1>8, <1>9

\* The steps of a call that change nothing else of consequence.
LEMMA TypeCallOnly ==
    ASSUME TypeInv, NEW c \in Client,
           \/ ScanPartition(c) \/ ScanExhausted(c) \/ ConsumeReturn(c)
           \/ RegisterWaiter(c) \/ WaiterTimeout(c)
    PROVE  TypeInv'
<1> DEFINE next == call'[c]
<1> USE DEF TypeInv
<1>1. /\ call' = [call EXCEPT ![c] = next]
      /\ next \in CallRec
      /\ next.limit <= NextOffset(next.part)
      /\ next.pc # "idle" => call[c].pc # "idle"
  <2>1. CASE ScanPartition(c)
    <3> DEFINE from == GetOffset(groups[GroupOf[c]], call[c].part)
               to   == NextOffset(call[c].part)
    <3>1. call[c] \in CallRec /\ call[c].part \in Partition /\ call[c].pc = "scan"
      BY <2>1 DEF ScanPartition, TypeOK, CallRec
    <3>2. groups[GroupOf[c]] \in ConsumerGroupRec
      BY <3>1 DEF TypeOK, CallsValid, GroupExists
    <3>3. from \in Int /\ to \in Nat
      <4>1. from \in Int
        BY <3>1, <3>2, GroupFacts
      <4>2. to \in Nat
        BY <3>1 DEF TypeOK, NextOffset
      <4> QED BY <4>1, <4>2
    <3>4. call' = [call EXCEPT ![c].pc = "search", ![c].offset = from, ![c].limit = to]
      BY <2>1 DEF ScanPartition
    <3> HIDE DEF from, to
    <3>5. /\ call' = [call EXCEPT ![c] = next]
          /\ next \in CallRec /\ next.limit = to /\ next.part = call[c].part
      BY <3>1, <3>3, <3>4 DEF TypeOK, CallRec
    <3> QED BY <3>1, <3>3, <3>5 DEF to
  <2>2. CASE ScanExhausted(c)
    <3>1. next = IF call[c].part + 1 < Partitions
                 THEN Scanning(call[c].part + 1, call[c].at)
                 ELSE [NoCall EXCEPT !.pc = "empty"]
      BY <2>2 DEF ScanExhausted, TypeOK
    <3>2. call[c].part + 1 < Partitions => call[c].part + 1 \in Partition
      BY DEF TypeOK, CallRec, Partition
    <3>3. 0 \in Partition /\ call[c].at \in Nat
      BY DEF Partition, TypeOK, CallRec
    <3>4. \A q \in Partition : NextOffset(q) \in Nat
      BY DEF TypeOK, NextOffset
    <3>5. call' = [call EXCEPT ![c] = next] /\ call[c].pc = "search"
      BY <2>2 DEF ScanExhausted, TypeOK
    <3> HIDE DEF next
    <3>6. next \in CallRec /\ next.limit = 0
      BY <3>1, <3>2, <3>3 DEF CallRec, Scanning
    <3>7. NextOffset(next.part) \in Nat
      BY <3>4, <3>6 DEF CallRec
    <3> QED BY <3>5, <3>6, <3>7
  <2>3. CASE ConsumeReturn(c)
    BY <2>3, FreshCall DEF ConsumeReturn, TypeOK, NextOffset
  <2>4. CASE RegisterWaiter(c) \/ WaiterTimeout(c)
    <3>1. PICK s \in {"waiting", "leaving"} :
             call' = [call EXCEPT ![c] = [call[c] EXCEPT !.pc = s]] /\ call[c].pc # "idle"
      BY <2>4 DEF RegisterWaiter, WaiterTimeout
    <3>2. call[c] \in CallRec
      BY DEF TypeOK
    <3>3. next = [call[c] EXCEPT !.pc = s]
      BY <3>1 DEF TypeOK
    <3>4. call[c].limit <= NextOffset(call[c].part)
      BY DEF CallsValid
    <3> HIDE DEF next
    <3> QED BY <3>1, <3>2, <3>3, <3>4, CallUpdates
  <2> QED BY <2>1, <2>2, <2>3, <2>4
<1>2. UNCHANGED <<now, log, dlqFile, heap, inFlight, dlq, groups, roundRobin, channel,
                  delayQueue, sweep, mu, nacking, publishing, resending, restarts>>
  BY DEF ScanPartition, ScanExhausted, ConsumeReturn, RegisterWaiter, WaiterTimeout
<1>3. waiters' \in SUBSET Client
  BY DEF ScanPartition, ScanExhausted, ConsumeReturn, RegisterWaiter, WaiterTimeout, TypeOK
<1> HIDE DEF next
<1>4. TypeOK'
  BY <1>1, <1>2, <1>3 DEF TypeOK
<1>5. CallsValid'
  BY <1>1, <1>2 DEF CallsValid, NextOffset, GroupExists, TypeOK
<1>6. Allocated' /\ OperationsValid' /\ SweepValid'
  BY <1>2 DEF Allocated, Live, OperationsValid, SweepValid, GroupExists
<1> QED BY <1>4, <1>5, <1>6

\* A scanning call takes the record it has found as a fresh object.
LEMMA TypeScanAssign ==
    ASSUME TypeInv, NEW c \in Client, NEW k, NEW o \in Obj, ScanAssign(c, k, o)
    PROVE  TypeInv'
<1> DEFINE msg == ReadMessage(call[c].part, k)
           g   == GroupOf[c]
           i   == InstanceOf[c]
           taken == Assigned(msg, g, i)
<1> USE DEF TypeInv
<1>1. msg \in Message /\ g \in Group /\ i \in Instance /\ GroupExists(g)
  BY ReadFacts DEF ScanAssign, NextCandidate, CallsValid
<1>2. Assign(o, msg, g, i) /\ HeapBecomes([heap EXCEPT ![o] = taken])
  BY DEF ScanAssign
<1>3. taken \in Message
  BY <1>1, AssignedFacts DEF TypeOK
<1> HIDE DEF msg, g, i, taken
<1>4. \A x \in Live' : x \in Live \/ x = o
  BY <1>2 DEF ScanAssign, Assign, Live, TypeOK
<1>5. heap' \in [Obj -> Message \cup {NoMessage}] /\ Allocated'
  BY <1>2, <1>3, <1>4, HeapWritten
<1>6. /\ groups' \in [Group -> ConsumerGroupRec \cup {NoSuchGroup}]
      /\ inFlight' \in [Msg -> Obj \cup {NoObj}]
      /\ \A gg \in Group : GroupExists(gg) => GroupExists(gg)'
  BY <1>1, <1>2, AssignFacts
<1>7. LoopOrReturn(c) /\ call[c].pc = "search"
  BY DEF ScanAssign
<1>8. TypeOK'
  BY <1>5, <1>6, <1>7, LoopTypes DEF TypeOK, ScanAssign
<1>9. CallsValid'
  BY <1>6, <1>7, LogKept, LoopTypes DEF ScanAssign
<1>10. OperationsValid' /\ SweepValid'
  BY <1>6 DEF TypeOK, OperationsValid, SweepValid, SweepRec, ScanAssign
<1> QED BY <1>5, <1>8, <1>9, <1>10

\* A scanning call goes past a record it may not take.
LEMMA TypeScanRefused ==
    ASSUME TypeInv, NEW c \in Client, NEW k, ScanRefused(c, k)
    PROVE  TypeInv'
<1> DEFINE msg == ReadMessage(call[c].part, k)
           g   == GroupOf[c]
           i   == InstanceOf[c]
<1> USE DEF TypeInv
<1>1. msg \in Message /\ g \in Group /\ i \in Instance /\ GroupExists(g) /\ k \in Nat
  BY ReadFacts DEF ScanRefused, NextCandidate, CallsValid
<1>2. Refuse(msg, g, i)
  BY DEF ScanRefused
<1> HIDE DEF msg, g, i
<1>3. /\ groups' \in [Group -> ConsumerGroupRec \cup {NoSuchGroup}]
      /\ inFlight' = inFlight
      /\ \A gg \in Group : GroupExists(gg) => GroupExists(gg)'
  BY <1>1, <1>2, RefuseFacts
<1>4. call' = [call EXCEPT ![c].offset = k + 1]
  BY DEF ScanRefused
<1>5. call' \in [Client -> CallRec]
  <2>1. call[c] \in CallRec /\ k + 1 \in Int
    BY <1>1 DEF TypeOK
  <2>2. [call[c] EXCEPT !.offset = k + 1] \in CallRec
    BY <2>1, CallUpdates
  <2> QED BY <1>4, <2>2 DEF TypeOK
<1>6. TypeOK'
  BY <1>3, <1>5 DEF TypeOK, ScanRefused
<1>7. CallsValid'
  <2>1. log' = log
    BY DEF ScanRefused
  <2>2. \A d \in Client : /\ call'[d].limit = call[d].limit
                         /\ call'[d].part = call[d].part
                         /\ call'[d].pc = call[d].pc
    <3>1. \A d \in Client : call'[d] = IF d = c THEN [call[c] EXCEPT !.offset = k + 1]
                                      ELSE call[d]
      BY <1>4 DEF TypeOK
    <3>2. call[c] \in CallRec
      BY DEF TypeOK
    <3> QED BY <3>1, <3>2 DEF CallRec
  <2> QED BY <1>3, <2>1, <2>2 DEF CallsValid, NextOffset, TypeOK
<1>8. Allocated' /\ OperationsValid' /\ SweepValid'
  BY <1>3 DEF TypeOK, Allocated, Live, OperationsValid, SweepValid, SweepRec, ScanRefused
<1> QED BY <1>6, <1>7, <1>8

\* A waiting call takes, or is refused, the object it was handed.
LEMMA TypeWaiterReceive ==
    ASSUME TypeInv, NEW c \in Client, WaiterReceive(c)
    PROVE  TypeInv'
<1> DEFINE o   == channel[c]
           msg == heap[o]
           g   == GroupOf[c]
           i   == InstanceOf[c]
           taken == Assigned(msg, g, i)
<1> USE DEF TypeInv
<1>1. o \in Obj /\ o \in Live /\ msg \in Message
  BY DEF WaiterReceive, TypeOK, Live, Allocated
<1>2. g \in Group /\ i \in Instance /\ GroupExists(g)
  BY DEF WaiterReceive, CallsValid
<1>3. LoopOrReturn(c) /\ call[c].pc = "waiting"
  BY DEF WaiterReceive
<1>4. taken \in Message
  BY <1>1, <1>2, AssignedFacts DEF TypeOK
<1>5. \/ Assign(o, msg, g, i) /\ HeapBecomes([heap EXCEPT ![o] = taken])
      \/ Refuse(msg, g, i) /\ HeapBecomes(heap)
  BY DEF WaiterReceive, Deref
<1>6. /\ UNCHANGED <<now, log, dlqFile, dlq, roundRobin, delayQueue, sweep, mu, nacking,
                     publishing, resending, restarts>>
      /\ channel' = [channel EXCEPT ![c] = NoObj]
      /\ waiters' = waiters \ {c}
  BY DEF WaiterReceive
<1> HIDE DEF msg, g, i, taken
<1>7. \A x \in Live' : x \in Live
  BY <1>1, <1>5, <1>6 DEF Assign, Refuse, Live, TypeOK
<1> HIDE DEF o
<1>8. heap' \in [Obj -> Message \cup {NoMessage}] /\ Allocated'
  BY <1>1, <1>4, <1>5, <1>7, HeapWritten, HeapUnwritten
<1>9. /\ groups' \in [Group -> ConsumerGroupRec \cup {NoSuchGroup}]
      /\ inFlight' \in [Msg -> Obj \cup {NoObj}]
      /\ \A gg \in Group : GroupExists(gg) => GroupExists(gg)'
  <2>1. CASE Assign(o, msg, g, i)
    BY <1>1, <1>2, <2>1, AssignFacts
  <2>2. CASE Refuse(msg, g, i)
    BY <1>1, <1>2, <2>2, RefuseFacts DEF TypeOK
  <2> QED BY <1>5, <2>1, <2>2
<1>10. TypeOK'
  BY <1>3, <1>6, <1>8, <1>9, LoopTypes DEF TypeOK
<1>11. CallsValid'
  BY <1>3, <1>6, <1>9, LogKept, LoopTypes
<1>12. OperationsValid' /\ SweepValid'
  BY <1>6, <1>9 DEF TypeOK, OperationsValid, SweepValid, SweepRec
<1> QED BY <1>8, <1>10, <1>11, <1>12

\* A call leaves the list of waiters and drops what it was handed.
LEMMA TypeRemoveLongPollWaiter ==
    ASSUME TypeInv, NEW c \in Client, RemoveLongPollWaiter(c)
    PROVE  TypeInv'
<1> USE DEF TypeInv
<1>1. \A x \in Live' : x \in Live
  BY DEF RemoveLongPollWaiter, Live, TypeOK
<1>2. heap' \in [Obj -> Message \cup {NoMessage}] /\ Allocated'
  BY <1>1, HeapUnwritten DEF RemoveLongPollWaiter
<1>3. TypeOK'
  BY <1>2, SMTT(60) DEF TypeOK, RemoveLongPollWaiter, CallRec, Partition
<1>4. CallsValid'
  BY DEF CallsValid, NextOffset, RemoveLongPollWaiter, TypeOK, CallRec, Partition, GroupExists
<1>5. OperationsValid' /\ SweepValid'
  BY DEF OperationsValid, SweepValid, RemoveLongPollWaiter, GroupExists
<1> QED BY <1>2, <1>3, <1>4, <1>5

\* What is common to an ack and to a nack that leaves retries.
LEMMA SettleFacts ==
    ASSUME TypeInv, NEW m \in Msg, NEW msg \in Message, Settle(m, msg), inFlight[m] # NoObj,
           UNCHANGED <<dlq, channel, delayQueue, publishing, resending, nacking>>
    PROVE  /\ heap' \in [Obj -> Message \cup {NoMessage}]
           /\ Allocated'
           /\ inFlight' \in [Msg -> Obj \cup {NoObj}]
           /\ log' \in [Partition -> Seq(Message)]
           /\ LogGrows
<1> DEFINE o == inFlight[m]
           p == msg.Partition
           known == [msg EXCEPT !.Offset = NextOffset(p)]
<1> USE DEF TypeInv
<1>1. o \in Obj
  BY DEF TypeOK
<1>2. p \in Partition /\ NextOffset(p) \in Nat
  BY MessageFacts, SMTT(60) DEF TypeOK, NextOffset
<1>3. known \in Message
  BY <1>2, MessageFacts
<1>4. /\ inFlight' = [inFlight EXCEPT ![m] = NoObj]
      /\ AppendMessage(p, msg)
      /\ HeapBecomes([heap EXCEPT ![o] = known])
  BY DEF Settle
<1> HIDE DEF o, p, known
<1>5. \A x \in Live' : x \in Live
  BY <1>4 DEF Live, TypeOK
<1>6. heap' \in [Obj -> Message \cup {NoMessage}] /\ Allocated'
  BY <1>1, <1>3, <1>4, <1>5, HeapWritten
<1> QED BY <1>2, <1>4, <1>6, AppendTypes DEF TypeOK

\* The message an instance holds.
LEMMA HeldFacts ==
    ASSUME TypeInv, NEW m \in Msg, NEW i, Holds(m, i)
    PROVE  /\ inFlight[m] \in Obj /\ inFlight[m] \in Live /\ inFlight[m] # NoObj
           /\ heap[inFlight[m]] \in Message
BY DEF TypeInv, TypeOK, Allocated, Live, Holds

\* Ack keeps the types.
LEMMA TypeAck ==
    ASSUME TypeInv, NEW g \in Group, NEW i \in Instance, NEW m \in Msg, Ack(g, i, m)
    PROVE  TypeInv'
<1> DEFINE msg == TransitionsState(heap[inFlight[m]], StateAcked)
<1> USE DEF TypeInv
<1>1. msg \in Message /\ inFlight[m] # NoObj
  BY HeldFacts, MessageFacts DEF Ack, MessageState
<1>2. /\ Settle(m, msg) /\ SettleCount(g, i)
      /\ UNCHANGED <<now, dlqFile, dlq, roundRobin, polling, background, locking,
                     publishing, resending, restarts>>
  BY DEF Ack, Deref
<1> HIDE DEF msg
<1>3. /\ heap' \in [Obj -> Message \cup {NoMessage}]
      /\ Allocated'
      /\ inFlight' \in [Msg -> Obj \cup {NoObj}]
      /\ log' \in [Partition -> Seq(Message)]
      /\ LogGrows
  BY <1>1, <1>2, SettleFacts
<1>4. /\ groups' \in [Group -> ConsumerGroupRec \cup {NoSuchGroup}]
      /\ \A gg \in Group : GroupExists(gg) => GroupExists(gg)'
  BY <1>2, SettleCountFacts
<1>5. TypeOK'
  BY <1>2, <1>3, <1>4 DEF TypeOK
<1>6. CallsValid'
  BY <1>2, <1>3, <1>4, CallsKept
<1>7. OperationsValid' /\ SweepValid'
  BY <1>2, <1>4 DEF TypeOK, OperationsValid, SweepValid, SweepRec
<1> QED BY <1>3, <1>5, <1>6, <1>7

\* A nack that leaves retries keeps the types.
LEMMA TypeNackRetry ==
    ASSUME TypeInv, NEW g \in Group, NEW i \in Instance, NEW m \in Msg, NackRetry(g, i, m)
    PROVE  TypeInv'
<1> DEFINE pending == TransitionsState(Retried(heap[inFlight[m]]), StatePending)
           msg == [pending EXCEPT !.VisibilityUntil = 0]
<1> USE DEF TypeInv
<1>1. msg \in Message /\ inFlight[m] # NoObj
  <2>1. Retried(heap[inFlight[m]]) \in Message /\ inFlight[m] # NoObj
    BY HeldFacts, MessageFacts DEF NackRetry
  <2>2. pending \in Message
    BY <2>1, MessageFacts DEF MessageState
  <2> HIDE DEF pending
  <2> QED BY <2>1, <2>2, MessageFacts
<1>2. /\ Settle(m, msg) /\ SettleCount(g, i)
      /\ UNCHANGED <<now, dlqFile, dlq, roundRobin, polling, background, locking,
                     publishing, resending, restarts>>
  BY DEF NackRetry, Deref
<1> HIDE DEF msg
<1>3. /\ heap' \in [Obj -> Message \cup {NoMessage}]
      /\ Allocated'
      /\ inFlight' \in [Msg -> Obj \cup {NoObj}]
      /\ log' \in [Partition -> Seq(Message)]
      /\ LogGrows
  BY <1>1, <1>2, SettleFacts
<1>4. /\ groups' \in [Group -> ConsumerGroupRec \cup {NoSuchGroup}]
      /\ \A gg \in Group : GroupExists(gg) => GroupExists(gg)'
  BY <1>2, SettleCountFacts
<1>5. TypeOK'
  BY <1>2, <1>3, <1>4 DEF TypeOK
<1>6. CallsValid'
  BY <1>2, <1>3, <1>4, CallsKept
<1>7. OperationsValid' /\ SweepValid'
  BY <1>2, <1>4 DEF TypeOK, OperationsValid, SweepValid, SweepRec
<1> QED BY <1>3, <1>5, <1>6, <1>7

\* An ack or a nack that waits for the log has settled its message in memory.
LEMMA SettleBlocksFacts ==
    ASSUME TypeInv, NEW g \in Group, NEW i \in Instance, NEW m \in Msg, SettleBlocks(g, i, m)
    PROVE  /\ inFlight[m] \in Obj /\ inFlight[m] \in Live /\ heap[inFlight[m]] \in Message
           /\ \E msg \in Message :
                 /\ HeapBecomes([heap EXCEPT ![inFlight[m]] = msg])
                 /\ msg.ID = heap[inFlight[m]].ID
                 /\ msg.Partition = heap[inFlight[m]].Partition
                 /\ msg.Offset = heap[inFlight[m]].Offset
                 /\ msg.AvailableAt = heap[inFlight[m]].AvailableAt
                 /\ msg.State \in {StateAcked, StatePending}
           /\ SettleCount(g, i) \/ UNCHANGED groups
           /\ mu' = LogWaiter
           /\ inFlight' = [inFlight EXCEPT ![m] = NoObj]
           /\ UNCHANGED <<now, persistent, dlq, roundRobin, polling, background,
                          nacking, publishing, resending, restarts>>
<1> DEFINE o       == inFlight[m]
           old     == heap[o]
           acked   == TransitionsState(old, StateAcked)
           retried == Retried(old)
           pending == [TransitionsState(retried, StatePending) EXCEPT !.VisibilityUntil = 0]
<1>1. o \in Obj /\ o \in Live /\ old \in Message
  BY HeldFacts DEF SettleBlocks
<1>2. \/ SettleCount(g, i) /\ HeapBecomes([heap EXCEPT ![o] = acked])
      \/ UNCHANGED groups /\ HeapBecomes([heap EXCEPT ![o] = pending])
  BY DEF SettleBlocks, Deref
<1>3. /\ mu' = LogWaiter
      /\ inFlight' = [inFlight EXCEPT ![m] = NoObj]
      /\ UNCHANGED <<now, persistent, dlq, roundRobin, polling, background,
                     nacking, publishing, resending, restarts>>
  BY DEF SettleBlocks
<1> HIDE DEF o, old
<1>4. /\ acked \in Message /\ acked.ID = old.ID /\ acked.Partition = old.Partition
      /\ acked.Offset = old.Offset /\ acked.AvailableAt = old.AvailableAt
      /\ acked.State = StateAcked
  BY <1>1 DEF TransitionsState, Message, MessageState
<1>5. /\ retried \in Message /\ retried.ID = old.ID /\ retried.Partition = old.Partition
      /\ retried.Offset = old.Offset /\ retried.AvailableAt = old.AvailableAt
  BY <1>1 DEF Retried, Message
<1> HIDE DEF retried
<1>6. /\ pending \in Message /\ pending.ID = old.ID /\ pending.Partition = old.Partition
      /\ pending.Offset = old.Offset /\ pending.AvailableAt = old.AvailableAt
      /\ pending.State = StatePending
  BY <1>5 DEF TransitionsState, Message, MessageState
<1> HIDE DEF acked, pending
<1> QED BY <1>1, <1>2, <1>3, <1>4, <1>6 DEF o, old

\* An ack or a nack that waits for the log keeps the types.
LEMMA TypeSettleBlocks ==
    ASSUME TypeInv, NEW g \in Group, NEW i \in Instance, NEW m \in Msg, SettleBlocks(g, i, m)
    PROVE  TypeInv'
<1> DEFINE o == inFlight[m]
<1> USE DEF TypeInv
<1>1. PICK msg \in Message : HeapBecomes([heap EXCEPT ![o] = msg])
  BY SettleBlocksFacts
<1>2. /\ o \in Obj
      /\ mu' = LogWaiter
      /\ inFlight' = [inFlight EXCEPT ![m] = NoObj]
      /\ UNCHANGED <<now, persistent, dlq, roundRobin, polling, background,
                     nacking, publishing, resending, restarts>>
      /\ SettleCount(g, i) \/ UNCHANGED groups
  BY SettleBlocksFacts
<1> HIDE DEF o
<1>3. \A x \in Live' : x \in Live
  BY <1>2 DEF Live, TypeOK
<1>4. heap' \in [Obj -> Message \cup {NoMessage}] /\ Allocated'
  BY <1>1, <1>2, <1>3, HeapWritten
<1>5. /\ groups' \in [Group -> ConsumerGroupRec \cup {NoSuchGroup}]
      /\ \A gg \in Group : GroupExists(gg) => GroupExists(gg)'
  BY <1>2, SettleCountFacts DEF TypeOK, GroupExists
<1>6. TypeOK'
  BY <1>2, <1>4, <1>5 DEF TypeOK
<1>7. CallsValid'
  BY <1>2, <1>5, LogKept, CallsKept
<1>8. OperationsValid' /\ SweepValid'
  BY <1>2, <1>5 DEF TypeOK, OperationsValid, SweepValid, SweepRec, LogWaiter, NackCall
<1> QED BY <1>4, <1>6, <1>7, <1>8

\* The last nack moves the reference from the table to the DLQ.
LEMMA TypeNackDLQ ==
    ASSUME TypeInv, NEW g \in Group, NEW i \in Instance, NEW m \in Msg, NackDLQ(g, i, m)
    PROVE  TypeInv'
<1> DEFINE o   == inFlight[m]
           msg == TransitionsState(Retried(heap[o]), StateDLQ)
<1> USE DEF TypeInv
<1>1. o \in Obj /\ o \in Live /\ o # NoObj /\ msg \in Message
  <2>1. o \in Obj /\ o \in Live /\ o # NoObj /\ heap[o] \in Message
    BY HeldFacts DEF NackDLQ
  <2>2. Retried(heap[o]) \in Message
    BY <2>1, MessageFacts
  <2> QED BY <2>1, <2>2, MessageFacts DEF MessageState
<1>2. /\ HeapBecomes([heap EXCEPT ![o] = msg])
      /\ mu' = NackCall
      /\ nacking' = [group |-> g, inst |-> i, obj |-> o]
      /\ inFlight' = [inFlight EXCEPT ![m] = NoObj]
      /\ dlq' = [dlq EXCEPT ![m] = o]
      /\ dlqFile' = [dlqFile EXCEPT ![m] = msg]
      /\ UNCHANGED <<now, log, groups, roundRobin, polling, background,
                     publishing, resending, restarts>>
  BY DEF NackDLQ, Deref
<1> HIDE DEF msg
<1>3. \A x \in Live' : x \in Live
  BY <1>1, <1>2 DEF Live, TypeOK
<1> HIDE DEF o
<1>4. heap' \in [Obj -> Message \cup {NoMessage}] /\ Allocated'
  BY <1>1, <1>2, <1>3, HeapWritten
<1>5. TypeOK'
  BY <1>1, <1>2, <1>4 DEF TypeOK
<1>6. CallsValid'
  BY <1>2, LogKept, CallsKept DEF GroupExists
<1>7. OperationsValid' /\ SweepValid'
  BY <1>1, <1>2 DEF OperationsValid, SweepValid, GroupExists
<1> QED BY <1>4, <1>5, <1>6, <1>7

\* The last nack appends the dead letter and gives b.mu back.
LEMMA TypeNackDLQAppend ==
    ASSUME TypeInv, NackDLQAppend
    PROVE  TypeInv'
<1> DEFINE o == nacking.obj
           p == heap[o].Partition
           known == [heap[o] EXCEPT !.Offset = NextOffset(p)]
<1> USE DEF TypeInv
<1>1. /\ o \in Obj /\ heap[o] \in Message
      /\ nacking.group \in Group
      /\ nacking.inst \in Instance
  BY DEF NackDLQAppend, TypeOK, OperationsValid, Allocated, Live
<1>2. p \in Partition /\ NextOffset(p) \in Nat
  BY <1>1, MessageFacts DEF TypeOK, NextOffset
<1>3. known \in Message
  BY <1>1, <1>2, MessageFacts
<1>4. /\ AppendMessage(p, heap[o])
      /\ HeapBecomes([heap EXCEPT ![o] = known])
      /\ SettleCount(nacking.group, nacking.inst)
      /\ mu' = Free
      /\ nacking' = NoNack
      /\ UNCHANGED <<now, dlqFile, inFlight, dlq, roundRobin, polling, background,
                     publishing, resending, restarts>>
  BY DEF NackDLQAppend, Deref
<1>5. \A x \in Live' : x \in Live
  BY <1>4 DEF Live, TypeOK
<1> HIDE DEF o, p, known
<1>6. heap' \in [Obj -> Message \cup {NoMessage}] /\ Allocated'
  BY <1>1, <1>3, <1>4, <1>5, HeapWritten
<1>7. LogGrows /\ log' \in [Partition -> Seq(Message)]
  BY <1>1, <1>2, <1>4, AppendTypes DEF TypeOK
<1>8. /\ groups' \in [Group -> ConsumerGroupRec \cup {NoSuchGroup}]
      /\ \A gg \in Group : GroupExists(gg) => GroupExists(gg)'
  BY <1>1, <1>4, SettleCountFacts
<1>9. TypeOK'
  BY <1>4, <1>6, <1>7, <1>8 DEF TypeOK
<1>10. CallsValid'
  BY <1>4, <1>7, <1>8, CallsKept
<1>11. OperationsValid' /\ SweepValid'
  BY <1>4, <1>8 DEF TypeOK, OperationsValid, SweepValid, SweepRec, Free, NackCall
<1> QED BY <1>6, <1>9, <1>10, <1>11

\* The steps that change one group's record and nothing else.
LEMMA TypeGroupOnly ==
    ASSUME TypeInv, NEW g \in Group, NEW cg \in ConsumerGroupRec,
           groups' = [groups EXCEPT ![g] = cg],
           UNCHANGED <<now, log, dlqFile, heap, inFlight, dlq, roundRobin, polling,
                       delayQueue, locking, publishing, resending, restarts>>
    PROVE  /\ sweep' \in SweepRec => TypeOK'
           /\ Allocated' /\ CallsValid' /\ OperationsValid'
           /\ \A gg \in Group : GroupExists(gg) => GroupExists(gg)'
           /\ UNCHANGED sweep => TypeInv'
<1> USE DEF TypeInv
<1>1. /\ groups' \in [Group -> ConsumerGroupRec \cup {NoSuchGroup}]
      /\ \A gg \in Group : GroupExists(gg) => GroupExists(gg)'
  BY DEF TypeOK, GroupExists
<1>2. sweep' \in SweepRec => TypeOK'
  BY <1>1 DEF TypeOK
<1>3. Allocated' /\ OperationsValid'
  BY DEF Allocated, Live, OperationsValid
<1>4. CallsValid'
  BY <1>1, LogKept, CallsKept
<1>5. UNCHANGED sweep => SweepValid'
  BY <1>1 DEF SweepValid, SweepRec, TypeOK
<1>6. UNCHANGED sweep => sweep' \in SweepRec
  BY DEF TypeOK
<1> QED BY <1>1, <1>2, <1>3, <1>4, <1>5, <1>6

\* Heartbeat keeps the types.
LEMMA TypeHeartbeat ==
    ASSUME TypeInv, NEW g \in Group, NEW i \in Instance, Heartbeat(g, i)
    PROVE  TypeInv'
<1>1. HeartbeatOf(groups[g], i, now) \in ConsumerGroupRec
  BY GroupFacts DEF Heartbeat, TypeInv, TypeOK, GroupExists
<1> QED BY <1>1, TypeGroupOnly DEF Heartbeat

\* Replay keeps the types.
LEMMA TypeReplay ==
    ASSUME TypeInv, NEW g \in Group, NEW p \in Partition, NEW k \in Int, Replay(g, p, k)
    PROVE  TypeInv'
<1>1. SetAllOffsets(groups[g], [q \in {p} |-> k]) \in ConsumerGroupRec
  <2>1. groups[g] \in ConsumerGroupRec
    BY DEF Replay, TypeInv, TypeOK, GroupExists
  <2> QED BY <2>1, GroupFacts
<1>2. groups' = [groups EXCEPT ![g] = SetAllOffsets(groups[g], [q \in {p} |-> k])]
  BY DEF Replay, TypeInv, TypeOK
<1> QED BY <1>1, <1>2, TypeGroupOnly DEF Replay

\* The group a dead instance is removed from still exists.
LEMMA TypeRemoveDead ==
    ASSUME TypeInv, sweep.pc = "remove", RemoveDead
    PROVE  TypeInv'
<1> DEFINE g == sweep.group
           cg == RemoveInstance(groups[g], sweep.inst)
<1> USE DEF TypeInv
<1>1. g \in Group /\ cg \in ConsumerGroupRec
  BY GroupFacts DEF SweepValid, TypeOK, GroupExists
<1>2. groups' = [groups EXCEPT ![g] = cg]
  BY DEF RemoveDead
<1> HIDE DEF cg
<1>3. sweep' \in SweepRec
  BY FirstPartition DEF RemoveDead, NextGroup, SweepRec, TypeOK
<1>4. /\ TypeOK' /\ Allocated' /\ CallsValid' /\ OperationsValid'
      /\ \A gg \in Group : GroupExists(gg) => GroupExists(gg)'
  BY <1>1, <1>2, <1>3, TypeGroupOnly DEF RemoveDead
<1>5. SweepValid'
  BY <1>4 DEF RemoveDead, NextGroup, SweepValid, SweepRec, TypeOK
<1> QED BY <1>4, <1>5

\* The sweep chooses among groups that exist.
LEMMA TypeSweepOnly ==
    ASSUME TypeInv, DeadSweepStart \/ \E g \in Group : CheckDead(g)
    PROVE  TypeInv'
<1> USE DEF TypeInv
<1>1. UNCHANGED <<now, log, dlqFile, heap, tables, roundRobin, polling, delayQueue, locking,
                  publishing, resending, restarts>>
  BY DEF DeadSweepStart, CheckDead
<1>2. sweep' \in SweepRec /\ SweepValid'
  <2>1. CASE DeadSweepStart
    BY <2>1, FirstPartition DEF DeadSweepStart, NextGroup, SweepRec, SweepValid, GroupExists
  <2>2. ASSUME NEW g \in Group, CheckDead(g)
        PROVE  sweep' \in SweepRec /\ SweepValid'
    BY <2>2, FirstPartition DEF CheckDead, CheckDeadInstances, NextGroup, SweepRec, SweepValid, GroupExists, TypeOK
  <2> QED BY <2>1, <2>2
<1>3. TypeOK'
  BY <1>1, <1>2 DEF TypeOK
<1>4. Allocated' /\ CallsValid' /\ OperationsValid'
  BY <1>1 DEF Allocated, Live, CallsValid, NextOffset, GroupExists, OperationsValid
<1> QED BY <1>2, <1>3, <1>4

\* Where a resend is.
ResendRec == [pc     : ResendPC,
              obj    : Obj \cup {NoObj},
              offset : Nat]

\* The writes of a resend follow one another until the append.
LEMMA AfterWriteFacts ==
    /\ DOMAIN AfterWrite = {"count", "state", "deadline", "group", "instance"}
    /\ ResendPC = {"count", "state", "deadline", "group", "instance",
                   "idle", "append", "offset", "notify"}
    /\ \A pc \in DOMAIN AfterWrite :
          /\ AfterWrite[pc] \in {"state", "deadline", "group", "instance", "append"}
          /\ AfterWrite[pc] = "append" => pc = "instance"
<1>1. DOMAIN AfterWrite = {"count", "state", "deadline", "group", "instance"}
  BY DEF AfterWrite
<1>2. /\ AfterWrite["count"] = "state" /\ AfterWrite["state"] = "deadline"
      /\ AfterWrite["deadline"] = "group" /\ AfterWrite["group"] = "instance"
      /\ AfterWrite["instance"] = "append"
  BY DEF AfterWrite
<1> QED BY <1>1, <1>2 DEF ResendPC

\* A write of a resend keeps identifier, partition, offset and due time; only the
\* third ends the lease, and only the last two change its holder.
LEMMA ResetFacts ==
    ASSUME NEW msg \in Message, NEW field \in DOMAIN AfterWrite
    PROVE  LET w == ResetWrite(msg, field)
           IN  /\ w \in Message
               /\ w.ID = msg.ID /\ w.Partition = msg.Partition
               /\ w.Offset = msg.Offset /\ w.AvailableAt = msg.AvailableAt
               /\ w.VisibilityUntil =
                    IF field = "deadline" THEN 0 ELSE msg.VisibilityUntil
               /\ w.ConsumerGroup =
                    IF field = "group" THEN NoGroup ELSE msg.ConsumerGroup
               /\ w.ConsumerInstance =
                    IF field = "instance" THEN NoInstance ELSE msg.ConsumerInstance
<1>1. CASE field = "count"
  BY <1>1 DEF ResetWrite, Message
<1>2. CASE field = "state"
  BY <1>2 DEF ResetWrite, TransitionsState, Message, MessageState
<1>3. CASE field = "deadline"
  BY <1>3 DEF ResetWrite, Message
<1>4. CASE field = "group"
  BY <1>4 DEF ResetWrite, Message
<1>5. CASE field = "instance"
  BY <1>5 DEF ResetWrite, Message
<1> QED BY <1>1, <1>2, <1>3, <1>4, <1>5, AfterWriteFacts

\* The object a resend works on.
LEMMA ResendFacts ==
    ASSUME TypeInv, NEW m \in Msg, resending[m].pc # "idle"
    PROVE  /\ resending[m].obj \in Obj /\ resending[m].obj \in Live
           /\ heap[resending[m].obj] \in Message
           /\ heap[resending[m].obj].Partition \in Partition
           /\ NextOffset(heap[resending[m].obj].Partition) \in Nat
<1>1. /\ resending[m].obj \in Obj /\ resending[m].obj \in Live
      /\ heap[resending[m].obj] \in Message
  BY DEF TypeInv, TypeOK, OperationsValid, Live, Allocated
<1> QED BY <1>1, MessageFacts, SMTT(60) DEF TypeInv, TypeOK, NextOffset

\* A resend that moves on keeps its object.
LEMMA ResendMoves ==
    ASSUME TypeInv, NEW m \in Msg, resending[m].pc # "idle",
           NEW rec \in ResendRec, rec.obj = resending[m].obj,
           resending' = [resending EXCEPT ![m] = rec]
    PROVE  /\ resending' \in [Msg -> ResendRec]
           /\ \A n \in Msg : /\ resending'[n].obj = resending[n].obj
                            /\ n # m => resending'[n] = resending[n]
           /\ resending'[m] = rec
           /\ \A n \in Msg : resending'[n].pc # "idle" => resending'[n].obj # NoObj
<1>1. resending \in [Msg -> ResendRec]
  BY DEF TypeInv, TypeOK, ResendRec
<1> QED BY <1>1 DEF TypeInv, OperationsValid

\* A resend takes the dead letter out of the DLQ.
LEMMA TypeResendRemove ==
    ASSUME TypeInv, NEW m \in Msg, ResendRemove(m)
    PROVE  TypeInv'
<1> USE DEF TypeInv
<1>1. \A x \in Live' : x \in Live
  BY DEF ResendRemove, Live, TypeOK
<1>2. Allocated'
  BY <1>1, HeapKept DEF ResendRemove
<1>3. TypeOK'
  BY AfterWriteFacts DEF ResendRemove, TypeOK
<1>4. CallsValid' /\ SweepValid'
  BY DEF ResendRemove, CallsValid, NextOffset, GroupExists, SweepValid
<1>5. OperationsValid'
  BY DEF ResendRemove, OperationsValid, TypeOK
<1> QED BY <1>2, <1>3, <1>4, <1>5

\* A resend writes to the object in place, without a lock.
LEMMA TypeResendWrites ==
    ASSUME TypeInv, NEW m \in Msg, resending[m].pc # "idle",
           NEW msg \in Message, NEW rec \in ResendRec, rec.obj = resending[m].obj,
           heap' = [heap EXCEPT ![resending[m].obj] = msg],
           resending' = [resending EXCEPT ![m] = rec],
           UNCHANGED <<now, persistent, tables, roundRobin, polling, background, locking,
                       publishing, restarts>>
    PROVE  TypeInv' /\ Live' = Live
<1>1. /\ resending' \in [Msg -> ResendRec]
      /\ \A n \in Msg : resending'[n].obj = resending[n].obj
      /\ \A n \in Msg : resending'[n].pc # "idle" => resending'[n].obj # NoObj
  BY ResendMoves
<1> USE DEF TypeInv
<1>2. Live' = Live
  BY <1>1 DEF Live
<1>3. heap' \in [Obj -> Message \cup {NoMessage}] /\ Allocated'
  BY <1>2, LiveAddresses, ResendFacts DEF TypeOK, Allocated
<1>4. TypeOK'
  BY <1>1, <1>3 DEF TypeOK, ResendRec
<1>5. CallsValid' /\ SweepValid'
  BY DEF CallsValid, NextOffset, GroupExists, SweepValid
<1>6. OperationsValid'
  BY <1>1 DEF OperationsValid
<1> QED BY <1>2, <1>3, <1>4, <1>5, <1>6

\* What a write of a resend does.
LEMMA ResendResetFacts ==
    ASSUME TypeInv, NEW m \in Msg, ResendReset(m)
    PROVE  /\ resending[m].pc \in DOMAIN AfterWrite
           /\ resending[m].obj \in Obj /\ resending[m].obj \in Live
           /\ heap[resending[m].obj] \in Message
           /\ ResetWrite(heap[resending[m].obj], resending[m].pc) \in Message
           /\ heap' = [heap EXCEPT ![resending[m].obj] =
                         ResetWrite(heap[resending[m].obj], resending[m].pc)]
           /\ \E rec \in ResendRec :
                 /\ rec.obj = resending[m].obj
                 /\ rec.pc \in ResendPC \ {"idle", "offset"}
                 /\ resending' = [resending EXCEPT ![m] = rec]
<1>1. resending[m].pc \in DOMAIN AfterWrite
  BY DEF ResendReset
<1>2. /\ resending[m].obj \in Obj /\ resending[m].obj \in Live
      /\ heap[resending[m].obj] \in Message
  BY <1>1, ResendFacts, AfterWriteFacts
<1>3. ResetWrite(heap[resending[m].obj], resending[m].pc) \in Message
  BY <1>1, <1>2, ResetFacts
<1>4. heap' = [heap EXCEPT ![resending[m].obj] =
                 ResetWrite(heap[resending[m].obj], resending[m].pc)]
  BY DEF ResendReset
<1> DEFINE pc == AfterWrite[resending[m].pc]
           rec == [resending[m] EXCEPT !.pc = pc]
<1>5. pc \in ResendPC \ {"idle", "offset"}
  BY <1>1, AfterWriteFacts
<1>6. resending' = [resending EXCEPT ![m] = rec]
  BY DEF ResendReset
<1> HIDE DEF pc
<1>7. resending[m] \in ResendRec
  BY DEF TypeInv, TypeOK, ResendRec
<1>8. rec \in ResendRec /\ rec.obj = resending[m].obj /\ rec.pc = pc
  BY <1>5, <1>7 DEF ResendRec
<1> HIDE DEF rec
<1> QED BY <1>1, <1>2, <1>3, <1>4, <1>5, <1>6, <1>8

\* Each of the five writes keeps the types.
LEMMA TypeResendReset ==
    ASSUME TypeInv, NEW m \in Msg, ResendReset(m)
    PROVE  TypeInv' /\ Live' = Live
<1> DEFINE msg == ResetWrite(heap[resending[m].obj], resending[m].pc)
<1>1. /\ msg \in Message
      /\ heap' = [heap EXCEPT ![resending[m].obj] = msg]
      /\ resending[m].pc # "idle"
  BY ResendResetFacts, AfterWriteFacts
<1>2. PICK rec \in ResendRec : /\ rec.obj = resending[m].obj
                              /\ resending' = [resending EXCEPT ![m] = rec]
  BY ResendResetFacts
<1>3. UNCHANGED <<now, persistent, tables, roundRobin, polling, background, locking,
                  publishing, restarts>>
  BY DEF ResendReset
<1> HIDE DEF msg
<1> QED BY <1>1, <1>2, <1>3, TypeResendWrites

\* A resend appends the object and remembers the record's offset.
LEMMA TypeResendAppend ==
    ASSUME TypeInv, NEW m \in Msg, ResendAppend(m)
    PROVE  TypeInv'
<1> DEFINE msg == heap[resending[m].obj]
           p == msg.Partition
<1> USE DEF TypeInv
<1>1. msg \in Message /\ p \in Partition /\ NextOffset(p) \in Nat
  BY ResendFacts DEF ResendAppend
<1>2. AppendMessage(p, msg)
  BY DEF ResendAppend, Deref
<1> DEFINE rec == [resending[m] EXCEPT !.pc = "offset", !.offset = NextOffset(p)]
<1>3. resending' = [resending EXCEPT ![m] = rec] /\ resending[m].pc # "idle"
  BY DEF ResendAppend, Deref
<1> HIDE DEF msg, p
<1>4. resending[m] \in ResendRec
  BY DEF TypeOK, ResendRec
<1>5. rec \in ResendRec /\ rec.obj = resending[m].obj
  BY <1>1, <1>4, AfterWriteFacts DEF ResendRec
<1> HIDE DEF rec
<1>6. /\ resending' \in [Msg -> ResendRec]
      /\ \A n \in Msg : resending'[n].obj = resending[n].obj
      /\ \A n \in Msg : resending'[n].pc # "idle" => resending'[n].obj # NoObj
  BY <1>3, <1>5, ResendMoves
<1>7. LogGrows /\ log' \in [Partition -> Seq(Message)]
  BY <1>1, <1>2, AppendTypes DEF TypeOK
<1>8. \A x \in Live' : x \in Live
  BY <1>6 DEF ResendAppend, Live
<1>9. Allocated'
  BY <1>8, HeapKept DEF ResendAppend
<1>10. TypeOK'
  BY <1>6, <1>7 DEF ResendAppend, TypeOK, ResendRec
<1>11. CallsValid'
  BY <1>7, CallsKept DEF ResendAppend, GroupExists
<1>12. OperationsValid' /\ SweepValid'
  BY <1>6 DEF ResendAppend, OperationsValid, SweepValid, GroupExists
<1> QED BY <1>9, <1>10, <1>11, <1>12

\* A resend tells the object the offset of its record.
LEMMA TypeResendOffset ==
    ASSUME TypeInv, NEW m \in Msg, ResendOffset(m)
    PROVE  TypeInv' /\ Live' = Live
<1> DEFINE msg == [heap[resending[m].obj] EXCEPT !.Offset = resending[m].offset]
           rec == [resending[m] EXCEPT !.pc = "notify", !.offset = 0]
<1>1. resending[m].pc # "idle"
  BY DEF ResendOffset
<1>2. msg \in Message
  <2>1. heap[resending[m].obj] \in Message /\ resending[m].offset \in Nat
    BY <1>1, ResendFacts DEF TypeInv, TypeOK
  <2> QED BY <2>1, MessageFacts
<1>3. heap' = [heap EXCEPT ![resending[m].obj] = msg]
  BY DEF ResendOffset
<1>4. /\ resending' = [resending EXCEPT ![m] = rec]
      /\ UNCHANGED <<now, persistent, tables, roundRobin, polling, background, locking,
                     publishing, restarts>>
  BY DEF ResendOffset
<1>5. resending[m] \in ResendRec
  BY DEF TypeInv, TypeOK, ResendRec
<1>6. rec \in ResendRec /\ rec.obj = resending[m].obj
  BY <1>5, AfterWriteFacts DEF ResendRec
<1> HIDE DEF msg, rec
<1> QED BY <1>1, <1>2, <1>3, <1>4, <1>6, TypeResendWrites

\* A resend hands the object to the waiting calls.
LEMMA TypeResendNotify ==
    ASSUME TypeInv, NEW m \in Msg, ResendNotify(m)
    PROVE  TypeInv'
<1> USE DEF TypeInv
<1>1. \A x \in Live' : x \in Live
  BY DEF ResendNotify, NotifyLongPollWaiters, Live, TypeOK
<1>2. heap' \in [Obj -> Message \cup {NoMessage}] /\ Allocated'
  BY <1>1, HeapUnwritten DEF ResendNotify
<1>3. TypeOK'
  <2>1. channel' \in [Client -> Obj \cup {NoObj}] /\ waiters' \in SUBSET Client
    BY DEF ResendNotify, NotifyLongPollWaiters, TypeOK
  <2> QED BY <1>2, <2>1, AfterWriteFacts DEF ResendNotify, TypeOK
<1>4. CallsValid'
  BY LogKept, CallsKept DEF ResendNotify, GroupExists
<1>5. OperationsValid' /\ SweepValid'
  BY DEF ResendNotify, OperationsValid, SweepValid, GroupExists, TypeOK
<1> QED BY <1>2, <1>3, <1>4, <1>5

\* What releasing a set of in-flight messages does to the table and the heap.
LEMMA ReleaseFacts ==
    ASSUME TypeInv, NEW S, Release(S),
           UNCHANGED <<dlq, channel, delayQueue, publishing, resending, nacking>>
    PROVE  /\ heap' \in [Obj -> Message \cup {NoMessage}]
           /\ Allocated'
           /\ inFlight' \in [Msg -> Obj \cup {NoObj}]
<1> DEFINE free(msg) == [TransitionsState(msg, StatePending) EXCEPT !.VisibilityUntil = 0]
           h == [o \in Obj |-> IF \E m \in S : inFlight[m] = o THEN free(heap[o]) ELSE heap[o]]
<1> USE DEF TypeInv
<1>1. \A msg \in Message : free(msg) \in Message
  <2> SUFFICES ASSUME NEW msg \in Message PROVE free(msg) \in Message
    OBVIOUS
  <2>1. TransitionsState(msg, StatePending) \in Message
    BY MessageFacts DEF MessageState
  <2> QED BY <2>1, MessageFacts
<1>2. inFlight' \in [Msg -> Obj \cup {NoObj}]
  BY DEF Release, TypeOK
<1>3. HeapBecomes(h)
  BY DEF Release
<1>4. \A x \in Live' : x \in Live
  BY DEF Release, Live, TypeOK
<1>5. \A x \in Live' : x \in Obj /\ heap[x] \in Message
  BY <1>4, LiveAddresses DEF Allocated
<1> HIDE DEF free
<1>6. \A x \in Live' : h[x] \in Message
  BY <1>1, <1>5
<1> HIDE DEF h
<1> QED BY <1>2, <1>3, <1>5, <1>6 DEF HeapBecomes, Allocated

\* The visibility sweep keeps the types.
LEMMA TypeCheckVisibilityTimeouts ==
    ASSUME TypeInv, CheckVisibilityTimeouts
    PROVE  TypeInv'
<1> USE DEF TypeInv
<1>1. Release(Lapsed) /\ UNCHANGED <<now, persistent, dlq, groups, roundRobin, polling,
                   background, locking, publishing, resending, restarts>>
  BY DEF CheckVisibilityTimeouts
<1>2. /\ heap' \in [Obj -> Message \cup {NoMessage}]
      /\ Allocated'
      /\ inFlight' \in [Msg -> Obj \cup {NoObj}]
  BY <1>1, ReleaseFacts
<1>3. TypeOK'
  BY <1>1, <1>2 DEF TypeOK
<1>4. CallsValid' /\ OperationsValid' /\ SweepValid'
  BY <1>1 DEF CallsValid, NextOffset, GroupExists, OperationsValid, SweepValid
<1> QED BY <1>2, <1>3, <1>4

\* Releasing a dead instance's messages keeps the types.
LEMMA TypeReleaseDead ==
    ASSUME TypeInv, NEW i \in Instance, ReleaseDead(i)
    PROVE  TypeInv'
<1> DEFINE held == {m \in Msg : Holds(m, i)}
<1> USE DEF TypeInv
<1>1. /\ Release(held)
      /\ sweep.pc = "release"
      /\ sweep' = [sweep EXCEPT !.pc = "remove", !.inst = i]
      /\ UNCHANGED <<now, persistent, dlq, groups, roundRobin, polling,
                     delayQueue, locking, publishing, resending, restarts>>
  BY DEF ReleaseDead
<1> HIDE DEF held
<1>2. /\ heap' \in [Obj -> Message \cup {NoMessage}]
      /\ Allocated'
      /\ inFlight' \in [Msg -> Obj \cup {NoObj}]
  BY <1>1, ReleaseFacts
<1>3. /\ sweep' \in SweepRec /\ sweep'.pc = "remove" /\ sweep'.inst = i
      /\ sweep'.todo = sweep.todo /\ sweep'.group = sweep.group
  BY <1>1 DEF TypeOK, SweepRec
<1>4. TypeOK'
  BY <1>1, <1>2, <1>3 DEF TypeOK
<1>5. CallsValid' /\ OperationsValid'
  BY <1>1 DEF CallsValid, NextOffset, GroupExists, OperationsValid
<1>6. SweepValid'
  BY <1>1, <1>3 DEF SweepValid, GroupExists
<1> QED BY <1>2, <1>4, <1>5, <1>6

\* The delay queue's task keeps the types.
LEMMA TypeProcessDelayQueue ==
    ASSUME TypeInv, NEW o \in Obj, ProcessDelayQueue(o)
    PROVE  TypeInv'
<1> DEFINE msg == [heap[o] EXCEPT !.AvailableAt = now]
           p == msg.Partition
           known == [msg EXCEPT !.Offset = NextOffset(p)]
<1> USE DEF TypeInv
<1>1. o \in Live /\ heap[o] \in Message
  BY DEF ProcessDelayQueue, Live, Allocated
<1>2. msg \in Message
  BY <1>1, MessageFacts DEF TypeOK
<1>3. /\ AppendMessage(p, msg) /\ HeapBecomes([heap EXCEPT ![o] = known])
      /\ delayQueue' = delayQueue \ {o}
      /\ mu = Free /\ mu' = DelayQueueTask
      /\ UNCHANGED <<now, dlqFile, tables, roundRobin, polling, sweep,
                     nacking, publishing, resending, restarts>>
  BY DEF ProcessDelayQueue, Deref
<1> HIDE DEF msg
<1>4. p \in Partition /\ NextOffset(p) \in Nat
  BY <1>2, MessageFacts DEF TypeOK, NextOffset
<1>5. known \in Message
  BY <1>2, <1>4, MessageFacts
<1> HIDE DEF p, known
<1>6. \A x \in Live' : x \in Live
  BY <1>3 DEF Live
<1>7. heap' \in [Obj -> Message \cup {NoMessage}] /\ Allocated'
  BY <1>3, <1>5, <1>6, HeapWritten
<1>8. LogGrows /\ log' \in [Partition -> Seq(Message)]
  BY <1>2, <1>3, <1>4, AppendTypes DEF TypeOK
<1>9. TypeOK'
  BY <1>3, <1>7, <1>8 DEF TypeOK
<1>10. CallsValid'
  BY <1>3, <1>8, CallsKept DEF GroupExists
<1>11. OperationsValid' /\ SweepValid'
  BY <1>3 DEF OperationsValid, SweepValid, GroupExists, DelayQueueTask, NackCall
<1> QED BY <1>7, <1>9, <1>10, <1>11

\* The clean-up's lock-out changes nothing but where the background task is.
LEMMA TypeCleanupExpired ==
    ASSUME TypeInv, NEW p \in Partition, CleanupExpired(p)
    PROVE  TypeInv'
<1> USE DEF TypeInv
<1>1. sweep' = [NoSweep EXCEPT !.pc = "cleanup", !.part = p]
      /\ UNCHANGED <<now, persistent, heap, tables, roundRobin, polling,
                     delayQueue, locking, publishing, resending, restarts>>
  BY DEF CleanupExpired
<1>2. sweep' \in SweepRec /\ SweepValid'
  BY <1>1 DEF SweepRec, SweepValid
<1>3. TypeOK'
  BY <1>1, <1>2 DEF TypeOK
<1>4. Allocated' /\ CallsValid' /\ OperationsValid'
  BY <1>1 DEF Allocated, Live, CallsValid, NextOffset, GroupExists, OperationsValid
<1> QED BY <1>2, <1>3, <1>4

\* A restart refers to the dead letters of the file and to nothing else.
LEMMA TypeRestart ==
    ASSUME TypeInv, NEW loaded \in [Msg -> Obj \cup {NoObj}], Restart(loaded)
    PROVE  TypeInv'
<1> USE DEF TypeInv
<1> DEFINE owner(o) == CHOOSE m \in Msg : loaded[m] = o
<1>1. /\ dlq' = loaded /\ inFlight' = [m \in Msg |-> NoObj]
      /\ groups' = [g \in Group |-> NoSuchGroup] /\ roundRobin' = 0
      /\ delayQueue' = {} /\ waiters' = {} /\ channel' = [c \in Client |-> NoObj]
      /\ call' = [c \in Client |-> NoCall] /\ publishing' = [m \in Msg |-> NoPublish]
      /\ resending' = [m \in Msg |-> NoResend] /\ sweep' = NoSweep
      /\ mu' = Free /\ nacking' = NoNack /\ restarts' = restarts + 1
      /\ heap' = [o \in Obj |-> IF \E m \in Msg : loaded[m] = o
                                THEN dlqFile[owner(o)] ELSE NoMessage]
      /\ \A m \in Msg : (loaded[m] = NoObj) <=> (dlqFile[m] = NoMessage)
      /\ UNCHANGED <<now, log, dlqFile>>
  BY DEF Restart
<1>2. \A o \in Obj : (\E m \in Msg : loaded[m] = o) =>
         owner(o) \in Msg /\ loaded[owner(o)] = o
  OBVIOUS
<1>3. \A m \in Msg : loaded[m] # NoObj => dlqFile[m] \in Message
  BY <1>1 DEF TypeOK
<1> HIDE DEF owner
<1>4. \A o \in Obj : (\E m \in Msg : loaded[m] = o) => dlqFile[owner(o)] \in Message
  BY <1>2, <1>3
<1>5. heap' \in [Obj -> Message \cup {NoMessage}]
  BY <1>1, <1>4
<1>6. \A o \in Live' : o \in Obj /\ \E m \in Msg : loaded[m] = o
  BY <1>1 DEF Live
<1>7. Allocated'
  BY <1>1, <1>4, <1>6 DEF Allocated
<1>8. 0 \in Partition
  BY DEF Partition
<1>9. TypeOK'
  BY <1>1, <1>5, <1>8, AfterWriteFacts DEF TypeOK, CallRec, SweepRec
<1>10. CallsValid' /\ OperationsValid' /\ SweepValid'
  BY <1>1, <1>8 DEF CallsValid, NextOffset, OperationsValid, SweepValid, TypeOK, Free, NackCall
<1> QED BY <1>7, <1>9, <1>10

\* The clock moves nothing else.
LEMMA TypeTick == ASSUME TypeInv, Tick PROVE TypeInv'
BY DEF TypeInv, TypeOK, Tick, Allocated, Live, CallsValid, NextOffset, GroupExists,
       OperationsValid, SweepValid

-----------------------------------------------------------------------------
(* The theorem *)

\* The empty broker is well typed.
LEMMA TypeInit == Init => TypeInv
<1> SUFFICES ASSUME Init PROVE TypeInv
  OBVIOUS
<1>1. 0 \in Partition
  BY DEF Partition
<1>2. TypeOK
  BY <1>1, AfterWriteFacts DEF Init, TypeOK, CallRec, SweepRec
<1>3. Allocated /\ CallsValid /\ OperationsValid /\ SweepValid
  BY <1>1 DEF Init, Allocated, Live, CallsValid, NextOffset, OperationsValid, SweepValid,
              Free, NackCall
<1> QED BY <1>2, <1>3 DEF TypeInv

\* Every step keeps the types and the references valid.
LEMMA TypeStep == TypeInv /\ [Next]_vars => TypeInv'
<1> SUFFICES ASSUME TypeInv, [Next]_vars PROVE TypeInv'
  OBVIOUS
<1>1. CASE Tick
  BY <1>1, TypeTick
<1>2. CASE Publisher
  BY <1>2, TypePublish, TypePublishDelayed, TypePublishNotify, TypePublishDelayedAppend
     DEF Publisher
<1>3. CASE Consumer
  BY <1>3, TypeConsumeStart, TypeCallOnly, TypeScanAssign, TypeScanRefused,
     TypeWaiterReceive, TypeRemoveLongPollWaiter, TypeHeartbeat, TypeAck, TypeNackRetry,
     TypeNackDLQ, TypeNackDLQAppend, TypeSettleBlocks
     DEF Consumer, ConsumeCall
<1>4. CASE Administrator
  BY <1>4, TypeReplay, TypeResendRemove, TypeResendReset, TypeResendAppend,
     TypeResendOffset, TypeResendNotify
     DEF Administrator, Resend
<1>5. CASE Background
  <2>1. RemoveDead => sweep.pc = "remove"
    BY DEF RemoveDead
  <2> QED BY <1>5, <2>1, TypeCheckVisibilityTimeouts, TypeSweepOnly, TypeRemoveDead,
             TypeReleaseDead, TypeProcessDelayQueue, TypeCleanupExpired
          DEF Background
<1>6. CASE Crash
  BY <1>6, TypeRestart DEF Crash
<1>7. CASE UNCHANGED vars
  BY <1>7 DEF TypeInv, TypeOK, Allocated, Live, CallsValid, NextOffset, GroupExists,
              OperationsValid, SweepValid
<1> QED BY <1>1, <1>2, <1>3, <1>4, <1>5, <1>6, <1>7 DEF Next

\* Every reference of the broker is to a live, well-formed message, every call
\* in progress has its group and reads within the log, and every sweep works on
\* a group that exists, in all states of all runs, restarts included.
THEOREM TypeCorrect == Spec => []TypeInv
<1> QED BY TypeInit, TypeStep, PTL DEF Spec

=============================================================================
