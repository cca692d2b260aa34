---------------------------- MODULE BrokerLeases ----------------------------
(***************************************************************************)
(* The broker implements Lease.                                            *)
(***************************************************************************)
EXTENDS BrokerSafety

USE MessageAssumption, ConsumerGroupAssumption, BrokerAssumption, NobodyAssumption
USE DEF MessageAssumption, ConsumerGroupAssumption, BrokerAssumption, NobodyAssumption
USE DEF vars, persistent, tables, polling, background, locking,
        NoCall, NoPublish, NoResend, NoNack, NoSweep

LeaseStep == [Leases!Next]_(Leases!vars)

\* What the lease of a message is read from.
SameLease(a, b) == /\ a.ID = b.ID
                   /\ a.VisibilityUntil = b.VisibilityUntil
                   /\ a.ConsumerGroup = b.ConsumerGroup
                   /\ a.ConsumerInstance = b.ConsumerInstance

\* The object a table entry points to.
LEMMA EntryFacts ==
    ASSUME TypeInv, NEW m \in Msg, inFlight[m] # NoObj
    PROVE  inFlight[m] \in Obj /\ inFlight[m] \in Live /\ heap[inFlight[m]] \in Message
BY DEF TypeInv, TypeOK, Allocated, Live

\* A running lease is not Nobody.
LEMMA LeaseNotNobody ==
    ASSUME NEW msg \in Message
    PROVE  [group |-> msg.ConsumerGroup, inst |-> msg.ConsumerInstance,
            until |-> msg.VisibilityUntil] # Nobody
BY MessageFacts

\* A step that leaves the table alone and the holder in every object of it.
LEMMA LeaseStutter ==
    ASSUME InFlightOwn, UNCHANGED <<now, inFlight>>,
           \A m \in Msg : inFlight[m] # NoObj => SameLease(heap'[inFlight[m]], heap[inFlight[m]])
    PROVE  InFlightOwn' /\ LeaseStep
<1>1. InFlightOwn'
  BY DEF InFlightOwn, Deref, SameLease
<1>2. \A m \in Msg : LeaseOf(m)' = LeaseOf(m)
  BY DEF LeaseOf, Deref, SameLease
<1>3. [m \in Msg |-> LeaseOf(m)]' = [m \in Msg |-> LeaseOf(m)]
  BY <1>2
<1> QED BY <1>1, <1>3 DEF LeaseStep, Leases!vars

\* A step that writes object o, and no table entry.
LEMMA LeaseWritten ==
    ASSUME TypeInv, InFlightOwn, UNCHANGED <<now, inFlight>>, NEW o \in Obj, NEW msg,
           \A x \in Live' : heap'[x] = IF x = o THEN msg ELSE heap[x],
           o \in Live => SameLease(msg, heap[o])
    PROVE  InFlightOwn' /\ LeaseStep
<1>1. ASSUME NEW m \in Msg, inFlight[m] # NoObj
      PROVE  SameLease(heap'[inFlight[m]], heap[inFlight[m]])
  <2>1. inFlight[m] \in Live' /\ inFlight[m] \in Live
    BY <1>1 DEF Live
  <2> QED BY <2>1 DEF SameLease
<1> QED BY <1>1, LeaseStutter

\* A step that takes message m out of the table and leaves the others alone.
LEMMA LeaseSettled ==
    ASSUME TypeInv, InFlightOwn, NEW m \in Msg, now' = now,
           inFlight' = [inFlight EXCEPT ![m] = NoObj], NEW msg,
           \A x \in Live' : heap'[x] = IF x = inFlight[m] THEN msg ELSE heap[x],
           inFlight[m] # NoObj
    PROVE  InFlightOwn' /\ LeaseStep
<1>1. inFlight'[m] = NoObj /\ \A n \in Msg : n # m => inFlight'[n] = inFlight[n]
  BY DEF TypeInv, TypeOK
<1>2. ASSUME NEW n \in Msg, n # m, inFlight[n] # NoObj
      PROVE  heap'[inFlight[n]] = heap[inFlight[n]]
  <2>1. inFlight[n] # inFlight[m]
    BY <1>2 DEF InFlightOwn, Deref
  <2>2. inFlight[n] \in Live'
    BY <1>1, <1>2 DEF Live
  <2> QED BY <2>1, <2>2
<1>3. InFlightOwn'
  BY <1>1, <1>2 DEF InFlightOwn, Deref
<1>4. LeaseOf(m)' = Nobody /\ \A n \in Msg : n # m => LeaseOf(n)' = LeaseOf(n)
  BY <1>1, <1>2 DEF LeaseOf, Deref
<1>5. Leases!Settle(m)
  BY <1>4 DEF Leases!Settle
<1> QED BY <1>3, <1>5 DEF LeaseStep, Leases!Next

\* An assignment.
LEMMA LeaseGranted ==
    ASSUME TypeInv, InFlightOwn, NEW o \in Obj, NEW msg \in Message,
           NEW g \in Group, NEW i \in Instance, now' = now, Assign(o, msg, g, i),
           \A x \in Live' : heap'[x] = IF x = o THEN Assigned(msg, g, i) ELSE heap[x],
           o \in Live => heap[o] = msg
    PROVE  InFlightOwn' /\ LeaseStep
<1> DEFINE m == msg.ID
           taken == Assigned(msg, g, i)
<1>1. /\ m \in Msg /\ now \in Nat /\ inFlight' = [inFlight EXCEPT ![m] = o]
      /\ ~Leased(msg)
  BY MessageFacts DEF Assign, TypeInv, TypeOK
<1>2. /\ taken.ID = m /\ taken.VisibilityUntil = now + VisibilityTimeout
      /\ taken.ConsumerGroup = g /\ taken.ConsumerInstance = i
  BY <1>1, AssignedFacts
<1> HIDE DEF taken
<1>3. inFlight'[m] = o /\ \A n \in Msg : n # m => inFlight'[n] = inFlight[n]
  BY <1>1 DEF TypeInv, TypeOK
<1>4. heap'[o] = taken
  <2>1. o \in Live'
    BY <1>1, <1>3 DEF Live
  <2> QED BY <2>1 DEF taken
<1>5. ASSUME NEW n \in Msg, n # m, inFlight[n] # NoObj
      PROVE  heap'[inFlight[n]] = heap[inFlight[n]]
  <2>1. inFlight[n] # o
    <3>1. inFlight[n] \in Live /\ heap[inFlight[n]].ID = n
      BY <1>5 DEF InFlightOwn, Deref, Live
    <3> QED BY <3>1, <1>5
  <2>2. inFlight[n] \in Live'
    BY <1>3, <1>5 DEF Live
  <2> QED BY <2>1, <2>2
<1>6. InFlightOwn'
  BY <1>1, <1>2, <1>3, <1>4, <1>5 DEF InFlightOwn, Deref
<1>7. LeaseOf(m) = Nobody
  BY <1>1 DEF Leased, LeaseOf
<1>8. LeaseOf(m)' = [group |-> g, inst |-> i, until |-> now + VisibilityTimeout]
  <2>1. taken.VisibilityUntil > now'
    BY <1>1, <1>2
  <2> QED BY <1>2, <1>3, <1>4, <2>1 DEF LeaseOf, Deref
<1>9. \A n \in Msg : n # m => LeaseOf(n)' = LeaseOf(n)
  BY <1>3, <1>5 DEF LeaseOf, Deref
<1>10. Leases!Grant(m, g, i)
  <2> HIDE DEF m
  <2> QED BY <1>1, <1>7, <1>8, <1>9 DEF Leases!Grant
<1> QED BY <1>1, <1>6, <1>10 DEF LeaseStep, Leases!Next

\* The release of a set of messages, as it shows in the table and in the objects
\* of the messages that stay.
LEMMA ReleaseLeases ==
    ASSUME TypeInv, InFlightOwn, NEW S, S \subseteq Msg, Release(S), now' = now
    PROVE  /\ InFlightOwn'
           /\ \A m \in S : LeaseOf(m)' = Nobody
           /\ \A m \in Msg \ S : LeaseOf(m)' = LeaseOf(m)
<1>1. \A m \in Msg : inFlight'[m] = IF m \in S THEN NoObj ELSE inFlight[m]
  BY DEF Release
<1>2. ASSUME NEW m \in Msg \ S, inFlight[m] # NoObj
      PROVE  heap'[inFlight[m]] = heap[inFlight[m]]
  <2>1. ~\E n \in S : inFlight[n] = inFlight[m]
    BY <1>2 DEF InFlightOwn, Deref
  <2>2. inFlight[m] \in Live' /\ inFlight[m] \in Obj
    BY <1>1, <1>2, EntryFacts DEF Live
  <2> QED BY <2>1, <2>2 DEF Release, HeapBecomes
<1>3. InFlightOwn'
  BY <1>1, <1>2 DEF InFlightOwn, Deref
<1> QED BY <1>1, <1>2, <1>3 DEF LeaseOf, Deref

-----------------------------------------------------------------------------
\* A tick ends the leases whose time is up and no others.
LEMMA LeaseTick == ASSUME TypeInv, InFlightOwn, Tick PROVE InFlightOwn' /\ LeaseStep
<1>1. now' = now + 1 /\ UNCHANGED <<heap, inFlight>> /\ now \in Nat
  BY DEF Tick, TypeInv, TypeOK
<1>2. InFlightOwn'
  BY <1>1 DEF InFlightOwn, Deref
<1> DEFINE L == [m \in Msg |-> LeaseOf(m)]
<1>3. ASSUME NEW m \in Msg
      PROVE  LeaseOf(m)' = IF LeaseOf(m) # Nobody /\ LeaseOf(m).until > now' THEN LeaseOf(m)
                           ELSE Nobody
  <2>1. CASE inFlight[m] = NoObj
    BY <1>1, <2>1 DEF LeaseOf
  <2>2. CASE inFlight[m] # NoObj
    <3> DEFINE msg == heap[inFlight[m]]
               r == [group |-> msg.ConsumerGroup, inst |-> msg.ConsumerInstance,
                     until |-> msg.VisibilityUntil]
    <3>1. msg \in Message /\ msg.VisibilityUntil \in Nat
      BY <2>2, EntryFacts, MessageFacts
    <3>2. r # Nobody /\ r.until = msg.VisibilityUntil
      BY <3>1, LeaseNotNobody
    <3>3. /\ LeaseOf(m) = IF msg.VisibilityUntil > now THEN r ELSE Nobody
          /\ LeaseOf(m)' = IF msg.VisibilityUntil > now' THEN r ELSE Nobody
      BY <1>1, <2>2 DEF LeaseOf, Deref
    <3> HIDE DEF msg, r
    <3> QED BY <1>1, <3>1, <3>2, <3>3
  <2> QED BY <2>1, <2>2
<1>4. Leases!Tick
  BY <1>1, <1>3 DEF Leases!Tick, Leases!Running
<1> QED BY <1>2, <1>4 DEF LeaseStep, Leases!Next

\* Publishing touches no lease.
LEMMA LeasePublisher == ASSUME TypeInv, TypeInv', InFlightOwn, Publisher
                        PROVE  InFlightOwn' /\ LeaseStep
<1> USE DEF TypeInv
<1>1. ASSUME NEW m \in Msg, NEW p \in Partition, NEW o \in Obj,
             Publish(m, p, o) \/ \E d \in Delays : PublishDelayed(m, p, o, d)
      PROVE  InFlightOwn' /\ LeaseStep
  <2>1. PICK msg : HeapBecomes([heap EXCEPT ![o] = msg])
    BY <1>1 DEF Publish, PublishDelayed
  <2>2. UNCHANGED <<now, inFlight>> /\ o \notin Live
    BY <1>1 DEF Publish, PublishDelayed
  <2>3. \A x \in Live' : heap'[x] = IF x = o THEN msg ELSE heap[x]
    BY <2>1, HeapAfter
  <2> QED BY <2>2, <2>3, LeaseWritten
<1>2. ASSUME NEW m \in Msg, PublishNotify(m)
      PROVE  InFlightOwn' /\ LeaseStep
  <2>1. HeapBecomes(heap) /\ UNCHANGED <<now, inFlight>>
    BY <1>2 DEF PublishNotify
  <2>2. \A x \in Live' : heap'[x] = heap[x]
    BY <2>1, HeapSame
  <2>3. \A n \in Msg : inFlight[n] # NoObj => inFlight[n] \in Live'
    BY <2>1 DEF Live
  <2> QED BY <2>1, <2>2, <2>3, LeaseStutter DEF SameLease
<1>3. ASSUME NEW m \in Msg, PublishDelayedAppend(m)
      PROVE  InFlightOwn' /\ LeaseStep
  <2> DEFINE o == publishing[m].obj
             known == [heap[o] EXCEPT !.Offset = NextOffset(heap[o].Partition)]
  <2>1. o \in Obj /\ heap[o] \in Message
    BY <1>3 DEF PublishDelayedAppend, OperationsValid, TypeOK, Live, Allocated
  <2>2. HeapBecomes([heap EXCEPT ![o] = known]) /\ UNCHANGED <<now, inFlight>>
    BY <1>3 DEF PublishDelayedAppend, Deref
  <2>3. SameLease(known, heap[o])
    BY <2>1 DEF SameLease, Message
  <2> HIDE DEF o, known
  <2>4. \A x \in Live' : heap'[x] = IF x = o THEN known ELSE heap[x]
    BY <2>1, <2>2, HeapAfter
  <2> QED BY <2>1, <2>2, <2>3, <2>4, LeaseWritten
<1> QED BY <1>1, <1>2, <1>3 DEF Publisher

\* The instance and the group of a Consume call in progress.
LEMMA CallerFacts ==
    ASSUME TypeInv, NEW c \in Client, call[c].pc # "idle"
    PROVE  GroupOf[c] \in Group /\ InstanceOf[c] \in Instance /\ GroupExists(GroupOf[c])
BY DEF TypeInv, CallsValid

\* A Consume call grants at most the lease it was free to take.
LEMMA LeaseCall == ASSUME TypeInv, TypeInv', InFlightOwn, NEW c \in Client,
                          ConsumeStart(c) \/ ConsumeCall(c)
                   PROVE  InFlightOwn' /\ LeaseStep
<1> USE DEF TypeInv
<1> DEFINE g == GroupOf[c]
           i == InstanceOf[c]
<1>1. CASE \/ ConsumeStart(c) \/ ScanPartition(c) \/ ScanExhausted(c) \/ ConsumeReturn(c)
           \/ RegisterWaiter(c) \/ WaiterTimeout(c)
           \/ \E k \in 0 .. MaxLog - 1 : ScanRefused(c, k)
  <2>1. UNCHANGED <<now, inFlight, heap>>
    BY <1>1 DEF ConsumeStart, ScanPartition, ScanExhausted, ConsumeReturn, RegisterWaiter,
                WaiterTimeout, ScanRefused, Refuse
  <2> QED BY <2>1, LeaseStutter DEF SameLease
<1>2. CASE RemoveLongPollWaiter(c)
  <2>1. HeapBecomes(heap) /\ UNCHANGED <<now, inFlight>>
    BY <1>2 DEF RemoveLongPollWaiter
  <2>2. \A x \in Live' : heap'[x] = heap[x]
    BY <2>1, HeapSame
  <2>3. \A n \in Msg : inFlight[n] # NoObj => inFlight[n] \in Live'
    BY <2>1 DEF Live
  <2> QED BY <2>1, <2>2, <2>3, LeaseStutter DEF SameLease
<1>3. ASSUME NEW k, NEW o \in Obj, ScanAssign(c, k, o)
      PROVE  InFlightOwn' /\ LeaseStep
  <2> DEFINE msg == ReadMessage(call[c].part, k)
             taken == Assigned(msg, g, i)
  <2>1. msg \in Message /\ g \in Group /\ i \in Instance
    BY <1>3, ReadFacts, CallerFacts DEF ScanAssign, NextCandidate
  <2>2. /\ Assign(o, msg, g, i) /\ HeapBecomes([heap EXCEPT ![o] = taken])
        /\ o \notin Live /\ now' = now
    BY <1>3 DEF ScanAssign
  <2> HIDE DEF msg, g, i, taken
  <2>3. \A x \in Live' : heap'[x] = IF x = o THEN taken ELSE heap[x]
    BY <2>2, HeapAfter
  <2> QED BY <2>1, <2>2, <2>3, LeaseGranted DEF taken
<1>4. CASE WaiterReceive(c)
  <2> DEFINE o == channel[c]
             msg == heap[o]
             taken == Assigned(msg, g, i)
  <2>1. /\ o \in Obj /\ o \in Live /\ msg \in Message
        /\ g \in Group /\ i \in Instance /\ now' = now
    BY <1>4 DEF WaiterReceive, TypeOK, Live, Allocated
  <2>2. \/ Assign(o, msg, g, i) /\ HeapBecomes([heap EXCEPT ![o] = taken])
        \/ Refuse(msg, g, i) /\ HeapBecomes(heap)
    BY <1>4 DEF WaiterReceive, Deref
  <2> HIDE DEF o, g, i, taken
  <2>3. CASE Assign(o, msg, g, i) /\ HeapBecomes([heap EXCEPT ![o] = taken])
    <3>1. \A x \in Live' : heap'[x] = IF x = o THEN taken ELSE heap[x]
      BY <2>1, <2>3, HeapAfter
    <3> QED BY <2>1, <2>3, <3>1, LeaseGranted DEF taken
  <2>4. CASE Refuse(msg, g, i) /\ HeapBecomes(heap)
    <3>1. inFlight' = inFlight
      BY <2>4 DEF Refuse
    <3>2. \A x \in Live' : heap'[x] = heap[x]
      BY <2>4, HeapSame
    <3>3. \A n \in Msg : inFlight[n] # NoObj => inFlight[n] \in Live'
      BY <3>1 DEF Live
    <3> QED BY <2>1, <3>1, <3>2, <3>3, LeaseStutter DEF SameLease
  <2> QED BY <2>2, <2>3, <2>4
<1>5. CASE ScanPartition(c) \/ ScanExhausted(c)
  BY <1>1, <1>5
<1> QED BY <1>1, <1>2, <1>3, <1>4 DEF ConsumeCall

\* An ack or a nack ends the lease of its message.
LEMMA LeaseSettle ==
    ASSUME TypeInv, TypeInv', InFlightOwn, NEW g \in Group, NEW i \in Instance, NEW m \in Msg,
           Ack(g, i, m) \/ NackRetry(g, i, m) \/ NackDLQ(g, i, m) \/ SettleBlocks(g, i, m)
    PROVE  InFlightOwn' /\ LeaseStep
<1> DEFINE o == inFlight[m]
<1>1. o # NoObj /\ o \in Obj /\ now' = now /\ inFlight' = [inFlight EXCEPT ![m] = NoObj]
  BY HeldFacts DEF Ack, NackRetry, NackDLQ, SettleBlocks, Settle, Holds
<1>2. PICK msg : HeapBecomes([heap EXCEPT ![o] = msg])
  BY DEF Ack, NackRetry, NackDLQ, SettleBlocks, Settle, Deref
<1>3. \A x \in Live' : heap'[x] = IF x = o THEN msg ELSE heap[x]
  <2> HIDE DEF o
  <2> QED BY <1>1, <1>2, HeapAfter DEF TypeInv
<1> QED BY <1>1, <1>3, LeaseSettled

\* The consumers' requests grant and settle leases.
LEMMA LeaseConsumer == ASSUME TypeInv, TypeInv', InFlightOwn, Consumer
                       PROVE  InFlightOwn' /\ LeaseStep
<1> USE DEF TypeInv
<1>1. ASSUME NEW g \in Group, NEW i \in Instance, Heartbeat(g, i)
      PROVE  InFlightOwn' /\ LeaseStep
  BY <1>1, LeaseStutter DEF Heartbeat, SameLease
<1>2. CASE NackDLQAppend
  <2> DEFINE o == nacking.obj
             known == [heap[o] EXCEPT !.Offset = NextOffset(heap[o].Partition)]
  <2>1. o \in Obj /\ heap[o] \in Message
    BY <1>2 DEF NackDLQAppend, OperationsValid, TypeOK, Live, Allocated
  <2>2. HeapBecomes([heap EXCEPT ![o] = known]) /\ UNCHANGED <<now, inFlight>>
    BY <1>2 DEF NackDLQAppend, Deref
  <2>3. SameLease(known, heap[o])
    BY <2>1 DEF SameLease, Message
  <2> HIDE DEF o, known
  <2>4. \A x \in Live' : heap'[x] = IF x = o THEN known ELSE heap[x]
    BY <2>1, <2>2, HeapAfter
  <2> QED BY <2>1, <2>2, <2>3, <2>4, LeaseWritten
<1> QED BY <1>1, <1>2, LeaseCall, LeaseSettle DEF Consumer

\* Of the five writes of a resend the third ends a lease that a consumer got on the
\* same object in between, the last two take its holder's names off it, and without
\* such a lease none of them shows.
LEMMA LeaseResendReset ==
    ASSUME TypeInv, TypeInv', InFlightOwn, NEW m \in Msg, ResendReset(m)
    PROVE  InFlightOwn' /\ LeaseStep
<1> DEFINE o == resending[m].obj
           old == heap[o]
           field == resending[m].pc
           msg == ResetWrite(old, field)
<1>1. /\ o \in Obj /\ old \in Message /\ field \in DOMAIN AfterWrite
      /\ heap' = [heap EXCEPT ![o] = msg]
  BY ResendResetFacts
<1>2. UNCHANGED <<now, inFlight>>
  BY DEF ResendReset
<1>3. /\ msg.ID = old.ID
      /\ msg.VisibilityUntil = IF field = "deadline" THEN 0 ELSE old.VisibilityUntil
      /\ msg.ConsumerGroup = IF field = "group" THEN NoGroup ELSE old.ConsumerGroup
      /\ msg.ConsumerInstance = IF field = "instance" THEN NoInstance ELSE old.ConsumerInstance
  BY <1>1, ResetFacts
<1> PICK n \in Msg : n = old.ID
  BY <1>1, MessageFacts
<1> HIDE DEF msg, field
<1> USE DEF TypeInv
<1>4. ASSUME NEW k \in Msg, inFlight[k] # NoObj
      PROVE  heap'[inFlight[k]] = IF inFlight[k] = o THEN msg ELSE heap[inFlight[k]]
  BY <1>1, <1>2, <1>4, EntryFacts DEF TypeOK
<1>5. InFlightOwn'
  BY <1>2, <1>3, <1>4 DEF InFlightOwn, Deref
<1>6. \A k \in Msg : inFlight[k] # o => LeaseOf(k)' = LeaseOf(k)
  BY <1>2, <1>4 DEF LeaseOf, Deref
<1>7. CASE inFlight[n] # o
  <2>1. \A k \in Msg : inFlight[k] # o
    BY <1>1, <1>7 DEF InFlightOwn, Deref
  <2>2. [k \in Msg |-> LeaseOf(k)]' = [k \in Msg |-> LeaseOf(k)]
    BY <1>6, <2>1
  <2> QED BY <1>2, <1>5, <2>2 DEF LeaseStep, Leases!vars
<1>8. CASE inFlight[n] = o
  <2>1. \A k \in Msg : k # n => LeaseOf(k)' = LeaseOf(k)
    BY <1>1, <1>6, <1>8 DEF InFlightOwn, Deref, TypeOK
  <2>2. /\ inFlight[n] # NoObj /\ inFlight'[n] = o
        /\ heap[inFlight[n]] = old /\ heap'[inFlight'[n]] = msg
    BY <1>1, <1>2, <1>4, <1>8
  <2> DEFINE before == [group |-> old.ConsumerGroup, inst |-> old.ConsumerInstance,
                        until |-> old.VisibilityUntil]
             after  == [group |-> msg.ConsumerGroup, inst |-> msg.ConsumerInstance,
                        until |-> msg.VisibilityUntil]
  <2> HIDE DEF old
  <2>3. /\ LeaseOf(n) = IF old.VisibilityUntil > now THEN before ELSE Nobody
        /\ LeaseOf(n)' = IF msg.VisibilityUntil > now THEN after ELSE Nobody
    BY <1>2, <1>8, <2>2, Zenon DEF LeaseOf, Deref
  <2>4. before # Nobody
    BY <1>1, LeaseNotNobody
  <2>5. now \in Nat
    BY DEF TypeOK
  <2>6. CASE field = "deadline"
    <3>1. LeaseOf(n)' = Nobody
      BY <1>3, <2>3, <2>5, <2>6
    <3>2. Leases!Settle(n)
      BY <1>2, <2>1, <3>1 DEF Leases!Settle
    <3> QED BY <1>5, <3>2 DEF LeaseStep, Leases!Next
  <2>7. CASE field # "deadline" /\ ~(old.VisibilityUntil > now)
    <3>1. LeaseOf(n)' = LeaseOf(n)
      BY <1>3, <2>3, <2>7
    <3>2. [k \in Msg |-> LeaseOf(k)]' = [k \in Msg |-> LeaseOf(k)]
      BY <2>1, <3>1
    <3> QED BY <1>2, <1>5, <3>2 DEF LeaseStep, Leases!vars
  <2>8. CASE field \notin {"deadline", "group", "instance"} /\ old.VisibilityUntil > now
    <3>1. LeaseOf(n)' = LeaseOf(n)
      BY <1>3, <2>3, <2>8
    <3>2. [k \in Msg |-> LeaseOf(k)]' = [k \in Msg |-> LeaseOf(k)]
      BY <2>1, <3>1
    <3> QED BY <1>2, <1>5, <3>2 DEF LeaseStep, Leases!vars
  <2>9. CASE field \in {"group", "instance"} /\ old.VisibilityUntil > now
    <3>1. /\ LeaseOf(n) = before /\ LeaseOf(n)' = after
          /\ \/ after = [before EXCEPT !.group = NoGroup]
             \/ after = [before EXCEPT !.inst = NoInstance]
      BY <1>3, <2>3, <2>9
    <3> HIDE DEF before, after
    <3>2. Leases!Disown(n)
      BY <1>2, <2>1, <2>4, <3>1 DEF Leases!Disown
    <3> QED BY <1>5, <3>2 DEF LeaseStep, Leases!Next
  <2> QED BY <2>6, <2>7, <2>8, <2>9
<1> QED BY <1>7, <1>8

\* The administrator can end leases and take their holders' names off.
LEMMA LeaseAdministrator == ASSUME TypeInv, TypeInv', InFlightOwn, Administrator
                            PROVE  InFlightOwn' /\ LeaseStep
<1> USE DEF TypeInv
<1>1. ASSUME NEW g \in Group, NEW p \in Partition, NEW k \in ReplayOffsets, Replay(g, p, k)
      PROVE  InFlightOwn' /\ LeaseStep
  BY <1>1, LeaseStutter DEF Replay, SameLease
<1>2. ASSUME NEW m \in Msg, ResendRemove(m) \/ ResendAppend(m)
      PROVE  InFlightOwn' /\ LeaseStep
  BY <1>2, LeaseStutter DEF ResendRemove, ResendAppend, SameLease
<1>3. ASSUME NEW m \in Msg, ResendOffset(m)
      PROVE  InFlightOwn' /\ LeaseStep
  <2> DEFINE o == resending[m].obj
             known == [heap[o] EXCEPT !.Offset = resending[m].offset]
  <2>1. o \in Obj /\ heap[o] \in Message
    BY <1>3, ResendFacts DEF ResendOffset
  <2>2. heap' = [heap EXCEPT ![o] = known] /\ UNCHANGED <<now, inFlight>>
    BY <1>3 DEF ResendOffset
  <2>3. SameLease(known, heap[o])
    BY <2>1 DEF SameLease, Message
  <2> HIDE DEF o, known
  <2>4. \A x \in Live' : heap'[x] = IF x = o THEN known ELSE heap[x]
    BY <2>1, <2>2, HeapAfter
  <2> QED BY <2>1, <2>2, <2>3, <2>4, LeaseWritten
<1>4. ASSUME NEW m \in Msg, ResendNotify(m)
      PROVE  InFlightOwn' /\ LeaseStep
  <2>1. HeapBecomes(heap) /\ UNCHANGED <<now, inFlight>>
    BY <1>4 DEF ResendNotify
  <2>2. \A x \in Live' : heap'[x] = heap[x]
    BY <2>1, HeapSame
  <2>3. \A n \in Msg : inFlight[n] # NoObj => inFlight[n] \in Live'
    BY <2>1 DEF Live
  <2> QED BY <2>1, <2>2, <2>3, LeaseStutter DEF SameLease
<1> QED BY <1>1, <1>2, <1>3, <1>4, LeaseResendReset DEF Administrator, Resend

\* The sweeps end no running lease but those of a dead instance.
LEMMA LeaseBackground == ASSUME TypeInv, TypeInv', InFlightOwn, Background
                         PROVE  InFlightOwn' /\ LeaseStep
<1> USE DEF TypeInv
<1>1. CASE CheckVisibilityTimeouts
  <2>1. Release(Lapsed) /\ now' = now
    BY <1>1 DEF CheckVisibilityTimeouts
  <2>2. /\ InFlightOwn'
        /\ \A m \in Lapsed : LeaseOf(m)' = Nobody
        /\ \A m \in Msg \ Lapsed : LeaseOf(m)' = LeaseOf(m)
    BY <2>1, ReleaseLeases DEF Lapsed
  <2>3. \A m \in Lapsed : LeaseOf(m) = Nobody
    <3> SUFFICES ASSUME NEW m \in Lapsed PROVE LeaseOf(m) = Nobody
      OBVIOUS
    <3>1. /\ m \in Msg /\ inFlight[m] # NoObj /\ heap[inFlight[m]].VisibilityUntil <= now
          /\ now \in Nat
      BY DEF Lapsed, Deref, TypeOK
    <3>2. heap[inFlight[m]].VisibilityUntil \in Nat
      BY <3>1, EntryFacts, MessageFacts
    <3> QED BY <3>1, <3>2 DEF LeaseOf, Deref
  <2>4. [m \in Msg |-> LeaseOf(m)]' = [m \in Msg |-> LeaseOf(m)]
    BY <2>2, <2>3
  <2> QED BY <2>1, <2>2, <2>4 DEF LeaseStep, Leases!vars
<1>2. ASSUME NEW i \in Instance, ReleaseDead(i)
      PROVE  InFlightOwn' /\ LeaseStep
  <2> DEFINE S == {m \in Msg : Holds(m, i)}
  <2>1. Release(S) /\ now' = now
    BY <1>2 DEF ReleaseDead
  <2>2. /\ InFlightOwn'
        /\ \A m \in S : LeaseOf(m)' = Nobody
        /\ \A m \in Msg \ S : LeaseOf(m)' = LeaseOf(m)
    BY <2>1, ReleaseLeases
  <2>3. \A m \in Msg : (LeaseOf(m) # Nobody /\ LeaseOf(m).inst = i) <=>
                          (LeaseOf(m) # Nobody /\ m \in S)
    BY DEF LeaseOf, Holds, Deref
  <2> HIDE DEF S
  <2>4. \A m \in Msg : LeaseOf(m)' = IF LeaseOf(m) # Nobody /\ LeaseOf(m).inst = i
                                     THEN Nobody ELSE LeaseOf(m)
    BY <2>2, <2>3
  <2>5. Leases!Evict(i)
    BY <2>1, <2>4 DEF Leases!Evict
  <2> QED BY <2>2, <2>5 DEF LeaseStep, Leases!Next
<1>3. CASE \/ DeadSweepStart \/ RemoveDead \/ \E g \in Group : CheckDead(g)
           \/ \E p \in Partition : CleanupExpired(p)
  BY <1>3, LeaseStutter DEF DeadSweepStart, RemoveDead, CheckDead, CleanupExpired, SameLease
<1>4. ASSUME NEW o \in Obj, ProcessDelayQueue(o)
      PROVE  InFlightOwn' /\ LeaseStep
  <2> DEFINE msg == [heap[o] EXCEPT !.AvailableAt = now]
             known == [msg EXCEPT !.Offset = NextOffset(msg.Partition)]
  <2>1. heap[o] \in Message
    BY <1>4 DEF ProcessDelayQueue, Live, Allocated
  <2>2. HeapBecomes([heap EXCEPT ![o] = known]) /\ UNCHANGED <<now, inFlight>>
    BY <1>4 DEF ProcessDelayQueue, Deref
  <2>3. SameLease(known, heap[o])
    BY <2>1 DEF SameLease, Message
  <2> HIDE DEF known
  <2>4. \A x \in Live' : heap'[x] = IF x = o THEN known ELSE heap[x]
    BY <2>2, HeapAfter
  <2> QED BY <2>2, <2>3, <2>4, LeaseWritten
<1> QED BY <1>1, <1>2, <1>3, <1>4 DEF Background

\* A restart forgets every lease.
LEMMA LeaseCrash == ASSUME Crash PROVE InFlightOwn' /\ LeaseStep
<1>1. inFlight' = [m \in Msg |-> NoObj] /\ now' = now
  BY DEF Crash, Restart
<1>2. \A m \in Msg : LeaseOf(m)' = Nobody
  BY <1>1 DEF LeaseOf
<1>3. InFlightOwn'
  BY <1>1 DEF InFlightOwn
<1>4. Leases!Forget
  BY <1>1, <1>2 DEF Leases!Forget
<1> QED BY <1>3, <1>4 DEF LeaseStep, Leases!Next

\* Every step of the broker is a step of Lease or a stutter.
LEMMA LeaseNext == ASSUME TypeInv, TypeInv', InFlightOwn, [Next]_vars
                   PROVE  InFlightOwn' /\ LeaseStep
<1>1. CASE UNCHANGED vars
  BY <1>1, LeaseStutter DEF SameLease
<1> QED BY <1>1, LeaseTick, LeasePublisher, LeaseConsumer, LeaseAdministrator,
           LeaseBackground, LeaseCrash
        DEF Next

\* Every entry of the in-flight table is the message it is filed under: an ack or
\* a nack by message identifier settles that message and no other.
THEOREM InFlightCorrect == Spec => []InFlightOwn
<1>1. Init => InFlightOwn
  BY DEF Init, InFlightOwn
<1> QED BY <1>1, LeaseNext, TypeCorrect, PTL DEF Spec

\* The broker implements Lease: whatever scans, notifications, acks, sweeps and the
\* unlocked writes of resends do to the shared objects, a message is leased to one
\* instance at a time, for exactly the visibility timeout, and leased anew only after
\* that; the worst a resend can do to a running lease is to take its holder's names off.
THEOREM LeaseCorrect == Spec => LeaseSpec
<1>1. Init => Leases!Init
  BY DEF Init, Leases!Init, LeaseOf
<1>2. TypeInv /\ TypeInv' /\ InFlightOwn /\ [Next]_vars => LeaseStep
  BY LeaseNext
<1> QED BY <1>1, <1>2, InFlightCorrect, TypeCorrect, PTL DEF Spec, LeaseSpec, Leases!Spec, LeaseStep
=============================================================================
