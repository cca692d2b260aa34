---------------------------- MODULE TopicsProofs ----------------------------
(***************************************************************************)
(* Proofs about Topics, for any number of topics, calls and restarts: an   *)
(* answered topic is served for good, and a call that began with no        *)
(* creation under way keeps its group and its lease.                       *)
(***************************************************************************)
EXTENDS Topics, TLAPS

CreatingRec == [pc : {"open", "maps"}, topic : Topic, config : Config]
ConsumingRec == [pc : {"found", "group", "holds"}, topic : Topic,
                 made : Nat, settled : BOOLEAN]

TypeOK ==
    /\ up \in BOOLEAN
    /\ dirs \in SUBSET Topic
    /\ meta \in [Topic -> Config \cup {None, Torn}]
    /\ served \in [Topic -> Config \cup {None}]
    /\ smMu \in Client \cup {Nobody}
    /\ maps \in [Topic -> Nat]
    /\ inFlight \in [Topic -> Client \cup {Nobody}]
    /\ call \in [Client -> {Idle} \cup CreatingRec \cup ConsumingRec]
    /\ answered \in [Topic -> Config \cup {None}]
    /\ restarts \in Nat

\* Whoever opens a topic holds sm.mu, and nobody serves the topic yet.
OpeningAlone ==
    \A c \in Client : At(c, "open") =>
        up /\ smMu = c /\ call[c].topic \in dirs /\ served[call[c].topic] = None

\* The topic of a creation that has written the metadata is served with it.
MapsFollow ==
    \A c \in Client : At(c, "maps") => up /\ served[call[c].topic] = call[c].config

Consumes(c) == call[c].pc \in {"found", "group", "holds"}

\* The topic of a consumer is served; if no creation of it was under way when
\* the call began, none is now.
ConsumedServed ==
    \A c \in Client : Consumes(c) =>
        /\ up /\ served[call[c].topic] # None
        /\ call[c].settled => Settled(call[c].topic)

\* What is served is what the files say.
ServedStored ==
    \A t \in Topic : served[t] # None => up /\ t \in dirs /\ meta[t] = served[t]

IInv == /\ TypeOK /\ OpeningAlone /\ MapsFollow /\ ConsumedServed /\ ServedStored
        /\ AnsweredServed /\ SettledCallsKeep

USE DEF At, On, Becomes, Idle, Creating, Consuming, files, broker

LEMMA InitIInv == Init => IInv
  BY TopicsAssumption DEF Init, IInv, TypeOK, OpeningAlone, MapsFollow, Consumes,
     ConsumedServed, ServedStored, AnsweredServed, SettledCallsKeep

LEMMA CreateOpenIInv ==
    ASSUME NEW c \in Client, NEW t \in Topic, NEW k \in Config, IInv, CreateOpen(c, t, k)
    PROVE  IInv'
<1>1. TypeOK'
  BY TopicsAssumption DEF IInv, CreateOpen, TypeOK, CreatingRec
<1>2. OpeningAlone'
  BY TopicsAssumption DEF IInv, CreateOpen, OpeningAlone
<1>3. MapsFollow'
  BY TopicsAssumption DEF IInv, CreateOpen, MapsFollow
<1>4. ConsumedServed'
  BY TopicsAssumption DEF IInv, CreateOpen, ConsumedServed, Consumes, Settled
<1>5. ServedStored'
  BY TopicsAssumption DEF IInv, CreateOpen, ServedStored
<1>6. AnsweredServed'
  BY TopicsAssumption DEF IInv, CreateOpen, AnsweredServed
<1>7. SettledCallsKeep'
  BY TopicsAssumption DEF IInv, CreateOpen, SettledCallsKeep
<1> QED
  BY <1>1, <1>2, <1>3, <1>4, <1>5, <1>6, <1>7 DEF IInv

LEMMA CreateMetaIInv ==
    ASSUME NEW c \in Client, NEW t \in Topic, NEW k \in Config, IInv, CreateMeta(c, t, k)
    PROVE  IInv'
<1>1. TypeOK'
  BY TopicsAssumption DEF IInv, CreateMeta, TypeOK, CreatingRec
<1>2. OpeningAlone'
  BY TopicsAssumption DEF IInv, CreateMeta, TypeOK, OpeningAlone
<1>3. MapsFollow'
  BY TopicsAssumption DEF IInv, CreateMeta, TypeOK, CreatingRec, ConsumingRec,
     MapsFollow, OpeningAlone
<1>4. ConsumedServed'
  BY TopicsAssumption DEF IInv, CreateMeta, ConsumedServed, Consumes, Settled,
     OpeningAlone
<1>5. ServedStored'
  BY TopicsAssumption DEF IInv, CreateMeta, TypeOK, ServedStored, OpeningAlone
<1>6. AnsweredServed'
  BY TopicsAssumption DEF IInv, CreateMeta, AnsweredServed, OpeningAlone
<1>7. SettledCallsKeep'
  BY TopicsAssumption DEF IInv, CreateMeta, SettledCallsKeep
<1> QED
  BY <1>1, <1>2, <1>3, <1>4, <1>5, <1>6, <1>7 DEF IInv

LEMMA CreateMetaFailsIInv ==
    ASSUME NEW c \in Client, NEW t \in Topic, NEW k \in Config, IInv, CreateMetaFails(c, t, k)
    PROVE  IInv'
<1>1. TypeOK'
  BY TopicsAssumption DEF IInv, CreateMetaFails, TypeOK, MetaReached
<1>2. OpeningAlone'
  BY TopicsAssumption DEF IInv, CreateMetaFails, TypeOK, OpeningAlone
<1>3. MapsFollow'
  BY TopicsAssumption DEF IInv, CreateMetaFails, MapsFollow
<1>4. ConsumedServed'
  BY TopicsAssumption DEF IInv, CreateMetaFails, ConsumedServed, Consumes, Settled
<1>5. ServedStored'
  BY TopicsAssumption DEF IInv, CreateMetaFails, ServedStored, OpeningAlone
<1>6. AnsweredServed'
  BY TopicsAssumption DEF IInv, CreateMetaFails, AnsweredServed, OpeningAlone
<1>7. SettledCallsKeep'
  BY TopicsAssumption DEF IInv, CreateMetaFails, SettledCallsKeep
<1> QED
  BY <1>1, <1>2, <1>3, <1>4, <1>5, <1>6, <1>7 DEF IInv

LEMMA CreateMapsIInv ==
    ASSUME NEW c \in Client, NEW t \in Topic, NEW k \in Config, IInv, CreateMaps(c, t, k)
    PROVE  IInv'
<1>1. TypeOK'
  BY TopicsAssumption DEF IInv, CreateMaps, TypeOK
<1>2. OpeningAlone'
  BY TopicsAssumption DEF IInv, CreateMaps, OpeningAlone
<1>3. MapsFollow'
  BY TopicsAssumption DEF IInv, CreateMaps, MapsFollow
<1>4. ConsumedServed'
  BY TopicsAssumption DEF IInv, CreateMaps, ConsumedServed, Consumes, Settled
<1>5. ServedStored'
  BY TopicsAssumption DEF IInv, CreateMaps, ServedStored
<1>6. AnsweredServed'
  BY TopicsAssumption DEF IInv, CreateMaps, AnsweredServed, ServedStored, MapsFollow
<1>7. SettledCallsKeep'
  BY TopicsAssumption DEF IInv, CreateMaps, SettledCallsKeep, ConsumedServed, Consumes,
     Settled
<1> QED
  BY <1>1, <1>2, <1>3, <1>4, <1>5, <1>6, <1>7 DEF IInv

LEMMA ConsumeFindIInv ==
    ASSUME NEW c \in Client, NEW t \in Topic, IInv, ConsumeFind(c, t)
    PROVE  IInv'
<1>1. TypeOK'
  <2>1. Settled(t) \in BOOLEAN
    BY DEF Settled
  <2>2. Consuming("found", t, 0, Settled(t)) \in ConsumingRec
    BY <2>1 DEF ConsumingRec
  <2> QED
    BY <2>2 DEF IInv, ConsumeFind, TypeOK
<1>2. OpeningAlone'
  BY TopicsAssumption DEF IInv, ConsumeFind, OpeningAlone
<1>3. MapsFollow'
  BY TopicsAssumption DEF IInv, ConsumeFind, MapsFollow
<1>4. ConsumedServed'
  BY TopicsAssumption DEF IInv, ConsumeFind, ConsumedServed, Consumes, Settled
<1>5. ServedStored'
  BY TopicsAssumption DEF IInv, ConsumeFind, ServedStored
<1>6. AnsweredServed'
  BY TopicsAssumption DEF IInv, ConsumeFind, AnsweredServed
<1>7. SettledCallsKeep'
  BY TopicsAssumption DEF IInv, ConsumeFind, SettledCallsKeep
<1> QED
  BY <1>1, <1>2, <1>3, <1>4, <1>5, <1>6, <1>7 DEF IInv

LEMMA ConsumeGroupIInv ==
    ASSUME NEW c \in Client, NEW t \in Topic, IInv, ConsumeGroup(c, t)
    PROVE  IInv'
<1>1. TypeOK'
  BY TopicsAssumption DEF IInv, ConsumeGroup, TypeOK, CreatingRec, ConsumingRec
<1>2. OpeningAlone'
  BY TopicsAssumption DEF IInv, ConsumeGroup, OpeningAlone
<1>3. MapsFollow'
  BY TopicsAssumption DEF IInv, ConsumeGroup, MapsFollow
<1>4. ConsumedServed'
  BY TopicsAssumption DEF IInv, ConsumeGroup, ConsumedServed, Consumes, Settled
<1>5. ServedStored'
  BY TopicsAssumption DEF IInv, ConsumeGroup, ServedStored
<1>6. AnsweredServed'
  BY TopicsAssumption DEF IInv, ConsumeGroup, AnsweredServed
<1>7. SettledCallsKeep'
  BY TopicsAssumption DEF IInv, ConsumeGroup, SettledCallsKeep
<1> QED
  BY <1>1, <1>2, <1>3, <1>4, <1>5, <1>6, <1>7 DEF IInv

LEMMA ConsumeAssignIInv ==
    ASSUME NEW c \in Client, NEW t \in Topic, IInv, ConsumeAssign(c, t)
    PROVE  IInv'
<1>1. TypeOK'
  BY TopicsAssumption DEF IInv, ConsumeAssign, TypeOK, CreatingRec, ConsumingRec
<1>2. OpeningAlone'
  BY TopicsAssumption DEF IInv, ConsumeAssign, OpeningAlone
<1>3. MapsFollow'
  BY TopicsAssumption DEF IInv, ConsumeAssign, MapsFollow
<1>4. ConsumedServed'
  BY TopicsAssumption DEF IInv, ConsumeAssign, ConsumedServed, Consumes, Settled
<1>5. ServedStored'
  BY TopicsAssumption DEF IInv, ConsumeAssign, ServedStored
<1>6. AnsweredServed'
  BY TopicsAssumption DEF IInv, ConsumeAssign, AnsweredServed
<1>7. SettledCallsKeep'
  BY TopicsAssumption DEF IInv, ConsumeAssign, TypeOK, SettledCallsKeep
<1> QED
  BY <1>1, <1>2, <1>3, <1>4, <1>5, <1>6, <1>7 DEF IInv

LEMMA AckIInv ==
    ASSUME NEW c \in Client, NEW t \in Topic, IInv, Ack(c, t)
    PROVE  IInv'
<1>1. TypeOK'
  BY TopicsAssumption DEF IInv, Ack, TypeOK
<1>2. OpeningAlone'
  BY TopicsAssumption DEF IInv, Ack, OpeningAlone
<1>3. MapsFollow'
  BY TopicsAssumption DEF IInv, Ack, MapsFollow
<1>4. ConsumedServed'
  BY TopicsAssumption DEF IInv, Ack, ConsumedServed, Consumes, Settled
<1>5. ServedStored'
  BY TopicsAssumption DEF IInv, Ack, ServedStored
<1>6. AnsweredServed'
  BY TopicsAssumption DEF IInv, Ack, AnsweredServed
<1>7. SettledCallsKeep'
  BY TopicsAssumption DEF IInv, Ack, TypeOK, SettledCallsKeep
<1> QED
  BY <1>1, <1>2, <1>3, <1>4, <1>5, <1>6, <1>7 DEF IInv

LEMMA ConsumeNothingIInv ==
    ASSUME NEW c \in Client, IInv, ConsumeNothing(c)
    PROVE  IInv'
<1>1. TypeOK'
  BY TopicsAssumption DEF IInv, ConsumeNothing, TypeOK
<1>2. OpeningAlone'
  BY TopicsAssumption DEF IInv, ConsumeNothing, OpeningAlone
<1>3. MapsFollow'
  BY TopicsAssumption DEF IInv, ConsumeNothing, MapsFollow
<1>4. ConsumedServed'
  BY TopicsAssumption DEF IInv, ConsumeNothing, ConsumedServed, Consumes, Settled
<1>5. ServedStored'
  BY TopicsAssumption DEF IInv, ConsumeNothing, ServedStored
<1>6. AnsweredServed'
  BY TopicsAssumption DEF IInv, ConsumeNothing, AnsweredServed
<1>7. SettledCallsKeep'
  BY TopicsAssumption DEF IInv, ConsumeNothing, SettledCallsKeep
<1> QED
  BY <1>1, <1>2, <1>3, <1>4, <1>5, <1>6, <1>7 DEF IInv

LEMMA CrashIInv ==
    ASSUME IInv, Crash
    PROVE  IInv'
<1>1. TypeOK'
  <2>1. meta' \in [Topic -> Config \cup {None, Torn}]
    <3>1. CASE smMu = Nobody /\ UNCHANGED meta
      BY <3>1 DEF IInv, TypeOK
    <3>2. CASE smMu # Nobody
      <4>1. PICK t \in Topic, k \in Config :
               \E written \in MetaReached(t, k) : meta' = [meta EXCEPT ![t] = written]
        BY <3>2 DEF Crash
      <4> QED
        BY <4>1 DEF IInv, TypeOK, MetaReached
    <3> QED
      BY <3>1, <3>2 DEF Crash
  <2> QED
    BY <2>1 DEF IInv, Crash, TypeOK
<1>2. OpeningAlone'
  BY TopicsAssumption DEF Crash, OpeningAlone
<1>3. MapsFollow'
  BY TopicsAssumption DEF Crash, MapsFollow
<1>4. ConsumedServed'
  BY TopicsAssumption DEF Crash, ConsumedServed, Consumes
<1>5. ServedStored'
  BY TopicsAssumption DEF Crash, ServedStored
<1>6. AnsweredServed'
  <2> SUFFICES ASSUME NEW u \in Topic, answered[u] # None
               PROVE  u \in dirs /\ meta'[u] = answered[u]
    BY DEF Crash, AnsweredServed
  <2>1. u \in dirs /\ meta[u] = answered[u] /\ served[u] = answered[u]
    BY DEF IInv, AnsweredServed, Crash
  <2>2. CASE smMu = Nobody /\ UNCHANGED meta
    BY <2>1, <2>2
  <2>3. CASE smMu # Nobody
    <3>1. PICK t \in Topic, k \in Config :
             /\ call[smMu] = Creating("open", t, k)
             /\ \E written \in MetaReached(t, k) : meta' = [meta EXCEPT ![t] = written]
      BY <2>3 DEF Crash
    <3>2. served[t] = None
      BY <2>3, <3>1 DEF IInv, TypeOK, OpeningAlone
    <3>3. meta'[u] = meta[u]
      BY <2>1, <3>1, <3>2 DEF TypeOK
    <3> QED
      BY <2>1, <3>3
  <2> QED
    BY <2>2, <2>3 DEF Crash
<1>7. SettledCallsKeep'
  BY TopicsAssumption DEF Crash, SettledCallsKeep
<1> QED
  BY <1>1, <1>2, <1>3, <1>4, <1>5, <1>6, <1>7 DEF IInv

LEMMA StartIInv ==
    ASSUME IInv, Start
    PROVE  IInv'
<1>1. TypeOK'
  BY TopicsAssumption DEF IInv, Start, TypeOK, Loadable
<1>2. OpeningAlone'
  BY TopicsAssumption DEF IInv, Start, OpeningAlone
<1>3. MapsFollow'
  BY TopicsAssumption DEF IInv, Start, MapsFollow
<1>4. ConsumedServed'
  BY TopicsAssumption DEF IInv, Start, ConsumedServed, Consumes
<1>5. ServedStored'
  BY TopicsAssumption DEF Start, ServedStored
<1>6. AnsweredServed'
  BY TopicsAssumption DEF IInv, Start, AnsweredServed
<1>7. SettledCallsKeep'
  BY TopicsAssumption DEF IInv, Start, SettledCallsKeep, ConsumedServed, Consumes
<1> QED
  BY <1>1, <1>2, <1>3, <1>4, <1>5, <1>6, <1>7 DEF IInv

LEMMA NextIInv == IInv /\ [Next]_vars => IInv'
<1> SUFFICES ASSUME IInv, [Next]_vars PROVE IInv'
  OBVIOUS
<1>1. ASSUME NEW c \in Client, NEW t \in Topic, NEW k \in Config,
             CreateOpen(c, t, k) \/ CreateMeta(c, t, k)
               \/ CreateMetaFails(c, t, k) \/ CreateMaps(c, t, k)
      PROVE  IInv'
  BY <1>1, CreateOpenIInv, CreateMetaIInv, CreateMetaFailsIInv, CreateMapsIInv
<1>2. ASSUME NEW c \in Client, NEW t \in Topic,
             ConsumeFind(c, t) \/ ConsumeGroup(c, t) \/ ConsumeAssign(c, t) \/ Ack(c, t)
      PROVE  IInv'
  BY <1>2, ConsumeFindIInv, ConsumeGroupIInv, ConsumeAssignIInv, AckIInv
<1>3. ASSUME NEW c \in Client, ConsumeNothing(c) PROVE IInv'
  BY <1>3, ConsumeNothingIInv
<1>4. CASE UNCHANGED vars
  BY <1>4 DEF vars, IInv, TypeOK, OpeningAlone, MapsFollow, Consumes, ConsumedServed,
     Settled, ServedStored, AnsweredServed, SettledCallsKeep
<1> QED
  BY <1>1, <1>2, <1>3, <1>4, CrashIInv, StartIInv DEF Next

LEMMA Invariance == Spec => []IInv
  BY InitIInv, NextIInv, PTL DEF Spec

\* A topic whose creation was answered is served with the answered configuration,
\* through torn metadata files and restarts (CreateTopic, loadExistingTopics).
THEOREM AnsweredTopicsServed == Spec => []AnsweredServed
<1>1. IInv => AnsweredServed
  BY DEF IInv
<1> QED
  BY <1>1, Invariance, PTL

\* A call that began with no creation of its topic under way keeps its group and
\* its lease until it gives them back (CreateTopic, Consume, Ack).
THEOREM SettledCallsSafe == Spec => []SettledCallsKeep
<1>1. IInv => SettledCallsKeep
  BY DEF IInv
<1> QED
  BY <1>1, Invariance, PTL

=============================================================================
