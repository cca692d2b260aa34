------------------------------- MODULE Topics -------------------------------
(***************************************************************************)
(* The life of topics: Broker.CreateTopic with its two locks, against      *)
(* consumers that find a topic before the broker has its maps, failed      *)
(* writes of the metadata, crashes, and the topics a new process serves.   *)
(*                                                                         *)
(* Each topic has one message and its consumers are in one group.  Leases  *)
(* do not lapse here: module Broker has the delivery within a topic.       *)
(***************************************************************************)
EXTENDS Naturals

CONSTANTS
    Topic, Config, Client,
    None, Torn,     \* no metadata file, or no topic; a file that was not written to its end
    Nobody,
    MaxRestarts     \* bound on the exploration

ASSUME TopicsAssumption ==
    /\ None \notin Config /\ Torn \notin Config /\ None # Torn
    /\ Nobody \notin Client
    /\ MaxRestarts \in Nat

VARIABLES
    up,
    dirs,       \* the directories under topics/
    meta,       \* the metadata file of each topic, written with its Config
    served,     \* sm.topics
    smMu,       \* the CreateTopic call that holds sm.mu between two steps
    maps,       \* how often the broker has made the maps of each topic
    inFlight,   \* who the message of each topic is leased to, in the latest map
    call,       \* where each call is
    answered,   \* the configuration a creation was answered with
    restarts

files == <<dirs, meta>>
broker == <<maps, inFlight>>
vars == <<up, files, served, smMu, broker, call, answered, restarts>>

\* A call creates topic t with a configuration, or consumes from it: made tells
\* the map of groups its group is in, settled whether no creation of t was under
\* way when it began.
Idle == [pc |-> "idle"]
Creating(pc, t, k) == [pc |-> pc, topic |-> t, config |-> k]
Consuming(pc, t, made, settled) ==
    [pc |-> pc, topic |-> t, made |-> made, settled |-> settled]

At(c, pc) == call[c].pc = pc
On(c, t) == call[c].topic = t
Becomes(c, next) == call' = [call EXCEPT ![c] = next]

Init ==
    /\ up = TRUE
    /\ dirs = {} /\ meta = [t \in Topic |-> None]
    /\ served = [t \in Topic |-> None]
    /\ smMu = Nobody
    /\ maps = [t \in Topic |-> 0] /\ inFlight = [t \in Topic |-> Nobody]
    /\ call = [c \in Client |-> Idle]
    /\ answered = [t \in Topic |-> None]
    /\ restarts = 0

-----------------------------------------------------------------------------
(* Broker.CreateTopic *)

\* Mutant: a topic that exists is returned and not an error.
CreateOpenOrGet(c, t, k) ==
    /\ up /\ At(c, "idle")
    /\ smMu = Nobody
    /\ \/ /\ served[t] = None
          /\ smMu' = c
          /\ dirs' = dirs \cup {t}
          /\ Becomes(c, Creating("open", t, k))
       \/ /\ served[t] # None
          /\ Becomes(c, Creating("maps", t, served[t]))
          /\ UNCHANGED <<dirs, smMu>>
    /\ UNCHANGED <<up, meta, served, broker, answered, restarts>>

\* sm.mu is taken, and the logs and the dead-letter store are opened.
CreateOpen(c, t, k) ==
    /\ up /\ At(c, "idle")
    /\ smMu = Nobody
    /\ served[t] = None
    /\ smMu' = c
    /\ dirs' = dirs \cup {t}
    /\ Becomes(c, Creating("open", t, k))
    /\ UNCHANGED <<up, meta, served, broker, answered, restarts>>

\* The topic can be found from here on.
CreateMeta(c, t, k) ==
    /\ call[c] = Creating("open", t, k)
    /\ meta' = [meta EXCEPT ![t] = k]
    /\ served' = [served EXCEPT ![t] = k]
    /\ smMu' = Nobody
    /\ Becomes(c, Creating("maps", t, k))
    /\ UNCHANGED <<up, dirs, broker, answered, restarts>>

\* What is in the metadata file when writing k to it fails or is cut off.
MetaReached(t, k) == {meta[t], Torn, k}

\* Mutant: the failed write is only logged.
CreateMetaFailsLogged(c, t, k) ==
    /\ call[c] = Creating("open", t, k)
    /\ \E written \in MetaReached(t, k) : meta' = [meta EXCEPT ![t] = written]
    /\ served' = [served EXCEPT ![t] = k]
    /\ smMu' = Nobody
    /\ Becomes(c, Creating("maps", t, k))
    /\ UNCHANGED <<up, dirs, broker, answered, restarts>>

\* The directory stays, and so may a metadata file, whole or torn.
CreateMetaFails(c, t, k) ==
    /\ call[c] = Creating("open", t, k)
    /\ \E written \in MetaReached(t, k) : meta' = [meta EXCEPT ![t] = written]
    /\ smMu' = Nobody
    /\ Becomes(c, Idle)
    /\ UNCHANGED <<up, dirs, served, broker, answered, restarts>>

\* Under b.mu the maps are made anew, whatever consumers put there before.
CreateMaps(c, t, k) ==
    /\ call[c] = Creating("maps", t, k)
    /\ maps' = [maps EXCEPT ![t] = @ + 1]
    /\ inFlight' = [inFlight EXCEPT ![t] = Nobody]
    /\ answered' = [answered EXCEPT ![t] = k]
    /\ Becomes(c, Idle)
    /\ UNCHANGED <<up, files, served, smMu, restarts>>

-----------------------------------------------------------------------------
(* Consume and Ack *)

Settled(t) == \A d \in Client : ~(At(d, "maps") /\ On(d, t))

\* The topic is looked up, under sm.mu.
ConsumeFind(c, t) ==
    /\ up /\ At(c, "idle")
    /\ smMu = Nobody
    /\ served[t] # None
    /\ Becomes(c, Consuming("found", t, 0, Settled(t)))
    /\ UNCHANGED <<up, files, served, smMu, broker, answered, restarts>>

\* GetOrCreateConsumerGroup, in the map that is there now.
ConsumeGroup(c, t) ==
    /\ At(c, "found") /\ On(c, t)
    /\ Becomes(c, Consuming("group", t, maps[t], call[c].settled))
    /\ UNCHANGED <<up, files, served, smMu, broker, answered, restarts>>

\* tryAssignMessage.
ConsumeAssign(c, t) ==
    /\ At(c, "group") /\ On(c, t)
    /\ inFlight[t] = Nobody
    /\ inFlight' = [inFlight EXCEPT ![t] = c]
    /\ Becomes(c, [call[c] EXCEPT !.pc = "holds"])
    /\ UNCHANGED <<up, files, served, smMu, maps, answered, restarts>>

ConsumeNothing(c) ==
    /\ At(c, "group")
    /\ Becomes(c, Idle)
    /\ UNCHANGED <<up, files, served, smMu, broker, answered, restarts>>

\* An error and no change when the entry is not this consumer's.
Ack(c, t) ==
    /\ At(c, "holds") /\ On(c, t)
    /\ inFlight' = [inFlight EXCEPT ![t] = IF @ = c THEN Nobody ELSE @]
    /\ Becomes(c, Idle)
    /\ UNCHANGED <<up, files, served, smMu, maps, answered, restarts>>

-----------------------------------------------------------------------------
(* The end of the process and NewBroker *)

\* At any step.  It is also the end when Go finds that Heartbeat, Replay or the
\* marshalling of a group reads a map while another goroutine writes it.
Crash ==
    /\ up
    /\ restarts < MaxRestarts
    /\ up' = FALSE
    /\ \/ smMu = Nobody /\ UNCHANGED meta
       \/ \E t \in Topic, k \in Config :
            \E written \in MetaReached(t, k) :
               /\ smMu # Nobody /\ call[smMu] = Creating("open", t, k)
               /\ meta' = [meta EXCEPT ![t] = written]
    /\ served' = [t \in Topic |-> None]
    /\ smMu' = Nobody
    /\ maps' = [t \in Topic |-> 0] /\ inFlight' = [t \in Topic |-> Nobody]
    /\ call' = [c \in Client |-> Idle]
    /\ UNCHANGED <<dirs, answered, restarts>>

\* One metadata file that cannot be parsed ends the process.
Loadable == \A t \in dirs : meta[t] # Torn

Start ==
    /\ ~up
    /\ Loadable
    /\ up' = TRUE
    /\ served' = [t \in Topic |-> IF t \in dirs THEN meta[t] ELSE None]
    /\ maps' = [t \in Topic |-> IF served'[t] # None THEN 1 ELSE 0]
    /\ restarts' = restarts + 1
    /\ UNCHANGED <<files, smMu, inFlight, call, answered>>

Next ==
    \/ \E c \in Client, t \in Topic :
          \/ \E k \in Config : \/ CreateOpen(c, t, k) \/ CreateMeta(c, t, k)
                               \/ CreateMetaFails(c, t, k) \/ CreateMaps(c, t, k)
          \/ ConsumeFind(c, t) \/ ConsumeGroup(c, t)
          \/ ConsumeAssign(c, t) \/ Ack(c, t)
    \/ \E c \in Client : ConsumeNothing(c)
    \/ Crash \/ Start

Spec == Init /\ [][Next]_vars

-----------------------------------------------------------------------------
(* Properties *)

\* A topic whose creation was answered is served with the configuration that was
\* answered, by this process and by every later one; the torn file that keeps a
\* server from starting is never its own (CreateTopic, loadExistingTopics).
AnsweredServed ==
    \A t \in Topic : answered[t] # None =>
        /\ t \in dirs /\ meta[t] = answered[t]
        /\ up => served[t] = answered[t]

\* A call that began with no creation of its topic under way keeps what it got:
\* its group is the registered one, and what it holds is leased to it.  Only the
\* calls that found the topic before CreateTopic returned can lose both
\* (CreateTopic, Consume).
SettledCallsKeep ==
    \A c \in Client, t \in Topic :
        (At(c, "group") \/ At(c, "holds")) /\ On(c, t) /\ call[c].settled =>
            call[c].made = maps[t] /\ (At(c, "holds") => inFlight[t] = c)

=============================================================================
