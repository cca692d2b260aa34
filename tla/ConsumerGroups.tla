--------------------------- MODULE ConsumerGroups ---------------------------
(***************************************************************************)
(* internal/models/consumer.go: the record of a consumer group and the     *)
(* methods that read and change it.  Each method runs under the group's    *)
(* own mutex, so each is one operator, applied in one step of the broker.  *)
(***************************************************************************)
EXTENDS Messages

CONSTANT Unregistered   \* an instance name absent from the Instances map

ConsumerInstanceRec == [LastHeartbeat : Nat, InFlightCount : Int]

ConsumerGroupRec ==
    [Offsets   : [Partition -> Int],
     Instances : [Instance -> ConsumerInstanceRec \cup {Unregistered}]]

ASSUME ConsumerGroupAssumption == Unregistered \notin ConsumerInstanceRec

NewConsumerGroup ==
    [Offsets   |-> [p \in Partition |-> 0],
     Instances |-> [i \in Instance |-> Unregistered]]

HasInstance(cg, i) == cg.Instances[i] # Unregistered

\* Registering again replaces the entry: the in-flight count starts over.
RegisterInstance(cg, i, at) ==
    [cg EXCEPT !.Instances[i] = [LastHeartbeat |-> at, InFlightCount |-> 0]]

\* Heartbeat of an unknown instance changes nothing and reports false.
HeartbeatOf(cg, i, at) ==
    IF HasInstance(cg, i)
    THEN [cg EXCEPT !.Instances[i].LastHeartbeat = at]
    ELSE cg

CheckDeadInstances(cg, at, timeout) ==
    {i \in Instance : /\ HasInstance(cg, i)
                      /\ at - cg.Instances[i].LastHeartbeat > timeout}

RemoveInstance(cg, i) == [cg EXCEPT !.Instances[i] = Unregistered]

GetOffset(cg, p) == cg.Offsets[p]

\* Mutant: the offset of every partition is set.
SetOffsetEverywhere(cg, p, offset) == [cg EXCEPT !.Offsets = [q \in Partition |-> offset]]

SetOffset(cg, p, offset) == [cg EXCEPT !.Offsets[p] = offset]

\* Replay: only the partitions the request names are moved, to any number.
SetAllOffsets(cg, offsets) ==
    [cg EXCEPT !.Offsets = [p \in Partition |->
        IF p \in DOMAIN offsets THEN offsets[p] ELSE cg.Offsets[p]]]

\* Counting for an instance that is no longer registered is dropped.
IncrementInFlight(cg, i, delta) ==
    IF HasInstance(cg, i)
    THEN [cg EXCEPT !.Instances[i].InFlightCount = @ + delta]
    ELSE cg

=============================================================================
