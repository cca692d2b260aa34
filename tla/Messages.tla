------------------------------ MODULE Messages ------------------------------
(***************************************************************************)
(* The message record of internal/models/message.go.  A message is what    *)
(* the broker keeps in memory behind a pointer and what it marshals into   *)
(* the partition log and the dead-letter file; marshalling and reading     *)
(* back keep every field below.  Key, payload, priority and the state      *)
(* history decide nothing in the delivery logic and are left out, and      *)
(* MaxRetries, copied from the topic into each message, is a constant.     *)
(***************************************************************************)
EXTENDS Integers

CONSTANTS
    Msg,          \* message identifiers
    Group,        \* names of consumer groups
    Instance,     \* names of consumer instances
    NoGroup,      \* the empty ConsumerGroup string
    NoInstance,   \* the empty ConsumerInstance string
    Partitions,   \* Config.Partitions of the topic
    MaxRetries    \* Config.MaxMessageRetries of the topic

ASSUME MessageAssumption ==
    /\ NoGroup \notin Group
    /\ NoInstance \notin Instance
    /\ Partitions \in Nat \ {0}
    /\ MaxRetries \in Nat \ {0}

Partition == 0 .. Partitions - 1

StatePending  == "pending"
StateInFlight == "in_flight"
StateAcked    == "acked"
StateDLQ      == "dlq"

MessageState == {StatePending, StateInFlight, StateAcked, StateDLQ}

Message == [ID               : Msg,
            Partition        : Partition,
            Offset           : Nat,
            State            : MessageState,
            AvailableAt      : Nat,
            RetryCount       : Nat,
            VisibilityUntil  : Nat,
            ConsumerGroup    : Group \cup {NoGroup},
            ConsumerInstance : Instance \cup {NoInstance}]

\* The literal Publish builds.  Offset is Go's zero value: the broker learns
\* the real offset from the log only after the message has been marshalled.
NewMessage(m, p, availableAt) ==
    [ID               |-> m,
     Partition        |-> p,
     Offset           |-> 0,
     State            |-> StatePending,
     AvailableAt      |-> availableAt,
     RetryCount       |-> 0,
     VisibilityUntil  |-> 0,
     ConsumerGroup    |-> NoGroup,
     ConsumerInstance |-> NoInstance]

\* TransitionsState checks nothing: any state may be left for any other.
TransitionsState(msg, to) == [msg EXCEPT !.State = to]

=============================================================================
