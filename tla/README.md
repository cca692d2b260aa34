# SoloMQ in TLA+

SoloMQ is a single-process message queue in Go: topics with partitions, consumer
groups with offsets, long polling, visibility timeouts, retries, a dead-letter
queue, delayed messages, and an admin page. This directory models its delivery
logic, its storage, the life of its topics and its locks, checks them with TLC, and
proves the safety properties with TLAPS.

Paths below are relative to the repository; `broker.go` is
`internal/broker/broker.go`.

## 1. The system

| component | source | state | operations |
|---|---|---|---|
| broker | `broker.go` | `inFlight`, `consumerGroups`, `delayQueue`, `longPollWaiters`, `roundRobinCtr`, one mutex `b.mu` | `Publish`, `Consume`, `Ack`, `Nack`, `Heartbeat`, `Replay`, `ResendDLQMessage`, `CreateTopic`, the four sweeps, `RefreshMetrics`, `NewBroker` |
| message | `models/message.go` | the record | `TransitionsState` (checks nothing), JSON |
| consumer group | `models/consumer.go` | offsets per partition, registered instances, its own mutex `cg.mu` | register, heartbeat, dead check, offsets, in-flight counts |
| partition log | `storage/log.go` | a data file, an index file, the index in memory, `nextOffset` | `Append`, `Read`, `Scan`, `loadIndex`, `CleanupExpired` |
| dead-letter store | `storage/dlq.go` | a map, a data file, an index file | `Add`, `Remove`, `load`, `CleanupExpired` |
| storage manager | `storage/manager.go` | the topics with their logs and stores | `CreateTopic`, `loadExistingTopics`, append, read |
| topics | `models/topic.go` | configuration | validation, defaults |
| metrics | `models/metrics.go` | counters and a history per topic | updates from `RefreshMetrics` |
| HTTP API, admin pages | `internal/api`, `templates` | none | parse a request, call the broker |
| process | `main.go`, `config/config.go` | five tickers, the configuration | one goroutine serves all tickers |
| locking | all of `internal` | six kinds of `sync.RWMutex`: `b.mu`, `sm.mu`, `l.mu`, `s.mu`, `cg.mu`, `ms.mu` | lock, unlock, the tables they guard |

How they interact. Every request is a goroutine that calls the broker directly.
The broker calls the log and the dead-letter store, which lock for themselves,
sometimes with `b.mu` held (`Ack`, `Nack`, `ProcessDelayQueue`) and sometimes
without (`Publish`, `ResendDLQMessage`, the scan of `Consume`). A publisher wakes
consumers by sending a *pointer* to the message into the one-place channel of
every waiting call. One background goroutine runs the sweeps, one at a time. What
survives a crash is the log, the DLQ file, the topic metadata and the group files.

What is hard here:

* **Shared objects.** The same `*Message` can be in the in-flight table, in the DLQ
  map and in several channels at once; some writers hold `b.mu`, some do not.
* **Check, unlock, act.** `Consume` scans, then registers, then waits, then assigns,
  in separate critical sections; `ProcessDeadInstances` acts on a list it took earlier.
* **Offsets that lag.** A record is marshalled before the log gives it an offset, so
  the offset inside it is the one the message had before.
* **State in two places.** Sweeps change memory only; the log and the group offset
  do not follow. A restart keeps the log and drops the rest.
* **Time.** Visibility, heartbeats, delays and long polls expire while others act.
* **Locks.** `ProcessDelayQueue` and the log's `CleanupExpired` lock again what they hold;
  `Ack` and `Nack` take four other locks with `b.mu` held.
* **Two files, two steps.** A record or a dead letter is written to a data file and then
  to an index file that is read at fixed boundaries; either write can fail or be cut off.
* **Two owners of a topic.** The storage manager shows a topic before the broker has made
  its maps, which then replace whatever consumers made in between.

What each component must get right:

* broker: a message is with at most one consumer at a time; a wakeup is not lost; a
  published, nacked or resent message is delivered; a released one is delivered
  again; nothing blocks for ever; a delayed message is not early; a restart loses
  nothing;
* consumer group: an offset never passes the end of the log; offsets of different
  partitions do not disturb each other;
* log: offsets are dense and stable, a record read is the record appended, both
  files agree after a crash;
* dead-letter store: a dead letter is there until it is resent, once;
* topics and storage manager: a topic is usable once it is visible;
* metrics: rates count publications, lag counts messages still to be consumed.

## 2. The modules

    Messages         the message record                           message.go
      ConsumerGroups   the group record and its methods           consumer.go
        Broker           the broker, its log and its objects      broker.go, main.go
          BrokerProperties   what is claimed of it
            MCBroker           values of the constants for TLC
            BrokerProofs       type correctness, for every value
              BrokerSafety       waiters, offsets
                BrokerLeases       Broker implements Lease
                BrokerDelays       delayed messages
    Lease            what the in-flight table promises (abstract)

    IndexFile        files cut short, and what is read of them    log.go, dlq.go
      AppendLog        the two files of one partition             log.go
        MCAppendLog      its symmetry for TLC
        AppendLogProofs  reads are right; AppendLog implements OffsetLog
      DeadLetters      the store and all that moves a letter      dlq.go, broker.go
        DeadLettersProofs
    OffsetLog        what a partition log promises (abstract)

    Topics           CreateTopic against consumers and crashes    manager.go, broker.go
      TopicsProofs
    BrokerLocks      every operation as a sequence of locks       all of internal
      BrokerLocksProofs

How they fit together. `Broker` uses a partition as a sequence of records, which is
what `OffsetLog` promises and `AppendLog` implements from the two files. `Broker` has
one topic that exists; `Topics` says how one comes to exist. `Broker` takes I/O as
successful; `AppendLog`, `DeadLetters` and `Topics` are the places where it fails.
`Broker` holds `b.mu` for a step. `BrokerLocks` shows that the other mutexes, which its steps
take inside, can be had until one of the two tasks that lock what they hold has run; those
two are in `Broker` as well (`ProcessDelayQueue`, `CleanupExpired`), with what they keep locked.

### State of the broker

| variable | code |
|---|---|
| `log[p]` | the records of partition p, as `Read` returns them; offset k is element k + 1, `NextOffset` the length |
| `dlqFile[m]` | the record of m that was written last to the DLQ's files: `load` keeps the last one of each message, and nothing is ever taken out |
| `heap[o]` | the message object at address `o`. References, not copies, are in the next five variables |
| `inFlight[m]`, `dlq[m]`, `channel[c]`, `delayQueue` | the tables that hold message pointers |
| `publishing[m]`, `resending[m]`, `nacking` | the local pointer of a publish, a resend or a nack in progress, and where it is |
| `groups[g]` | the `ConsumerGroup`, `NoSuchGroup` when absent |
| `call[c]` | where a `Consume` call is; `part`, `offset`, `limit` and `at` are the locals of `tryGetNextMessage` |
| `waiters` | the set of calls in `longPollWaiters`; their order decides nothing, since the notifier takes them all |
| `sweep` | the locals of `ProcessDeadInstances`; or `CleanupExpired` and the partition whose log it keeps locked |
| `mu` | who holds `b.mu` between two steps: nobody, a `Nack` that appends a dead letter, the delay queue's task, or an `Ack` or `Nack` that waits for a locked log |
| `roundRobin`, `now`, `restarts` | the counter, the clock, the number of restarts |

`heap` is collected: `HeapBecomes` clears each object that nothing refers to in
the new state, so that addresses can be used again. `Live` lists every reference.

### Actions of the broker

A step is one critical section of `b.mu`, or one unlocked step between two.

| action | code |
|---|---|
| `Publish`, `PublishNotify` | `Publish` up to the append, then `notifyLongPollWaiters` |
| `PublishDelayed`, `PublishDelayedAppend` | the delayed branch: push, then append |
| `ConsumeStart` | `GetOrCreateConsumerGroup` and `RegisterInstance` |
| `ScanPartition`, `ScanAssign`, `ScanRefused`, `ScanExhausted` | `tryGetNextMessage`: the bounds of a partition, a candidate taken, a candidate refused, the next partition or the end |
| `ConsumeReturn`, `RegisterWaiter`, `WaiterReceive`, `WaiterTimeout`, `RemoveLongPollWaiter` | the rest of the loop of `Consume` |
| `Ack`, `NackRetry`, `NackDLQ`, `NackDLQAppend` | `Ack`; `Nack` by its branches, the DLQ branch in two steps since the dead letter is visible to the administrator in between |
| `SettleBlocks` | an `Ack` or `Nack` that reaches a log the clean-up has locked: the message is out of the table, and `b.mu` is never given back |
| `Heartbeat`, `Replay` | the unlocked operations of the same names |
| `ResendRemove`, `ResendReset`, `ResendAppend`, `ResendOffset`, `ResendNotify` | `ResendDLQMessage`, which holds no broker lock until it notifies. `ResendReset` is one of the five field writes (`ResetWrite`), `AfterWrite` their order |
| `CheckVisibilityTimeouts` | the sweep |
| `DeadSweepStart`, `CheckDead`, `ReleaseDead`, `RemoveDead` | `ProcessDeadInstances` |
| `ProcessDelayQueue` | the task up to the call that blocks it |
| `CleanupExpired` | the task up to the read that blocks it: it goes past empty logs and stays in the first other one |
| `Restart` | the end of the process and `NewBroker` |

Choices a reader should know:

* `tryAssignMessage` is the pair `Assign` / `Refuse` with the result in `Assigned`.
  It is used on a fresh copy (scan) and on a shared object (waiter).
* The records that are no candidates are passed over in one step: reading them
  changes nothing, and the log only grows.
* `ConsumeStart` is two critical sections of different locks in one step; nothing
  that runs in between reads what the second one writes in a way that tells.
  `WaiterReceive` includes `removeLongPollWaiter`, which finds the list empty of
  this call: only the notifier can have filled the channel, and it emptied the list.
* The deadline of `Consume` is not a number: the call may stop after any message
  (`LoopOrReturn`), may find less than 100 ms left (`ConsumeReturn`), and may time
  out whenever it waits.
* A key hashes to any partition; the round-robin counter is exact.
* A message identifier is used by one publish.
* `Replay` checks no range, as the code does not: `ReplayOffsets` is any set of integers. The
  offset of a partition the topic does not have is left out, since no scan reads it.
* `ScanPartition` takes the offset and the end of a partition in one step, which are two
  short critical sections in the code; what is appended in between makes the walk longer.
* Each of the five writes of `ResendDLQMessage`, and its last one, is a step, so that a lease
  can be granted between them; a critical section of `b.mu` is one step against them. That
  such a write falls between two reads of `State` inside `tryAssignMessage`, is lost in its
  `RetryCount++`, or is seen by half of a record that is being marshalled, is left out.
* Once the clean-up has locked a log, the code stops more and more: a reader of that log holds
  `sm.mu`, which the next append of any partition needs. The model stops what needs that log
  itself (`LogFree`) and lets the rest go on, so it has every behaviour of the code, and more.
* Every append succeeds here; errors are in the modules of the storage.

### Properties of the broker

* `TypeInv`: types, every pointer valid, every operation in progress consistent.
* `LeaseSpec`: the specification of `Lease` under the mapping `LeaseOf`. A lease of a
  message exists while the table holds it with `VisibilityUntil` in the future. It
  may be granted only when none runs, its end is fixed when it is granted, and it
  ends by time, by settlement, by eviction or by a restart. `Disown` is what a resend can
  do to it: a waiting call takes the object after its deadline is cleared (`broker.go:647`) and
  before its names are (648, 649). The lease then runs without a holder: nobody can ack or
  nack it, and the message is free again when it lapses.
* `OffsetInv`: `OffsetWithinLog` (no group's offset is past the end of its partition, unless an
  administrator sets it) and what makes it inductive: no offset in an object, in a record or
  in the DLQ file is past the end either.
* `OnlyReplayPassesLog`: whatever an administrator has set, no other step takes an offset past
  the end of its partition; a group that was moved beyond the log comes back or stays.
* `WaiterInv`: a registered waiter has an empty channel, and a waiting call is
  registered or has its message.
* `DeliveredWhenDue`: no delayed message in flight before its time.
* `ConsumeReturns`, `BacklogServed`, `RestartRedelivers`: liveness, until one of the two
  self-locking tasks has run (`LockedOut`). `BacklogServed` says that
  a group with a backlog is given *some* message. That it is given each one is
  `BacklogDelivered`, which the code does not do (run `passed_over`).

### The partition log: `AppendLog`

| variable | code |
|---|---|
| `data`, `indexFile` | `log.dat` and `index.dat`: what was written whole, and `Torn` where a write was cut short |
| `index`, `nextOffset` | `l.index`, `l.nextOffset` |
| `holder` | `l.mu` between two steps: an append between its two files, or the clean-up |
| `answered` | the appends that returned an offset, with their records |

`AppendRecord` and `AppendRecordFails` are the first half of `Append`, `AppendIndex` and
`AppendIndexFails` the second; the offset and the entry in memory are taken before the
index is written, and are kept when that write fails. `LoadIndex` is `loadIndex`: the
entries in front of the first torn one are read as they were written (`Aligned`); the
ones behind it are read at wrong boundaries and give arbitrary offsets (`garbage`).
`Place` packs the position into the upper half of an `int64` and gets it back with an
arithmetic shift: from 2 GiB on it is negative, from 4 GiB on it repeats.

* `AnsweredReadable`: what `Read` returns at an answered offset is the record that was
  answered, or an error for a position beyond 2 GiB, through all failures and restarts
  that read no misaligned entry.
* `OnePlacePerOffset`: no two offsets lead to one record.
* `OffsetLogSpec`: the log implements `OffsetLog` while its files are intact: answered
  offsets only grow, and what is read at one never changes.

All three stop at 4 GiB (`OffsetLogSpec` at 2 GiB): beyond it the code reads the wrong
record, and no text of the repository promises such a log.

### The dead letters: `DeadLetters`

`letters` is the store's map and `indexFile` its file; a letter is known by the number of its
entry, since a message can be dead-lettered again. Of the delivery only the in-flight table
is kept. A message can come into it at any time (`Deliver`), also one that was settled: a
stale offset lets the scan read an older record, and a waiting call can be assigned a shared
object that is a dead letter by now. `Add` succeeds (`NackDLQ`) or fails before, in or after
its index entry. `Remove` and `CleanupExpired` leave the file alone, and `Start` reads it.
`stored` and `taken` record history only.

* `TakenOnce`: a letter is taken out once, whichever administrators and clean-up meet, with
  new letters of the same message in between: what the map shows was not taken before.
* `LettersSurvive`: a new process finds the last stored letter of every message, or a later
  one, also when a failed resend had taken it out. A letter is stored when its entry is in
  the file with no piece of another one before it.

A message that is in the DLQ and in flight at once, or that is acknowledged twice, is a
behaviour of the code (run `ack_final`) and of this module; no property denies it.

### The topics: `Topics`

`CreateTopic` in three steps (directory under `sm.mu`, metadata and the topic's
visibility, the broker's maps under `b.mu`), consumers that find the topic after the
second, a failing or torn write of the metadata, `Crash` and `Start`.

* `AnsweredServed`: a topic whose creation was answered is served with that configuration,
  by this process and all later ones. One torn metadata file stops the server from
  starting (`Loadable`); it is never the file of an answered topic.
* `SettledCallsKeep`: a call that began with no creation under way keeps its group and
  its lease. That the other calls can lose both is in the model (`CreateMaps`).

### The locks: `BrokerLocks`

Each of the 21 handlers and background tasks is the sequence of its lock operations
and of its accesses to shared tables, put together as in the code from the sequences
of what it calls; goroutines run them. A mutex is Go's `RWMutex`: a waiting writer keeps
new readers out. An access that the code makes without the lock it takes elsewhere is
marked (`GetBare`, `PutBare`): `Heartbeat`, `Replay`, the marshalling of groups,
`RefreshMetrics`, the pointers that lookups return.

* `GuardedTablesSafe`: the accesses that take their lock never conflict.
* `NoDeadlock`, `OperationsEnd`: no operations block each other and all end, unless one of
  the two tasks that lock what they hold has locked itself out (`SelfLocked`).

## 3. The runs

Deadlock is not checked: the systems may stop, and the bounds stop them. The
deadlocks that matter are properties of `BrokerLocks`.

| run | module, instance | shows |
|---|---|---|
| `competing` | `MCBroker`: 1 message, 1 group, 2 instances in 2 calls, clock 0..1, heartbeat timeout 0 | `LeaseSpec` when two instances race, one of them possibly being evicted |
| `deadletters` | `MCBroker`: 1 message, `MaxRetries` 1, 2 instances in 2 calls, 3 records | `OffsetInv`, `WaiterInv`, `LeaseSpec` through nack to the DLQ, the separate writes of a resend, and one object in two channels |
| `partitions` | `MCBroker`: 1 message, 2 partitions of 2 records, delays 0 and 1, an administrator who sets offsets from -1 to 3 | `TypeInv`, `DeliveredWhenDue`, `OnlyReplayPassesLog` |
| `polling` | `MCBroker`: 1 message, 1 call, 2 records, evictions, the clean-up, 1 restart, `FairSpec` | `ConsumeReturns`, `BacklogServed`, `RestartRedelivers` |
| `log` | `MCAppendLog`: 2 records, 2 GiB after 2 records, 5 places, offsets to 3, 2 restarts | `AnsweredReadable`, `OnePlacePerOffset`, `OffsetLogSpec` |
| `letters` | `DeadLetters`: 2 messages, 4 entries, 2 restarts | `TakenOnce`, `LettersSurvive` |
| `locks` | `BrokerLocks`: any 2 of the 21 operations, over and over, `FairSpec` | `GuardedTablesSafe`, `NoDeadlock`, `OperationsEnd` |
| `topics` | `Topics`: 2 topics, 2 configurations, 3 calls, 2 restarts | `AnsweredServed`, `SettledCallsKeep` |

Four runs each look for a behaviour that contradicts a text of the repository, and
TLC finds it:

| run | text | behaviour |
|---|---|---|
| `background_tasks` | `broker.go:815` logs what the clean-up removed, `broker.go:804` that a delayed message is available | `CleanupExpired` reads the log it has locked, `ProcessDelayQueue` notifies with `b.mu` held: neither ends, and with it the background goroutine and the operations that need the lock |
| `passed_over` | `templates/dashboard.html:54`: a highly reliable queue | two messages arrive between a call's scan and its wait; the second is sent to the waiter, and the group's offset jumps over the first |
| `released` | `broker.go:772` "visibility timeout, releasing" | the release is in memory only, behind the group's offset: the message is not delivered again |
| `ack_final` | `templates/topic.html:195`: modifying the offset makes messages be consumed again | a nacked message is acknowledged and then delivered again, with no offset modified: the stale offset in its record keeps the group before it |

### Bounds

`MaxNow` bounds the clock: 1 is enough for a lease of length 1 to be granted at time
0, lapse, be swept and be granted again, and for a delayed message to become due.
In `deadletters` the clock stands still: leases run until they are settled or disowned, and
what a resend does meets running ones; `competing` has the lapses. `MaxLog` bounds each
partition: 2 records are a message and its ack or nack, or its delayed copy, 3 add the
resent one. `ReplayOffsets` in `partitions` goes from below the log to beyond every log the
bound allows. `Cleaning` lets the hourly clean-up run, in `polling`; the other runs show
what holds before it, and after it less happens. `MaxRestarts` bounds restarts. `Obj` has as many
addresses as the run can use: an object each for the table, a channel and an
operation in progress. A `Publish`, `Ack` or other append without room does not
happen; a started dead letter keeps its place (`HasRoom`). Symmetry is used in runs without
liveness only, over addresses and over the clients together with what they call for.

Three addresses and not two in `polling` and `passed_over`: with two, a call whose
scan finds no free address would wait for one, a stall the program does not have.
Under the bounds of `polling` the leads-to properties are not cut short: their
right-hand sides need a scan and an assignment, which append nothing. The heartbeat
timeout 0 lets the sweep evict any instance that did not poll in this tick. Two things are
not in that run: a delayed message, which a clock with a bound may keep for ever, and a
resend, which takes more records than that run has. That a resent message is served
is what `BacklogServed` would say with them; it is not checked.

`log`: `Half` is 2, so that two records fit below 2 GiB, two more below 4 GiB and the
fifth place repeats the first; 2 restarts let a file be torn, extended and read again.
Three offsets are enough for a torn entry between two whole ones. `letters`: an index
of 4 entries holds two letters of one message, a torn entry and one behind it; 2 restarts
let a loaded letter be taken out, stored again and loaded again. `locks`: 2 goroutines, which meet
in every pair of operations at every pair of places. For more of them both invariants
are theorems (section 4).
`topics`: 3 calls are a creation, its repetition and a consumer.

### Fairness

`FairSpec` assumes, for each `Consume` call, publish, resend, nack and sweep that has
begun, that it goes on (weak fairness: Go schedules every runnable goroutine, and
`sync.RWMutex` does not starve a waiting locker); that consumers poll again
(`ConsumeStart`); that the deadline of a call passes (`DeadlinePasses`, strong fairness: a call
that comes again and again to a point where it looks at its deadline ends there at last);
and strong fairness of `CheckVisibilityTimeouts`, which is disabled
while another background task runs: `select` in `startBackgroundTasks` picks
uniformly among the tickers that are ready. Nothing is assumed of acks, nacks,
heartbeats, publishing, the clock, the administrator's requests, the clean-up or crashes.
A call that waits for a lock nobody gives back is not enabled, so fairness does not move
it: after `CleanupExpired` or `ProcessDelayQueue` nothing is claimed (`LockedOut`).

`BrokerLocks!FairSpec` assumes that a goroutine that can go on does (`Proceed`), and
strong fairness of taking a lock: a lock that is free again and again is taken in the
end, since a blocked writer is next after the readers it found, readers that waited
are let in before the next writer, and `sync.Mutex`, which writers queue in, hands
itself over to one that has waited for long.

## 4. The proofs

`tlapm` checks every theorem to its leaves, for every value of the constants that
satisfies the named assumptions of the modules (null values are not values, partitions
and retries positive as `NewTopic` makes them, the timeouts and bounds natural numbers,
2 GiB positive, a torn piece no record, the served operations among the 21). Every
invariant and every refinement that a run checks is also a theorem.

* `TypeCorrect`: `Spec => []TypeInv`. The types alone are not inductive, since an
  action dereferences pointers. `TypeInv` adds that each live reference leads to a
  message (`Allocated`), that a call in progress has its group and a limit within the
  log (`CallsValid`), that an operation in progress has its object
  (`OperationsValid`), and that the groups the sweep has still to visit exist
  (`SweepValid`). One lemma per action; most rest on a lemma about `HeapBecomes`.
* `OffsetsCorrect`, `ReplayAlonePassesLog`: `OffsetWithinLog` depends on the offset an
  object carries when it is assigned, which depends on the record it was read from,
  on the DLQ file after a restart, and on the offset a resend has in hand. `OffsetInv`
  has one conjunct for each. None of them depends on where an administrator has moved a
  group, so the same steps show that only a `Replay` takes any group past the log. A delayed message that is not yet appended is the one
  live object without a record, so `ObjectsLogged` speaks of `Recorded` objects.
* `WaitersCorrect`: inductive once it says that an entry in the list or a message in
  a channel belongs to a call that waits or leaves.
* `LeaseCorrect`: `Spec => LeaseSpec`. Each step of the broker is a step of `Lease` or
  leaves it unchanged: an assignment is `Grant`, an ack or nack is `Settle`, and so is
  a resend that clears the deadline of an object the table still refers to; one that clears
  the group or the instance of such an object is `Disown`, and its other writes stutter; `ReleaseDead` is `Evict`,
  `Restart` is `Forget`, `Tick` is `Tick`, and `CheckVisibilityTimeouts` stutters, for it
  removes only what has lapsed. It needs `TypeInv` and `InFlightOwn`: an entry is the
  message it is filed under. It covers what no run does: any number of groups, which
  share the in-flight table.
* `OffsetsApart`, `AnswersReadable` (`AppendLogProofs`): the invariant has three parts
  beside the types. `FileSorted`: the entries that can be read lie in increasing order
  of offset and of position, below the end of the data. `MemoryAhead`: the next offset
  is above every offset in memory, in the file and among the answers, so that a failed
  write can never lead to an offset being given twice. `Answers`: for an answered
  offset there is one position at which its record is, that memory has, and that an
  entry of a file without misaligned entries has. The lemmas on `Aligned` say what
  appending a whole or a torn entry does to the boundaries of the others.
* `LogImplementsOffsetLog`: `Spec => OffsetLogSpec`. In an intact log what is served is what
  was answered; `AppendIndex` is `Answer`, a step that spoils the log is `Lose`, a spoiled
  log is never intact again, and all else stutters, a crash and a start included.
* `LettersTakenOnce`, `LettersFound` (`DeadLettersProofs`): a letter in the map and one that
  was taken lie within the file, so a new one has a number above both; a stored letter is
  an entry that is read at its boundary, and nothing that is appended later moves it.
* `AnsweredTopicsServed`, `SettledCallsSafe` (`TopicsProofs`): whoever opens a topic holds
  `sm.mu` and nobody serves the topic yet (`OpeningAlone`), a creation that is to make
  the maps finds its topic served with its configuration (`MapsFollow`), what is served
  is what the files say (`ServedStored`), and a settled consumer's topic has no creation
  left that could replace its maps (`ConsumedServed`).
* `DelaysKept`, `DelaysRespected` (`BrokerDelays`): `DeliveredWhenDue` says nothing of where
  a message comes from, and neither `tryAssignMessage` nor the notifier looks at
  `AvailableAt`; only the scan does. `DueInv` has one conjunct for each source.
  `ObjectsDue`: an object in a channel, in the DLQ map or in the hands of a resend is
  due, and only the delay queue and the publisher that filled it know of others.
  `FileDue`: so is a record in the DLQ file, which a restart turns into an object.
  `RecordsDue`: a record whose state is in flight is due; the scan takes such a record
  without looking at its time. `CallsDue`: the time the scan compares with is not
  ahead of the clock.
* `LocksFollowPlans`, `TablesGuarded`, `LocksFree` (`BrokerLocksProofs`): for any number of
  goroutines and any choice of operations. The first half of the argument is about the
  text of the operations. A *plan* of an operation says what is held before each of its
  instructions; a step takes a lock only above all that is held (`b`, then `sm`, then
  `l`, `s`, `cg`, `ms`, which are never nested), releases what is held, and accesses a
  table only under its lock, unless the access is marked. `Neutral` sequences begin and
  end with the same locks, and the lemmas compose them as the code composes its calls,
  up to a plan for each of the 21 operations (`Plans`). The plans of the two tasks that
  lock what they hold end in `Stuck`. The second half is the invariant `LocksInv`: the
  lock table always agrees with the plans of the goroutines (`PlansFollowed`), and a lock
  that is held to write is held by one (`Exclusive`). Two guarded accesses that conflict
  would need one lock twice; and of the goroutines that wait, the one whose lock ranks
  highest waits for one that can go on, or for one that has locked itself out.

Only model-checked, since fairness and `ENABLED` are beyond the prover: liveness, which is
`ConsumeReturns`, `BacklogServed` and `RestartRedelivers` of the broker and `OperationsEnd` of
the locks.

## 5. What is not modelled, and the plan

Left out, with the reason:

* payloads, keys, priorities, message history, logging, authentication, rendering and
  the parsing of requests and of the configuration: they decide nothing in delivery;
* the content of the consumer-group files: `NewBroker` discards what it reads of them
  for every topic that is served. Their locking is in `BrokerLocks`;
* the arithmetic of the metrics: no operation reads it;
* `AppendOnlyLog.Scan`, `RewriteIndex`, `DLQStore.Get`: nothing calls them. `Close` runs
  when `main` returns, which it never does;
* a torn index entry whose pieces add up to a whole one again, so that later entries are
  read at the right boundaries: `Misaligned` counts them as lost;
* Go's data races beyond the accesses marked in `BrokerLocks`: where Go detects one, the
  process ends, which is `Crash`;
* two publishes in one nanosecond, which get the same identifier;
* that a resent or a delayed message is delivered in the end (section 3, Bounds).

Seen while reading and not a matter of the modelled operations: `GetTopic`
(`api/handlers.go:64`) reads the parameter `name`, while its route (`handlers.go:292`)
declares `:topic`.

Five behaviours that no property covers are in the model as the code has them: a retry is
counted by the nack and again by the delivery (`Retried`, `Assigned`), so a message reaches
the DLQ after about half the nacks of its limit; an instance whose heartbeat arrives after
the sweep listed it is evicted (`ReleaseDead`), and so is a message of an instance of the
same name in another group; and an instance that polls again while it holds messages has
its in-flight count reset, which later acks take below zero (`RegisterInstance`); and a resend
can leave a running lease without a holder (`ResendReset`, `Lease!Disown`).

Next: a composition of `Broker` with the failing appends of `AppendLog`, where a failed
index write leaves a record that is read although the publisher got an error. What it does
to the offsets of a group, to a settled message and to the delay queue is in no module yet;
`AppendLog` has the record and `DeadLetters` the letter. And a run of `polling` with resends. The proof modules are one for each component, and
the broker's four build on each other; results about a failing log belong in the same ones.
