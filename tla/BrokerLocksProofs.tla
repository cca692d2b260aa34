------------------------- MODULE BrokerLocksProofs -------------------------
(***************************************************************************)
(* The locks of the server, for any number of goroutines and any choice of *)
(* operations: the guarded tables are safe, and no goroutines wait for     *)
(* each other in a circle.                                                 *)
(*                                                                         *)
(* The argument has two halves.  The first looks at the text of the        *)
(* operations alone: each takes its locks in one order, changes a table    *)
(* only under the table's lock and ends with no lock held, so each has a   *)
(* plan, the locks it holds at every instruction.  The second looks at the *)
(* runs: the lock table always agrees with the plans.                      *)
(***************************************************************************)
EXTENDS BrokerLocks, TLAPS, SequenceTheorems

-----------------------------------------------------------------------------
(* The discipline *)

\* The order the code takes its locks in.  The four innermost ones are never
\* held together.
Rank == [b |-> 1, sm |-> 2, l |-> 3, s |-> 3, cg |-> 3, ms |-> 3]

\* The lock that guards each table.
Guard == [topics |-> "sm", meta |-> "sm", index |-> "l", letters |-> "s",
          members |-> "cg", stats |-> "ms", groups |-> "b", inFlight |-> "b",
          counts |-> "b", waiters |-> "b", roundRobin |-> "b", delayQueue |-> "b"]
Table == DOMAIN Guard

Kind == {"RLock", "RUnlock", "Lock", "Unlock", "get", "put", "get bare", "put bare"}
Instr == Kind \X (Lock \cup Table)

\* What a goroutine holds: each lock not at all, to read or to write.
Holding == [Lock -> {"no", "r", "w"}]
AllFree == [x \in Lock |-> "no"]

\* A goroutine that waits for a lock it holds itself goes no further.
Stuck == [x \in Lock |-> "stuck"]

\* All that is held ranks below r.
Below(h, r) == \A x \in Lock : h[x] # "no" => Rank[x] < r

\* Whoever holds h may run the instruction and then holds g.
Allowed(h, what, x, g) ==
    \/ /\ what \in {"RLock", "Lock"} /\ x \in Lock
       /\ Below(h, Rank[x])
       /\ g = [h EXCEPT ![x] = IF what = "RLock" THEN "r" ELSE "w"]
    \/ what = "RUnlock" /\ x \in Lock /\ h[x] = "r" /\ g = [h EXCEPT ![x] = "no"]
    \/ what = "Unlock" /\ x \in Lock /\ h[x] = "w" /\ g = [h EXCEPT ![x] = "no"]
    \/ what = "get" /\ x \in Table /\ h[Guard[x]] \in {"r", "w"} /\ g = h
    \/ what = "put" /\ x \in Table /\ h[Guard[x]] = "w" /\ g = h
    \/ what \in {"get bare", "put bare"} /\ x \in Table /\ g = h

\* As an instruction of operation o: the two tasks may also lock themselves out.
StepsTo(o, h, ins, g) ==
    \/ h = Stuck /\ g = Stuck
    \/ h \in Holding /\ g \in Holding /\ Allowed(h, ins[1], ins[2], g)
    \/ /\ o \in Relocking
       /\ h \in Holding /\ g = Stuck
       /\ ins[1] \in {"RLock", "Lock"} /\ ins[2] \in Lock /\ h[ins[2]] = "w"

\* A plan of program p: what is held before each instruction and at the end.
IsPlan(o, p, f) ==
    /\ f \in [1 .. Len(p) + 1 -> Holding \cup {Stuck}]
    /\ \A k \in 1 .. Len(p) : StepsTo(o, f[k], p[k], f[k + 1])

\* Program p leads from h to g.
Leads(o, p, h, g) == \E f : IsPlan(o, p, f) /\ f[1] = h /\ f[Len(p) + 1] = g

Operation == DOMAIN Program

\* Whoever holds locks below r only may call p, which gives back what it takes.
Neutral(p, r) ==
    /\ p \in Seq(Instr)
    /\ \A o \in Operation, h \in Holding : Below(h, r) => Leads(o, p, h, h)

\* The same where lock x, the last that was taken, is held in the given mode.
Inside(p, x, mode) ==
    /\ p \in Seq(Instr)
    /\ \A o \in Operation, h \in Holding :
          h[x] = mode /\ Below(h, Rank[x] + 1) => Leads(o, p, h, h)

-----------------------------------------------------------------------------
(* Plans *)

\* What the ranks, the guards and the starting point are.
LEMMA LockFacts ==
    /\ \A x \in Lock : Rank[x] \in {1, 2, 3}
    /\ \A t \in Table : Guard[t] \in Lock
    /\ AllFree \in Holding /\ Stuck \notin Holding
    /\ \A r \in Nat : Below(AllFree, r)
<1>1. \A x \in Lock : Rank[x] \in {1, 2, 3}
  BY DEF Lock, Rank
<1>2. \A t \in Table : Guard[t] \in Lock
  BY DEF Lock, Guard, Table
<1>3. AllFree \in Holding /\ \A r \in Nat : Below(AllFree, r)
  BY DEF AllFree, Holding, Below
<1>4. Stuck \notin Holding
  <2>1. "b" \in Lock
    BY DEF Lock
  <2>2. Stuck["b"] = "stuck"
    BY <2>1 DEF Stuck
  <2> QED BY <2>1, <2>2 DEF Holding
<1> QED BY <1>1, <1>2, <1>3, <1>4

\* Two programs run one after the other.
LEMMA LeadsOn ==
    ASSUME NEW o, NEW p \in Seq(Instr), NEW q \in Seq(Instr), NEW h, NEW k, NEW g,
           Leads(o, p, h, k), Leads(o, q, k, g)
    PROVE  Leads(o, p \o q, h, g)
<1>1. PICK u : IsPlan(o, p, u) /\ u[1] = h /\ u[Len(p) + 1] = k
  BY DEF Leads
<1>2. PICK v : IsPlan(o, q, v) /\ v[1] = k /\ v[Len(q) + 1] = g
  BY DEF Leads
<1> DEFINE m == Len(p)
           n == Len(q)
           f == [i \in 1 .. m + n + 1 |-> IF i <= m THEN u[i] ELSE v[i - m]]
<1>3. /\ m \in Nat /\ n \in Nat /\ Len(p \o q) = m + n
      /\ \A i \in 1 .. m + n : (p \o q)[i] = IF i <= m THEN p[i] ELSE q[i - m]
  BY ConcatProperties
<1>4. /\ u \in [1 .. m + 1 -> Holding \cup {Stuck}]
      /\ v \in [1 .. n + 1 -> Holding \cup {Stuck}]
      /\ \A i \in 1 .. m : StepsTo(o, u[i], p[i], u[i + 1])
      /\ \A i \in 1 .. n : StepsTo(o, v[i], q[i], v[i + 1])
  BY <1>1, <1>2 DEF IsPlan
<1> HIDE DEF m, n
<1>5. /\ f \in [1 .. m + n + 1 -> Holding \cup {Stuck}]
      /\ f[1] = h /\ f[m + n + 1] = g
  <2>1. f[1] = h
    BY <1>1, <1>2, <1>3, <1>4 DEF m
  <2>2. f[m + n + 1] = g
    BY <1>2, <1>3 DEF n
  <2> QED BY <1>3, <1>4, <2>1, <2>2
<1>6. ASSUME NEW i \in 1 .. m + n
      PROVE  StepsTo(o, f[i], (p \o q)[i], f[i + 1])
  <2>1. CASE i < m
    <3>1. f[i] = u[i] /\ f[i + 1] = u[i + 1] /\ (p \o q)[i] = p[i] /\ i \in 1 .. m
      BY <1>3, <2>1
    <3> QED BY <1>4, <3>1
  <2>2. CASE i = m
    <3>1. f[i] = u[i] /\ f[i + 1] = v[1] /\ (p \o q)[i] = p[i] /\ i \in 1 .. m
      BY <1>3, <2>2
    <3>2. v[1] = u[i + 1]
      BY <1>1, <1>2, <2>2 DEF m
    <3> QED BY <1>4, <3>1, <3>2
  <2>3. CASE i > m
    <3>1. /\ i - m \in 1 .. n /\ (i + 1) - m = (i - m) + 1 /\ ~(i <= m) /\ ~(i + 1 <= m)
          /\ i \in 1 .. m + n + 1 /\ i + 1 \in 1 .. m + n + 1
      BY <1>3, <2>3
    <3>2. f[i] = v[i - m] /\ f[i + 1] = v[(i + 1) - m] /\ (p \o q)[i] = q[i - m]
      BY <1>3, <3>1
    <3>3. f[i + 1] = v[(i - m) + 1]
      BY <3>1, <3>2
    <3> QED BY <1>4, <3>1, <3>2, <3>3
  <2> QED BY <1>3, <2>1, <2>2, <2>3
<1> HIDE DEF f
<1> QED BY <1>3, <1>5, <1>6 DEF IsPlan, Leads

\* One instruction.
LEMMA OneInstr ==
    ASSUME NEW what \in Kind, NEW x \in Lock \cup Table
    PROVE  <<<<what, x>>>> \in Seq(Instr)
<1>1. <<what, x>> \in Instr
  BY DEF Instr
<1> QED BY <1>1

\* One operation of the lock table is a sequence of length one.
LEMMA LeadsOne ==
    ASSUME NEW o, NEW h \in Holding, NEW g, NEW what, NEW x,
           StepsTo(o, h, <<what, x>>, g)
    PROVE  Leads(o, <<<<what, x>>>>, h, g)
<1> DEFINE p == <<<<what, x>>>>
           f == [i \in 1 .. 2 |-> IF i = 1 THEN h ELSE g]
<1>1. Len(p) = 1 /\ p[1] = <<what, x>>
  OBVIOUS
<1>2. g \in Holding \cup {Stuck}
  BY DEF StepsTo
<1>3. f \in [1 .. Len(p) + 1 -> Holding \cup {Stuck}] /\ f[1] = h /\ f[2] = g
  BY <1>1, <1>2
<1>4. \A i \in 1 .. Len(p) : StepsTo(o, f[i], p[i], f[i + 1])
  BY <1>1, <1>3
<1> HIDE DEF f, p
<1> QED BY <1>1, <1>3, <1>4 DEF IsPlan, Leads, p

-----------------------------------------------------------------------------
(* How the discipline composes *)

\* Two neutral sequences one after the other are neutral.
LEMMA NeutralThen ==
    ASSUME NEW p, NEW q, NEW r, Neutral(p, r), Neutral(q, r)
    PROVE  Neutral(p \o q, r)
<1>1. p \in Seq(Instr) /\ q \in Seq(Instr) /\ p \o q \in Seq(Instr)
  BY ConcatProperties DEF Neutral
<1>2. ASSUME NEW o \in Operation, NEW h \in Holding, Below(h, r)
      PROVE  Leads(o, p \o q, h, h)
  <2>1. Leads(o, p, h, h) /\ Leads(o, q, h, h)
    BY <1>2 DEF Neutral
  <2> QED BY <1>1, <2>1, LeadsOn
<1> QED BY <1>1, <1>2 DEF Neutral

\* The same within a critical section.
LEMMA InsideThen ==
    ASSUME NEW p, NEW q, NEW x, NEW mode, Inside(p, x, mode), Inside(q, x, mode)
    PROVE  Inside(p \o q, x, mode)
<1>1. p \in Seq(Instr) /\ q \in Seq(Instr) /\ p \o q \in Seq(Instr)
  BY ConcatProperties DEF Inside
<1>2. ASSUME NEW o \in Operation, NEW h \in Holding, h[x] = mode, Below(h, Rank[x] + 1)
      PROVE  Leads(o, p \o q, h, h)
  <2>1. Leads(o, p, h, h) /\ Leads(o, q, h, h)
    BY <1>2 DEF Inside
  <2> QED BY <1>1, <2>1, LeadsOn
<1> QED BY <1>1, <1>2 DEF Inside

\* What may be called with more locks held may be called with fewer.
LEMMA NeutralWeakens ==
    ASSUME NEW p, NEW r \in Nat, NEW s \in Nat, s <= r, Neutral(p, r)
    PROVE  Neutral(p, s)
<1>1. \A h \in Holding : Below(h, s) => Below(h, r)
  BY LockFacts DEF Below
<1> QED BY <1>1 DEF Neutral

\* A call from within a critical section of a lock that ranks lower.
LEMMA InsideCall ==
    ASSUME NEW p, NEW x \in Lock, NEW mode, NEW r \in Nat, Rank[x] < r, Neutral(p, r)
    PROVE  Inside(p, x, mode)
<1>1. \A h \in Holding : Below(h, Rank[x] + 1) => Below(h, r)
  BY LockFacts DEF Below
<1> QED BY <1>1 DEF Neutral, Inside

\* Accesses under the lock that guards the table, and accesses without.
LEMMA AccessInside ==
    ASSUME NEW t \in Table
    PROVE  /\ Inside(Put(t), Guard[t], "w")
           /\ Inside(Get(t), Guard[t], "w") /\ Inside(Get(t), Guard[t], "r")
<1>1. ASSUME NEW what \in {"get", "put"}
      PROVE  <<<<what, t>>>> \in Seq(Instr)
  BY OneInstr DEF Kind
<1>2. ASSUME NEW o \in Operation, NEW h \in Holding, NEW what \in {"get", "put"},
             h[Guard[t]] = "w" \/ (what = "get" /\ h[Guard[t]] = "r")
      PROVE  Leads(o, <<<<what, t>>>>, h, h)
  <2>1. Allowed(h, what, t, h)
    BY <1>2 DEF Allowed
  <2>2. StepsTo(o, h, <<what, t>>, h)
    BY <2>1 DEF StepsTo
  <2> QED BY <2>2, LeadsOne
<1> QED BY <1>1, <1>2 DEF Inside, Get, Put

\* An access without a lock takes none.
LEMMA BareNeutral ==
    ASSUME NEW t \in Table, NEW r
    PROVE  Neutral(GetBare(t), r) /\ Neutral(PutBare(t), r)
<1>1. ASSUME NEW what \in {"get bare", "put bare"}
      PROVE  Neutral(<<<<what, t>>>>, r)
  <2>1. <<<<what, t>>>> \in Seq(Instr)
    BY OneInstr DEF Kind
  <2>2. ASSUME NEW o \in Operation, NEW h \in Holding
        PROVE  Leads(o, <<<<what, t>>>>, h, h)
    <3>1. StepsTo(o, h, <<what, t>>, h)
      BY DEF StepsTo, Allowed
    <3> QED BY <3>1, LeadsOne
  <2> QED BY <2>1, <2>2 DEF Neutral
<1> QED BY <1>1 DEF GetBare, PutBare

\* A critical section takes its lock after all that is held, and gives it back.
LEMMA SectionNeutral ==
    ASSUME NEW x \in Lock, NEW p, NEW mode \in {"r", "w"}, Inside(p, x, mode),
           NEW take, NEW give,
           <<take, give, mode>> \in {<<"RLock", "RUnlock", "r">>, <<"Lock", "Unlock", "w">>}
    PROVE  Neutral(<<<<take, x>>>> \o p \o <<<<give, x>>>>, Rank[x])
<1> DEFINE first == <<<<take, x>>>>
           last  == <<<<give, x>>>>
<1>1. first \in Seq(Instr) /\ last \in Seq(Instr) /\ p \in Seq(Instr)
  <2>1. take \in Kind /\ give \in Kind
    BY DEF Kind
  <2> QED BY <2>1, OneInstr DEF Inside
<1>2. first \o p \in Seq(Instr) /\ first \o p \o last \in Seq(Instr)
  BY <1>1, ConcatProperties
<1>3. ASSUME NEW o \in Operation, NEW h \in Holding, Below(h, Rank[x])
      PROVE  Leads(o, first \o p \o last, h, h)
  <2> DEFINE g == [h EXCEPT ![x] = mode]
  <2>1. g \in Holding /\ g[x] = mode
    BY DEF Holding
  <2>2. Below(g, Rank[x] + 1)
    BY <1>3, LockFacts DEF Below, Holding
  <2>3. h[x] = "no"
    BY <1>3, LockFacts DEF Below, Holding
  <2>4. [g EXCEPT ![x] = "no"] = h
    BY <2>3 DEF Holding
  <2>5. StepsTo(o, h, <<take, x>>, g)
    BY <1>3, <2>1 DEF StepsTo, Allowed
  <2>6. StepsTo(o, g, <<give, x>>, h)
    BY <2>1, <2>4 DEF StepsTo, Allowed
  <2>7. Leads(o, p, g, g)
    BY <2>1, <2>2 DEF Inside
  <2> HIDE DEF g
  <2>8. Leads(o, first, h, g) /\ Leads(o, last, g, h)
    BY <2>1, <2>5, <2>6, LeadsOne
  <2>9. Leads(o, first \o p, h, g)
    BY <1>1, <2>7, <2>8, LeadsOn
  <2> QED BY <1>1, <1>2, <2>8, <2>9, LeadsOn
<1> QED BY <1>2, <1>3 DEF Neutral

\* A writer's critical section takes its lock and gives it back.
LEMMA LockedNeutral ==
    ASSUME NEW x \in Lock, NEW p, Inside(p, x, "w")
    PROVE  Neutral(Locked(x, p), Rank[x])
BY SectionNeutral DEF Locked

\* So does a reader's.
LEMMA RLockedNeutral ==
    ASSUME NEW x \in Lock, NEW p, Inside(p, x, "r")
    PROVE  Neutral(RLocked(x, p), Rank[x])
BY SectionNeutral DEF RLocked

-----------------------------------------------------------------------------
(* Every operation keeps the discipline *)

\* The order of the six mutexes, one by one.
LEMMA Ranks ==
    /\ Lock = {"b", "sm", "l", "s", "cg", "ms"}
    /\ Rank["b"] = 1 /\ Rank["sm"] = 2 /\ Rank["l"] = 3
    /\ Rank["s"] = 3 /\ Rank["cg"] = 3 /\ Rank["ms"] = 3
BY DEF Lock, Rank

\* The accesses under b.mu, under the storage manager's lock, and under the
\* innermost locks.
LEMMA Accesses ==
    /\ \A t \in {"groups", "inFlight", "counts", "waiters", "roundRobin", "delayQueue"} :
          Inside(Put(t), "b", "w") /\ Inside(Get(t), "b", "w") /\ Inside(Get(t), "b", "r")
    /\ \A t \in {"topics", "meta"} : Inside(Put(t), "sm", "w") /\ Inside(Get(t), "sm", "r")
    /\ Inside(Put("index"), "l", "w") /\ Inside(Get("index"), "l", "r")
    /\ Inside(Put("letters"), "s", "w") /\ Inside(Get("letters"), "s", "r")
    /\ Inside(Put("members"), "cg", "w") /\ Inside(Get("members"), "cg", "r")
    /\ Inside(Put("stats"), "ms", "w") /\ Inside(Get("stats"), "ms", "r")
<1>1. \A t \in {"groups", "inFlight", "counts", "waiters", "roundRobin", "delayQueue"} :
         t \in Table /\ Guard[t] = "b"
  BY DEF Table, Guard
<1>2. \A t \in {"topics", "meta"} : t \in Table /\ Guard[t] = "sm"
  BY DEF Table, Guard
<1>3. /\ "index" \in Table /\ Guard["index"] = "l"
      /\ "letters" \in Table /\ Guard["letters"] = "s"
      /\ "members" \in Table /\ Guard["members"] = "cg"
      /\ "stats" \in Table /\ Guard["stats"] = "ms"
  BY DEF Table, Guard
<1>4. \A t \in Table : /\ Inside(Put(t), Guard[t], "w")
                       /\ Inside(Get(t), Guard[t], "w") /\ Inside(Get(t), Guard[t], "r")
  BY AccessInside
<1> QED BY <1>1, <1>2, <1>3, <1>4

\* The accesses that broker.go, manager.go and metrics.go make with no lock.
LEMMA BareAccesses ==
    \A t \in {"groups", "members", "meta", "stats", "counts"} :
        Neutral(GetBare(t), 1) /\ Neutral(PutBare(t), 1)
<1>1. \A t \in {"groups", "members", "meta", "stats", "counts"} : t \in Table
  BY DEF Table, Guard
<1> QED BY <1>1, BareNeutral

\* models/consumer.go, storage/log.go, storage/dlq.go, models/metrics.go: no
\* method calls out while it holds its lock.
LEMMA InnermostSections ==
    /\ Neutral(ReadGroup, 3) /\ Neutral(WriteGroup, 3)
    /\ Neutral(LogAppend, 3) /\ Neutral(LogRead, 3)
    /\ Neutral(DLQAdd, 3) /\ Neutral(DLQRemove, 3) /\ Neutral(DLQList, 3)
    /\ Neutral(DLQCleanupExpired, 3)
    /\ Neutral(UpdateMetrics, 3) /\ Neutral(ReadMetrics, 3)
<1>1. /\ Neutral(ReadGroup, 3) /\ Neutral(WriteGroup, 3)
      /\ Neutral(UpdateMetrics, 3) /\ Neutral(ReadMetrics, 3)
  BY Ranks, Accesses, LockedNeutral, RLockedNeutral
     DEF ReadGroup, WriteGroup, UpdateMetrics, ReadMetrics
<1>2. Neutral(LogAppend, 3) /\ Neutral(LogRead, 3)
  BY Ranks, Accesses, LockedNeutral, RLockedNeutral DEF LogAppend, LogRead
<1>3. /\ Neutral(DLQAdd, 3) /\ Neutral(DLQRemove, 3) /\ Neutral(DLQList, 3)
      /\ Neutral(DLQCleanupExpired, 3)
  BY Ranks, Accesses, LockedNeutral, RLockedNeutral
     DEF DLQAdd, DLQRemove, DLQList, DLQCleanupExpired
<1> QED BY <1>1, <1>2, <1>3

\* storage/manager.go: the logs are called with and without the manager's lock.
LEMMA StorageSections ==
    /\ Neutral(FindTopic, 2) /\ Neutral(StorageCreateTopic, 2)
    /\ Neutral(AppendMessage, 2) /\ Neutral(ReadMessage, 2) /\ Neutral(NextOffset, 2)
<1>1. \A mode \in {"r", "w"} : Inside(LogRead, "sm", mode)
  BY Ranks, InnermostSections, InsideCall
<1>2. Neutral(LogRead, 2) /\ Neutral(LogAppend, 2)
  BY InnermostSections, NeutralWeakens
<1>3. Neutral(FindTopic, 2)
  BY Ranks, Accesses, RLockedNeutral DEF FindTopic
<1>4. Neutral(StorageCreateTopic, 2)
  <2>1. Inside(LogRead \o Put("topics"), "sm", "w")
    BY <1>1, Accesses, InsideThen
  <2> QED BY <2>1, Ranks, LockedNeutral DEF StorageCreateTopic
<1>5. Neutral(NextOffset, 2)
  <2>1. Inside(Get("topics") \o LogRead, "sm", "r")
    BY <1>1, Accesses, InsideThen
  <2> QED BY <2>1, Ranks, RLockedNeutral DEF NextOffset
<1>6. Neutral(AppendMessage, 2)
  <2>1. Inside(LogRead \o Put("meta"), "sm", "w")
    BY <1>1, Accesses, InsideThen
  <2>2. Neutral(Locked("sm", LogRead \o Put("meta")), 2)
    BY <2>1, Ranks, LockedNeutral
  <2> QED BY <1>2, <1>3, <2>2, NeutralThen DEF AppendMessage
<1>7. Neutral(ReadMessage, 2)
  BY <1>2, <1>3, NeutralThen DEF ReadMessage
<1> QED BY <1>3, <1>4, <1>5, <1>6, <1>7

\* What the broker calls, with b.mu held or not.
LEMMA Callable ==
    /\ Neutral(FindTopic, 1) /\ Neutral(StorageCreateTopic, 1)
    /\ Neutral(AppendMessage, 1) /\ Neutral(ReadMessage, 1) /\ Neutral(NextOffset, 1)
    /\ Neutral(ReadGroup, 1) /\ Neutral(WriteGroup, 1)
    /\ Neutral(DLQRemove, 1) /\ Neutral(DLQList, 1)
    /\ Neutral(UpdateMetrics, 1) /\ Neutral(ReadMetrics, 1)
    /\ Inside(FindTopic, "b", "w") /\ Inside(AppendMessage, "b", "w")
    /\ Inside(WriteGroup, "b", "w") /\ Inside(DLQAdd, "b", "w")
<1>1. \A p, r : r \in {2, 3} /\ Neutral(p, r) => Neutral(p, 1) /\ Inside(p, "b", "w")
  BY Ranks, NeutralWeakens, InsideCall
<1> QED BY <1>1, InnermostSections, StorageSections

\* The critical sections of b.mu.
LEMMA BrokerSections ==
    /\ \A t \in {"groups", "inFlight", "waiters", "roundRobin", "delayQueue"} :
          Neutral(Locked("b", Put(t)), 1) /\ Neutral(RLocked("b", Get(t)), 1)
    /\ Neutral(TryAssignMessage, 1)
    /\ Neutral(Locked("b", Put("groups") \o Put("inFlight") \o Put("counts")), 1)
    /\ Neutral(Ack, 1) /\ Neutral(Nack, 1)
<1>1. \A t \in {"groups", "inFlight", "waiters", "roundRobin", "delayQueue"} :
         Neutral(Locked("b", Put(t)), 1) /\ Neutral(RLocked("b", Get(t)), 1)
  BY Ranks, Accesses, LockedNeutral, RLockedNeutral
<1>2. Neutral(TryAssignMessage, 1)
  <2>1. Inside(Put("inFlight") \o WriteGroup, "b", "w")
    BY Accesses, Callable, InsideThen
  <2> QED BY <2>1, Ranks, LockedNeutral DEF TryAssignMessage
<1>3. Neutral(Locked("b", Put("groups") \o Put("inFlight") \o Put("counts")), 1)
  <2>1. Inside(Put("groups") \o Put("inFlight") \o Put("counts"), "b", "w")
    BY Accesses, InsideThen
  <2> QED BY <2>1, Ranks, LockedNeutral
<1>4. Neutral(Ack, 1)
  <2>1. Inside(Put("inFlight") \o Get("groups") \o WriteGroup \o AppendMessage, "b", "w")
    BY Accesses, Callable, InsideThen
  <2> QED BY <2>1, Ranks, LockedNeutral DEF Ack
<1>5. Neutral(Nack, 1)
  <2>1. Inside(Put("inFlight") \o FindTopic \o DLQAdd \o AppendMessage
                 \o Get("groups") \o WriteGroup, "b", "w")
    BY Accesses, Callable, InsideThen
  <2> QED BY <2>1, Ranks, LockedNeutral DEF Nack
<1> QED BY <1>1, <1>2, <1>3, <1>4, <1>5

\* The operations of the clients and of the administrator.
LEMMA HandlersNeutral ==
    /\ Neutral(GetTopic, 1) /\ Neutral(GetMetrics, 1) /\ Neutral(CreateTopic, 1)
    /\ Neutral(Publish, 1) /\ Neutral(PublishDelayed, 1) /\ Neutral(Consume, 1)
    /\ Neutral(Heartbeat, 1) /\ Neutral(Replay, 1) /\ Neutral(SaveConsumerGroup, 1)
    /\ Neutral(GetConsumerGroups, 1) /\ Neutral(GetDLQ, 1)
    /\ Neutral(ResendDLQMessage, 1) /\ Neutral(Dashboard, 1) /\ Neutral(TopicDetail, 1)
<1>1. /\ Neutral(GetTopic, 1) /\ Neutral(GetMetrics, 1) /\ Neutral(CreateTopic, 1)
      /\ Neutral(Heartbeat, 1) /\ Neutral(Replay, 1) /\ Neutral(SaveConsumerGroup, 1)
      /\ Neutral(GetConsumerGroups, 1) /\ Neutral(GetDLQ, 1)
  <2>1. Neutral(GetTopic, 1)
    BY Callable, BareAccesses, NeutralThen DEF GetTopic
  <2>2. Neutral(GetMetrics, 1)
    BY Callable, BareAccesses, NeutralThen DEF GetMetrics
  <2>3. Neutral(CreateTopic, 1)
    BY Callable, BrokerSections, NeutralThen DEF CreateTopic
  <2>4. Neutral(Heartbeat, 1) /\ Neutral(Replay, 1)
    BY Callable, BareAccesses, NeutralThen DEF Heartbeat, Replay
  <2>5. Neutral(SaveConsumerGroup, 1) /\ Neutral(GetConsumerGroups, 1)
    BY BrokerSections, BareAccesses, NeutralThen DEF SaveConsumerGroup, GetConsumerGroups
  <2>6. Neutral(GetDLQ, 1)
    BY Callable, NeutralThen DEF GetDLQ
  <2> QED BY <2>1, <2>2, <2>3, <2>4, <2>5, <2>6
<1>2. Neutral(NotifyLongPollWaiters, 1)
  BY BrokerSections DEF NotifyLongPollWaiters
<1>3. Neutral(Publish, 1)
  BY <1>2, Callable, BrokerSections, NeutralThen DEF Publish
<1>4. Neutral(PublishDelayed, 1)
  BY Callable, BrokerSections, NeutralThen DEF PublishDelayed
<1>5. Neutral(ResendDLQMessage, 1)
  BY <1>2, Callable, NeutralThen DEF ResendDLQMessage
<1>6. Neutral(Consume, 1)
  <2>1. Neutral(GetOrCreateConsumerGroup, 1)
    BY Callable, BrokerSections, NeutralThen DEF GetOrCreateConsumerGroup
  <2>2. Neutral(TryGetNextMessage, 1)
    BY Callable, BrokerSections, NeutralThen DEF TryGetNextMessage
  <2> QED BY <1>1, <2>1, <2>2, Callable, BrokerSections, NeutralThen DEF Consume
<1>7. Neutral(Dashboard, 1)
  BY <1>1, Callable, BareAccesses, NeutralThen DEF Dashboard
<1>8. Neutral(TopicDetail, 1)
  BY <1>1, Callable, BrokerSections, BareAccesses, NeutralThen DEF TopicDetail
<1> QED BY <1>1, <1>3, <1>4, <1>5, <1>6, <1>7, <1>8

\* The background tasks that come to an end.
LEMMA TasksNeutral ==
    /\ Neutral(RefreshMetrics, 1) /\ Neutral(ProcessDeadInstances, 1)
    /\ Neutral(CheckVisibilityTimeouts, 1)
<1>1. Neutral(RefreshMetrics, 1)
  <2>1. Neutral(GetDLQ, 1)
    BY HandlersNeutral
  <2> QED BY <2>1, Callable, BrokerSections, BareAccesses, NeutralThen DEF RefreshMetrics
<1>2. Neutral(ProcessDeadInstances, 1)
  BY Callable, BrokerSections, NeutralThen DEF ProcessDeadInstances
<1>3. Neutral(CheckVisibilityTimeouts, 1)
  BY BrokerSections DEF CheckVisibilityTimeouts
<1> QED BY <1>1, <1>2, <1>3

\* What comes after a goroutine has locked itself out is never run.
LEMMA StuckStays ==
    ASSUME NEW o, NEW p \in Seq(Instr)
    PROVE  Leads(o, p, Stuck, Stuck)
<1> DEFINE f == [i \in 1 .. Len(p) + 1 |-> Stuck]
<1>1. Len(p) \in Nat
  OBVIOUS
<1>2. f \in [1 .. Len(p) + 1 -> Holding \cup {Stuck}]
      /\ f[1] = Stuck /\ f[Len(p) + 1] = Stuck
  BY <1>1
<1>3. \A i \in 1 .. Len(p) : StepsTo(o, f[i], p[i], f[i + 1])
  BY <1>1 DEF StepsTo
<1> HIDE DEF f
<1> QED BY <1>2, <1>3 DEF IsPlan, Leads

\* A section of the lock that is held for writing.
LEMMA LockedOut ==
    ASSUME NEW o \in Relocking, NEW x \in Lock, NEW h \in Holding, h[x] = "w",
           NEW p \in Seq(Instr)
    PROVE  Leads(o, Locked(x, p), h, Stuck) /\ Leads(o, RLocked(x, p), h, Stuck)
<1>1. ASSUME NEW take \in {"RLock", "Lock"}, NEW give \in {"RUnlock", "Unlock"}
      PROVE  Leads(o, <<<<take, x>>>> \o p \o <<<<give, x>>>>, h, Stuck)
  <2> DEFINE first == <<<<take, x>>>>
             last  == <<<<give, x>>>>
  <2>1. first \in Seq(Instr) /\ last \in Seq(Instr)
    BY OneInstr DEF Kind
  <2>2. Leads(o, first, h, Stuck)
    <3>1. StepsTo(o, h, <<take, x>>, Stuck)
      BY DEF StepsTo
    <3> QED BY <3>1, LeadsOne
  <2> HIDE DEF first, last
  <2>3. Leads(o, p, Stuck, Stuck) /\ Leads(o, last, Stuck, Stuck)
    BY <2>1, StuckStays
  <2>4. first \o p \in Seq(Instr) /\ Leads(o, first \o p, h, Stuck)
    BY <2>1, <2>2, <2>3, LeadsOn, ConcatProperties
  <2>5. Leads(o, first \o p \o last, h, Stuck)
    BY <2>1, <2>3, <2>4, LeadsOn
  <2> QED BY <2>5 DEF first, last
<1> QED BY <1>1 DEF Locked, RLocked

\* The task notifies the waiters under b.mu, which notifyLongPollWaiters locks.
LEMMA DelayQueueTaskStuck == Leads("ProcessDelayQueue", ProcessDelayQueue, AllFree, Stuck)
<1> DEFINE o == "ProcessDelayQueue"
           h == [AllFree EXCEPT !["b"] = "w"]
           before == Put("delayQueue") \o AppendMessage
           first == <<<<"Lock", "b">>>>
           last == <<<<"Unlock", "b">>>>
<1>1. o \in Operation /\ o \in Relocking /\ "b" \in Lock
  BY DEF Operation, Program, Relocking, Lock
<1>2. h \in Holding /\ h["b"] = "w" /\ Below(h, Rank["b"] + 1)
  BY Ranks DEF AllFree, Holding, Below
<1>3. Leads(o, first, AllFree, h)
  <2>1. StepsTo(o, AllFree, <<"Lock", "b">>, h)
    BY <1>1, <1>2, LockFacts DEF StepsTo, Allowed
  <2> QED BY <2>1, LockFacts, LeadsOne
<1> HIDE DEF h
<1>4. before \in Seq(Instr) /\ Leads(o, before, h, h)
  <2>1. Inside(before, "b", "w")
    BY Accesses, Callable, InsideThen
  <2> QED BY <1>1, <1>2, <2>1 DEF Inside
<1>5. NotifyLongPollWaiters \in Seq(Instr) /\ Leads(o, NotifyLongPollWaiters, h, Stuck)
  <2>1. Put("waiters") \in Seq(Instr)
    BY Accesses DEF Inside
  <2>2. NotifyLongPollWaiters \in Seq(Instr)
    BY BrokerSections DEF NotifyLongPollWaiters, Neutral
  <2> QED BY <1>1, <1>2, <2>1, <2>2, LockedOut DEF NotifyLongPollWaiters
<1>6. first \in Seq(Instr) /\ last \in Seq(Instr)
  BY <1>1, OneInstr DEF Kind
<1> HIDE DEF before, first, last
<1>7. /\ before \o NotifyLongPollWaiters \in Seq(Instr)
      /\ Leads(o, before \o NotifyLongPollWaiters, h, Stuck)
  BY <1>4, <1>5, LeadsOn, ConcatProperties
<1>8. /\ first \o (before \o NotifyLongPollWaiters) \in Seq(Instr)
      /\ Leads(o, first \o (before \o NotifyLongPollWaiters), AllFree, Stuck)
  BY <1>3, <1>6, <1>7, LeadsOn, ConcatProperties
<1>9. Leads(o, last, Stuck, Stuck)
  BY <1>6, StuckStays
<1> QED BY <1>6, <1>8, <1>9, LeadsOn
        DEF ProcessDelayQueue, Locked, before, first, last

\* The task reads the log under the lock that AppendOnlyLog.Read takes.
LEMMA CleanupTaskStuck == Leads("CleanupExpired", CleanupExpired, AllFree, Stuck)
<1> DEFINE o == "CleanupExpired"
           h == [AllFree EXCEPT !["l"] = "w"]
           first == <<<<"Lock", "l">>>>
           last == <<<<"Unlock", "l">>>>
<1>1. o \in Operation /\ o \in Relocking /\ "l" \in Lock
  BY DEF Operation, Program, Relocking, Lock
<1>2. h \in Holding /\ h["l"] = "w"
  BY Ranks DEF AllFree, Holding
<1>3. Leads(o, first, AllFree, h)
  <2>1. StepsTo(o, AllFree, <<"Lock", "l">>, h)
    BY <1>1, <1>2, LockFacts, Ranks DEF StepsTo, Allowed
  <2> QED BY <2>1, LockFacts, LeadsOne
<1> HIDE DEF h
<1>4. LogRead \in Seq(Instr) /\ Leads(o, LogRead, h, Stuck)
  <2>1. Get("index") \in Seq(Instr) /\ LogRead \in Seq(Instr)
    BY Accesses, InnermostSections DEF Inside, Neutral
  <2> QED BY <1>1, <1>2, <2>1, LockedOut DEF LogRead
<1>5. first \in Seq(Instr) /\ last \in Seq(Instr)
  BY <1>1, OneInstr DEF Kind
<1>6. FindTopic \in Seq(Instr) /\ Leads(o, FindTopic, AllFree, AllFree)
  BY <1>1, Callable, LockFacts DEF Neutral
<1> HIDE DEF first, last
<1>7. LogCleanupExpired \in Seq(Instr) /\ Leads(o, LogCleanupExpired, AllFree, Stuck)
  <2>1. first \o LogRead \in Seq(Instr) /\ Leads(o, first \o LogRead, AllFree, Stuck)
    BY <1>3, <1>4, <1>5, LeadsOn, ConcatProperties
  <2>2. Leads(o, last, Stuck, Stuck)
    BY <1>5, StuckStays
  <2>3. /\ first \o LogRead \o last \in Seq(Instr)
        /\ Leads(o, first \o LogRead \o last, AllFree, Stuck)
    BY <1>5, <2>1, <2>2, LeadsOn, ConcatProperties
  <2> QED BY <2>3 DEF LogCleanupExpired, Locked, first, last
<1>8. /\ StorageCleanupExpired \in Seq(Instr)
      /\ Leads(o, StorageCleanupExpired, AllFree, Stuck)
  BY <1>6, <1>7, LeadsOn, ConcatProperties DEF StorageCleanupExpired
<1>9. /\ FindTopic \o StorageCleanupExpired \in Seq(Instr)
      /\ Leads(o, FindTopic \o StorageCleanupExpired, AllFree, Stuck)
  BY <1>6, <1>8, LeadsOn, ConcatProperties
<1>10. /\ FindTopic \o StorageCleanupExpired \o FindTopic \in Seq(Instr)
       /\ Leads(o, FindTopic \o StorageCleanupExpired \o FindTopic, AllFree, Stuck)
  BY <1>6, <1>9, LeadsOn, ConcatProperties, StuckStays
<1>11. DLQCleanupExpired \in Seq(Instr) /\ Leads(o, DLQCleanupExpired, Stuck, Stuck)
  BY InnermostSections, StuckStays DEF Neutral
<1> QED BY <1>10, <1>11, LeadsOn DEF CleanupExpired

-----------------------------------------------------------------------------
(* The plan of each operation *)

EndOf(o) == IF o \in Relocking THEN Stuck ELSE AllFree

IsPlanOf(o, f) ==
    IsPlan(o, Program[o], f) /\ f[1] = AllFree /\ f[Len(Program[o]) + 1] = EndOf(o)
Plan(o) == CHOOSE f : IsPlanOf(o, f)

\* An operation that may be called with no lock held has a plan.
LEMMA NeutralPlanned ==
    ASSUME NEW o \in Operation \ Relocking, Neutral(Program[o], 1)
    PROVE  Program[o] \in Seq(Instr) /\ Leads(o, Program[o], AllFree, EndOf(o))
BY LockFacts DEF Neutral, EndOf

\* Every operation ends as it began, or locked out by itself.
LEMMA Programs ==
    ASSUME NEW o \in Operation
    PROVE  Program[o] \in Seq(Instr) /\ Leads(o, Program[o], AllFree, EndOf(o))
<1>1. CASE o \notin Relocking
  <2>1. Neutral(Program[o], 1)
    <3>1. CASE o \in {"GetTopic", "GetMetrics", "CreateTopic", "Publish", "PublishDelayed",
                      "Consume", "Heartbeat", "Replay", "SaveConsumerGroup",
                      "GetConsumerGroups", "GetDLQ", "ResendDLQMessage", "Dashboard",
                      "TopicDetail"}
      BY <3>1, HandlersNeutral DEF Program
    <3>2. CASE o \in {"RefreshMetrics", "ProcessDeadInstances", "CheckVisibilityTimeouts"}
      BY <3>2, TasksNeutral DEF Program
    <3>3. CASE o \in {"Ack", "Nack"}
      BY <3>3, BrokerSections DEF Program
    <3> QED BY <1>1, <3>1, <3>2, <3>3 DEF Operation, Program, Relocking
  <2> QED BY <1>1, <2>1, NeutralPlanned
<1>2. CASE o = "ProcessDelayQueue"
  <2>1. Program[o] = ProcessDelayQueue /\ EndOf(o) = Stuck
    BY <1>2 DEF Program, EndOf, Relocking
  <2>2. ProcessDelayQueue \in Seq(Instr)
    <3>1. Inside(Put("delayQueue") \o AppendMessage, "b", "w")
      BY Accesses, Callable, InsideThen
    <3>2. NotifyLongPollWaiters \in Seq(Instr)
      BY BrokerSections DEF NotifyLongPollWaiters, Neutral
    <3>3. <<<<"Lock", "b">>>> \in Seq(Instr) /\ <<<<"Unlock", "b">>>> \in Seq(Instr)
      BY Ranks, OneInstr DEF Kind
    <3> QED BY <3>1, <3>2, <3>3 DEF ProcessDelayQueue, Locked, Inside
  <2> QED BY <1>2, <2>1, <2>2, DelayQueueTaskStuck
<1>3. CASE o = "CleanupExpired"
  <2>1. Program[o] = CleanupExpired /\ EndOf(o) = Stuck
    BY <1>3 DEF Program, EndOf, Relocking
  <2>2. CleanupExpired \in Seq(Instr)
    <3>1. /\ FindTopic \in Seq(Instr) /\ LogRead \in Seq(Instr)
          /\ DLQCleanupExpired \in Seq(Instr)
      BY InnermostSections, StorageSections DEF Neutral
    <3>2. <<<<"Lock", "l">>>> \in Seq(Instr) /\ <<<<"Unlock", "l">>>> \in Seq(Instr)
      BY Ranks, OneInstr DEF Kind
    <3>3. LogCleanupExpired \in Seq(Instr)
      BY <3>1, <3>2 DEF LogCleanupExpired, Locked
    <3> QED BY <3>1, <3>3 DEF CleanupExpired, StorageCleanupExpired
  <2> QED BY <1>3, <2>1, <2>2, CleanupTaskStuck
<1> QED BY <1>1, <1>2, <1>3 DEF Relocking

\* The plan chosen for an operation is one that it follows.
LEMMA Plans ==
    ASSUME NEW o \in Operation
    PROVE  /\ Len(Program[o]) \in Nat
           /\ IsPlan(o, Program[o], Plan(o))
           /\ Plan(o)[1] = AllFree /\ Plan(o)[Len(Program[o]) + 1] = EndOf(o)
<1>1. \E f : IsPlanOf(o, f)
  BY Programs DEF Leads, IsPlanOf
<1>2. IsPlanOf(o, Plan(o))
  BY <1>1 DEF Plan
<1>3. Len(Program[o]) \in Nat
  BY Programs
<1> QED BY <1>2, <1>3 DEF IsPlanOf

-----------------------------------------------------------------------------
(* The runs *)

\* What goroutine t holds by the plan of its operation.
Hold(t) == IF op[t] = None THEN AllFree ELSE Plan(op[t])[pc[t]]

TypeOK ==
    /\ op \in [Thread -> Serving \cup {None}]
    /\ pc \in [Thread -> Nat]
    /\ \A t \in Thread : IF op[t] = None THEN pc[t] = 1
                         ELSE pc[t] \in 1 .. Len(Program[op[t]]) + 1
    /\ readers \in [Lock -> SUBSET Thread]
    /\ writer \in [Lock -> SUBSET Thread]
    /\ announced \in [Lock -> SUBSET Thread]

\* The lock table agrees with the plans, and no goroutine is past the place
\* where it locks itself out.
PlansFollowed ==
    /\ \A t \in Thread : Hold(t) \in Holding
    /\ \A x \in Lock, t \in Thread : /\ t \in readers[x] <=> Hold(t)[x] = "r"
                                     /\ t \in writer[x] <=> Hold(t)[x] = "w"
    /\ \A x \in Lock : \A t \in announced[x] : At(t, "Lock", x)

\* A writer is alone, and so is the one that waits to become the writer.
Exclusive ==
    \A x \in Lock :
        /\ \A t \in writer[x] : writer[x] = {t} /\ readers[x] = {} /\ announced[x] = {}
        /\ \A t \in announced[x] : announced[x] = {t}

LocksInv == TypeOK /\ PlansFollowed /\ Exclusive

\* The instruction a goroutine is at is one its plan allows.
LEMMA InstructionFacts ==
    ASSUME LocksInv, NEW t \in Thread, op[t] # None, pc[t] <= Len(Program[op[t]])
    PROVE  /\ op[t] \in Operation
           /\ pc[t] \in 1 .. Len(Program[op[t]]) /\ pc[t] + 1 \in 1 .. Len(Program[op[t]]) + 1
           /\ Instruction(t) = Program[op[t]][pc[t]]
           /\ Instruction(t) \in Instr
           /\ StepsTo(op[t], Hold(t), Instruction(t), Plan(op[t])[pc[t] + 1])
<1>1. op[t] \in Operation
  BY ServingAssumption DEF LocksInv, TypeOK, Operation, ServingAssumption
<1>2. /\ Len(Program[op[t]]) \in Nat /\ Program[op[t]] \in Seq(Instr)
      /\ IsPlan(op[t], Program[op[t]], Plan(op[t]))
  BY <1>1, Plans, Programs
<1>3. pc[t] \in 1 .. Len(Program[op[t]]) /\ pc[t] + 1 \in 1 .. Len(Program[op[t]]) + 1
  BY <1>2 DEF LocksInv, TypeOK
<1>4. Instruction(t) = Program[op[t]][pc[t]]
  BY <1>3 DEF Instruction
<1> QED BY <1>1, <1>2, <1>3, <1>4 DEF IsPlan, Hold

\* Away from an instruction there is nothing to wait for and nothing to touch.
LEMMA AtFacts ==
    ASSUME LocksInv, NEW t \in Thread, Instruction(t)[1] # None
    PROVE  op[t] # None /\ pc[t] <= Len(Program[op[t]])
<1>1. CASE op[t] = None \/ pc[t] > Len(Program[op[t]])
  BY <1>1 DEF Instruction
<1>2. CASE op[t] # None /\ ~(pc[t] > Len(Program[op[t]]))
  <2>1. Len(Program[op[t]]) \in Nat /\ pc[t] \in Nat
    BY <1>2, ServingAssumption, Plans DEF LocksInv, TypeOK, Operation, ServingAssumption
  <2> QED BY <1>2, <2>1
<1> QED BY <1>1, <1>2

\* A goroutine goes on to its next instruction and holds g there.
LEMMA Advances ==
    ASSUME LocksInv, NEW t \in Thread, Instruction(t)[1] # None, op' = op, Advance(t),
           NEW g, Plan(op[t])[pc[t] + 1] = g
    PROVE  /\ op' \in [Thread -> Serving \cup {None}] /\ pc' \in [Thread -> Nat]
           /\ \A u \in Thread : IF op'[u] = None THEN pc'[u] = 1
                                ELSE pc'[u] \in 1 .. Len(Program[op'[u]]) + 1
           /\ Hold(t)' = g
           /\ \A u \in Thread : u # t => Hold(u)' = Hold(u) /\ Instruction(u)' = Instruction(u)
<1>1. /\ op[t] # None /\ op[t] \in Operation
      /\ pc[t] \in 1 .. Len(Program[op[t]]) /\ pc[t] + 1 \in 1 .. Len(Program[op[t]]) + 1
  BY AtFacts, InstructionFacts
<1>2. pc' = [pc EXCEPT ![t] = pc[t] + 1] /\ pc[t] \in Nat /\ pc \in [Thread -> Nat]
  BY DEF Advance, LocksInv, TypeOK
<1>3. pc'[t] = pc[t] + 1 /\ \A u \in Thread : u # t => pc'[u] = pc[u]
  BY <1>2
<1>4. \A u \in Thread : u # t => Hold(u)' = Hold(u) /\ Instruction(u)' = Instruction(u)
  BY <1>3 DEF Hold, Instruction
<1>5. Hold(t)' = g
  BY <1>1, <1>3 DEF Hold
<1>6. \A u \in Thread : IF op'[u] = None THEN pc'[u] = 1
                        ELSE pc'[u] \in 1 .. Len(Program[op'[u]]) + 1
  BY <1>1, <1>3 DEF LocksInv, TypeOK
<1>7. op' \in [Thread -> Serving \cup {None}] /\ pc' \in [Thread -> Nat]
  BY <1>2 DEF LocksInv, TypeOK
<1> QED BY <1>4, <1>5, <1>6, <1>7

\* What a goroutine at an instruction holds after it.
LEMMA NextHolding ==
    ASSUME LocksInv, NEW t \in Thread, Instruction(t)[1] # None
    PROVE  /\ Instruction(t) \in Instr /\ Hold(t) \in Holding
           /\ LET g == Plan(op[t])[pc[t] + 1]
              IN  \/ g \in Holding /\ Allowed(Hold(t), Instruction(t)[1], Instruction(t)[2], g)
                  \/ /\ SelfLocked(t)
                     /\ Instruction(t)[2] \in Lock /\ Hold(t)[Instruction(t)[2]] = "w"
                     /\ Instruction(t)[1] \in {"RLock", "Lock"}
<1> DEFINE g == Plan(op[t])[pc[t] + 1]
           x == Instruction(t)[2]
<1>1. /\ Instruction(t) \in Instr /\ Hold(t) \in Holding
      /\ StepsTo(op[t], Hold(t), Instruction(t), g)
  BY AtFacts, InstructionFacts DEF LocksInv, PlansFollowed
<1>2. Hold(t) # Stuck
  BY <1>1, LockFacts
<1>3. CASE /\ op[t] \in Relocking /\ x \in Lock /\ Hold(t)[x] = "w"
           /\ Instruction(t)[1] \in {"RLock", "Lock"}
  <2>1. writer[x] = {t}
    BY <1>3 DEF LocksInv, PlansFollowed, Exclusive
  <2>2. Instruction(t) = <<Instruction(t)[1], x>>
    BY <1>1 DEF Instr
  <2> HIDE DEF x
  <2>3. SelfLocked(t)
    BY <1>3, <2>1, <2>2 DEF SelfLocked
  <2> QED BY <1>1, <1>3, <2>3 DEF x
<1>4. CASE g \in Holding /\ Allowed(Hold(t), Instruction(t)[1], Instruction(t)[2], g)
  BY <1>1, <1>4
<1> QED BY <1>1, <1>2, <1>3, <1>4 DEF StepsTo

\* Who has announced itself is at a Lock and nowhere else.
LEMMA AnnouncedKept ==
    ASSUME LocksInv, NEW t \in Thread,
           \A u \in Thread : u # t => Instruction(u)' = Instruction(u),
           \/ Instruction(t)[1] # "Lock" /\ announced' = announced
           \/ \E x \in Lock : /\ Instruction(t) = <<"Lock", x>>
                            /\ announced' = [announced EXCEPT ![x] = {}]
                            /\ announced[x] = {t}
    PROVE  \A y \in Lock : \A u \in announced'[y] : At(u, "Lock", y)'
<1> SUFFICES ASSUME NEW y \in Lock, NEW u \in announced'[y]
             PROVE  At(u, "Lock", y)'
  OBVIOUS
<1>1. u \in announced[y] /\ u \in Thread
  BY DEF LocksInv, TypeOK
<1>2. Instruction(u) = <<"Lock", y>>
  BY <1>1 DEF LocksInv, PlansFollowed, At
<1>3. u # t
  <2>1. ASSUME NEW x \in Lock, Instruction(t) = <<"Lock", x>>, u = t,
               announced' = [announced EXCEPT ![x] = {}]
        PROVE  FALSE
    <3>1. x = y
      BY <1>2, <2>1
    <3> QED BY <2>1, <3>1 DEF LocksInv, TypeOK
  <2>2. Instruction(u)[1] = "Lock"
    BY <1>2
  <2> QED BY <2>1, <2>2
<1> QED BY <1>1, <1>2, <1>3 DEF At

\* Taking a lock for reading keeps the invariant.
LEMMA RLockStep ==
    ASSUME LocksInv, NEW t \in Thread, NEW x \in Lock, RLock(t, x)
    PROVE  LocksInv'
<1> DEFINE h == Hold(t)
           g == Plan(op[t])[pc[t] + 1]
<1>1. /\ Instruction(t) = <<"RLock", x>> /\ Instruction(t)[1] # None
      /\ Instruction(t)[1] = "RLock" /\ Instruction(t)[2] = x
      /\ Advance(t) /\ op' = op /\ UNCHANGED <<writer, announced>>
      /\ writer[x] = {} /\ announced[x] = {}
      /\ readers' = [readers EXCEPT ![x] = readers[x] \cup {t}]
  BY DEF RLock, At, None
<1>2. h \in Holding /\ g = [h EXCEPT ![x] = "r"] /\ g \in Holding
  <2>1. h[x] # "w"
    BY <1>1 DEF LocksInv, PlansFollowed
  <2> QED BY <1>1, <2>1, NextHolding DEF Allowed
<1> HIDE DEF h, g
<1>3. /\ TypeOK'
      /\ Hold(t)' = g
      /\ \A u \in Thread : u # t => Hold(u)' = Hold(u) /\ Instruction(u)' = Instruction(u)
  BY <1>1, Advances DEF LocksInv, TypeOK, g
<1>4. PlansFollowed'
  <2>1. \A u \in Thread : Hold(u)' \in Holding
    BY <1>2, <1>3 DEF LocksInv, PlansFollowed
  <2>2. \A y \in Lock, u \in Thread : /\ u \in readers'[y] <=> Hold(u)'[y] = "r"
                                      /\ u \in writer'[y] <=> Hold(u)'[y] = "w"
    BY <1>1, <1>2, <1>3 DEF LocksInv, PlansFollowed, TypeOK, Holding, h
  <2>3. \A y \in Lock : \A u \in announced'[y] : At(u, "Lock", y)'
    BY <1>1, <1>3, AnnouncedKept
  <2> QED BY <2>1, <2>2, <2>3 DEF PlansFollowed
<1>5. Exclusive'
  BY <1>1 DEF LocksInv, Exclusive, TypeOK
<1> QED BY <1>3, <1>4, <1>5 DEF LocksInv

\* So does giving it back,
LEMMA RUnlockStep ==
    ASSUME LocksInv, NEW t \in Thread, NEW x \in Lock, RUnlock(t, x)
    PROVE  LocksInv'
<1> DEFINE h == Hold(t)
           g == Plan(op[t])[pc[t] + 1]
<1>1. /\ Instruction(t) = <<"RUnlock", x>> /\ Instruction(t)[1] # None
      /\ Instruction(t)[1] = "RUnlock" /\ Instruction(t)[2] = x
      /\ Advance(t) /\ op' = op /\ UNCHANGED <<writer, announced>>
      /\ readers' = [readers EXCEPT ![x] = readers[x] \ {t}]
  BY DEF RUnlock, At, None
<1>2. h \in Holding /\ h[x] = "r" /\ g = [h EXCEPT ![x] = "no"] /\ g \in Holding
  BY <1>1, NextHolding DEF Allowed
<1> HIDE DEF h, g
<1>3. /\ TypeOK'
      /\ Hold(t)' = g
      /\ \A u \in Thread : u # t => Hold(u)' = Hold(u) /\ Instruction(u)' = Instruction(u)
  BY <1>1, Advances DEF LocksInv, TypeOK, g
<1>4. PlansFollowed'
  <2>1. \A u \in Thread : Hold(u)' \in Holding
    BY <1>2, <1>3 DEF LocksInv, PlansFollowed
  <2>2. \A y \in Lock, u \in Thread : /\ u \in readers'[y] <=> Hold(u)'[y] = "r"
                                      /\ u \in writer'[y] <=> Hold(u)'[y] = "w"
    BY <1>1, <1>2, <1>3 DEF LocksInv, PlansFollowed, TypeOK, Holding, h
  <2>3. \A y \in Lock : \A u \in announced'[y] : At(u, "Lock", y)'
    BY <1>1, <1>3, AnnouncedKept
  <2> QED BY <2>1, <2>2, <2>3 DEF PlansFollowed
<1>5. Exclusive'
  BY <1>1 DEF LocksInv, Exclusive, TypeOK
<1> QED BY <1>3, <1>4, <1>5 DEF LocksInv

\* waiting for it to write,
LEMMA AnnounceStep ==
    ASSUME LocksInv, NEW t \in Thread, NEW x \in Lock, Announce(t, x)
    PROVE  LocksInv'
<1>1. /\ At(t, "Lock", x) /\ writer[x] = {} /\ UNCHANGED <<op, pc, readers, writer>>
      /\ announced' = [announced EXCEPT ![x] = {t}]
  BY DEF Announce
<1>2. \A u \in Thread : Hold(u)' = Hold(u) /\ Instruction(u)' = Instruction(u)
  BY <1>1 DEF Hold, Instruction
<1>3. PlansFollowed'
  <2>1. \A y \in Lock : \A u \in announced'[y] : At(u, "Lock", y)'
    BY <1>1, <1>2 DEF LocksInv, PlansFollowed, TypeOK, At
  <2> QED BY <1>1, <1>2, <2>1 DEF LocksInv, PlansFollowed
<1>4. TypeOK' /\ Exclusive'
  BY <1>1 DEF LocksInv, TypeOK, Exclusive
<1> QED BY <1>3, <1>4 DEF LocksInv

\* having it to write,
LEMMA AcquireStep ==
    ASSUME LocksInv, NEW t \in Thread, NEW x \in Lock, Acquire(t, x)
    PROVE  LocksInv'
<1> DEFINE h == Hold(t)
           g == Plan(op[t])[pc[t] + 1]
<1>1. /\ Instruction(t) = <<"Lock", x>> /\ Instruction(t)[1] # None
      /\ Instruction(t)[1] = "Lock" /\ Instruction(t)[2] = x
      /\ Advance(t) /\ op' = op /\ UNCHANGED readers
      /\ announced[x] = {t} /\ readers[x] = {}
      /\ writer' = [writer EXCEPT ![x] = {t}]
      /\ announced' = [announced EXCEPT ![x] = {}]
  BY DEF Acquire, At, None
<1>2. h \in Holding /\ writer[x] = {} /\ g = [h EXCEPT ![x] = "w"] /\ g \in Holding
  <2>1. writer[x] = {}
    BY <1>1 DEF LocksInv, Exclusive, TypeOK
  <2>2. h[x] # "w"
    BY <2>1 DEF LocksInv, PlansFollowed
  <2> QED BY <1>1, <2>1, <2>2, NextHolding DEF Allowed
<1> HIDE DEF h, g
<1>3. /\ TypeOK'
      /\ Hold(t)' = g
      /\ \A u \in Thread : u # t => Hold(u)' = Hold(u) /\ Instruction(u)' = Instruction(u)
  BY <1>1, Advances DEF LocksInv, TypeOK, g
<1>4. PlansFollowed'
  <2>1. \A u \in Thread : Hold(u)' \in Holding
    BY <1>2, <1>3 DEF LocksInv, PlansFollowed
  <2>2. \A y \in Lock, u \in Thread : /\ u \in readers'[y] <=> Hold(u)'[y] = "r"
                                      /\ u \in writer'[y] <=> Hold(u)'[y] = "w"
    BY <1>1, <1>2, <1>3 DEF LocksInv, PlansFollowed, TypeOK, Holding, h
  <2>3. \A y \in Lock : \A u \in announced'[y] : At(u, "Lock", y)'
    BY <1>1, <1>3, AnnouncedKept
  <2> QED BY <2>1, <2>2, <2>3 DEF PlansFollowed
<1>5. Exclusive'
  BY <1>1 DEF LocksInv, Exclusive, TypeOK
<1> QED BY <1>3, <1>4, <1>5 DEF LocksInv

\* giving that back,
LEMMA UnlockStep ==
    ASSUME LocksInv, NEW t \in Thread, NEW x \in Lock, Unlock(t, x)
    PROVE  LocksInv'
<1> DEFINE h == Hold(t)
           g == Plan(op[t])[pc[t] + 1]
<1>1. /\ Instruction(t)[1] # None /\ Instruction(t)[1] = "Unlock" /\ Instruction(t)[2] = x
      /\ Advance(t) /\ op' = op /\ UNCHANGED <<readers, announced>>
      /\ writer' = [writer EXCEPT ![x] = {}]
  BY DEF Unlock, At, None
<1>2. h \in Holding /\ h[x] = "w" /\ g = [h EXCEPT ![x] = "no"] /\ g \in Holding
  BY <1>1, NextHolding DEF Allowed
<1> HIDE DEF h, g
<1>3. /\ TypeOK'
      /\ Hold(t)' = g
      /\ \A u \in Thread : u # t => Hold(u)' = Hold(u) /\ Instruction(u)' = Instruction(u)
  BY <1>1, Advances DEF LocksInv, TypeOK, g
<1>4. PlansFollowed'
  <2>1. \A u \in Thread : Hold(u)' \in Holding
    BY <1>2, <1>3 DEF LocksInv, PlansFollowed
  <2>2. writer[x] = {t}
    BY <1>2 DEF LocksInv, PlansFollowed, Exclusive, h
  <2>3. \A y \in Lock, u \in Thread : /\ u \in readers'[y] <=> Hold(u)'[y] = "r"
                                      /\ u \in writer'[y] <=> Hold(u)'[y] = "w"
    BY <1>1, <1>2, <1>3, <2>2 DEF LocksInv, PlansFollowed, TypeOK, Holding, h
  <2>4. \A y \in Lock : \A u \in announced'[y] : At(u, "Lock", y)'
    BY <1>1, <1>3, AnnouncedKept
  <2> QED BY <2>1, <2>3, <2>4 DEF PlansFollowed
<1>5. Exclusive'
  BY <1>1 DEF LocksInv, Exclusive, TypeOK
<1> QED BY <1>3, <1>4, <1>5 DEF LocksInv

\* and an access to a table.
LEMMA AccessStep ==
    ASSUME LocksInv, NEW t \in Thread, Access(t)
    PROVE  LocksInv'
<1> DEFINE g == Plan(op[t])[pc[t] + 1]
<1>1. /\ Instruction(t)[1] \in Kinds /\ Instruction(t)[1] # None
      /\ Instruction(t)[1] \notin {"Lock", "RLock", "Unlock", "RUnlock"}
      /\ Advance(t) /\ UNCHANGED <<op, readers, writer, announced>>
  BY DEF Access, Kinds, None
<1>2. g = Hold(t) /\ g \in Holding
  BY <1>1, NextHolding DEF Allowed
<1> HIDE DEF g
<1>3. /\ TypeOK'
      /\ Hold(t)' = g
      /\ \A u \in Thread : u # t => Hold(u)' = Hold(u) /\ Instruction(u)' = Instruction(u)
  BY <1>1, Advances DEF LocksInv, TypeOK, g
<1>4. PlansFollowed'
  <2>1. \A u \in Thread : Hold(u)' = Hold(u)
    BY <1>2, <1>3
  <2>2. \A y \in Lock : \A u \in announced'[y] : At(u, "Lock", y)'
    BY <1>1, <1>3, AnnouncedKept
  <2> QED BY <1>1, <2>1, <2>2 DEF LocksInv, PlansFollowed
<1>5. Exclusive'
  BY <1>1 DEF LocksInv, Exclusive
<1> QED BY <1>3, <1>4, <1>5 DEF LocksInv

\* A goroutine that begins or has ended an operation holds nothing.
LEMMA BoundaryStep ==
    ASSUME LocksInv, NEW t \in Thread, Return(t) \/ \E o \in Serving : Start(t, o)
    PROVE  LocksInv'
<1>1. /\ UNCHANGED <<readers, writer, announced>>
      /\ Instruction(t) = <<None, None>>
      /\ Hold(t) = AllFree /\ Hold(t)' = AllFree
      /\ op' \in [Thread -> Serving \cup {None}] /\ pc' \in [Thread -> Nat]
      /\ IF op'[t] = None THEN pc'[t] = 1 ELSE pc'[t] \in 1 .. Len(Program[op'[t]]) + 1
      /\ \A u \in Thread : u # t => op'[u] = op[u] /\ pc'[u] = pc[u]
  <2>1. CASE Return(t)
    <3>1. /\ op[t] # None /\ pc[t] > Len(Program[op[t]])
          /\ op' = [op EXCEPT ![t] = None] /\ pc' = [pc EXCEPT ![t] = 1]
          /\ UNCHANGED <<readers, writer, announced>>
      BY <2>1 DEF Return
    <3>2. op[t] \in Operation
      BY <3>1, ServingAssumption DEF LocksInv, TypeOK, Operation, ServingAssumption
    <3>3. pc[t] = Len(Program[op[t]]) + 1
      BY <3>1, <3>2, Plans DEF LocksInv, TypeOK
    <3>4. Hold(t) = EndOf(op[t]) /\ Hold(t) \in Holding
      BY <3>1, <3>2, <3>3, Plans DEF Hold, LocksInv, PlansFollowed
    <3>5. Hold(t) = AllFree
      BY <3>4, LockFacts DEF EndOf
    <3>6. Instruction(t) = <<None, None>>
      BY <3>1 DEF Instruction
    <3>7. /\ op' \in [Thread -> Serving \cup {None}] /\ pc' \in [Thread -> Nat]
          /\ op'[t] = None /\ pc'[t] = 1
          /\ \A u \in Thread : u # t => op'[u] = op[u] /\ pc'[u] = pc[u]
      BY <3>1 DEF LocksInv, TypeOK
    <3> QED BY <3>1, <3>5, <3>6, <3>7 DEF Hold
  <2>2. CASE \E o \in Serving : Start(t, o)
    <3>1. PICK o \in Serving : Start(t, o)
      BY <2>2
    <3>2. /\ op[t] = None /\ op' = [op EXCEPT ![t] = o]
          /\ UNCHANGED <<pc, readers, writer, announced>>
      BY <3>1 DEF Start
    <3>3. o \in Operation
      BY ServingAssumption DEF Operation, ServingAssumption
    <3>4. pc[t] = 1 /\ pc'[t] = 1 /\ op'[t] = o
      BY <3>2 DEF LocksInv, TypeOK
    <3>5. 1 \in 1 .. Len(Program[o]) + 1 /\ Plan(o)[1] = AllFree
      BY <3>3, Plans
    <3>6. Hold(t) = AllFree /\ Hold(t)' = AllFree /\ Instruction(t) = <<None, None>>
      BY <3>2, <3>4, <3>5 DEF Hold, Instruction
    <3>7. /\ op' \in [Thread -> Serving \cup {None}] /\ pc' \in [Thread -> Nat]
          /\ \A u \in Thread : u # t => op'[u] = op[u] /\ pc'[u] = pc[u]
      BY <3>2 DEF LocksInv, TypeOK
    <3>8. pc'[t] \in 1 .. Len(Program[op'[t]]) + 1
      BY <3>4, <3>5
    <3>9. op'[t] # None
      BY <3>3, <3>4 DEF Operation, Program, None
    <3> QED BY <3>2, <3>6, <3>7, <3>8, <3>9
  <2> QED BY <2>1, <2>2
<1>2. \A u \in Thread : /\ Hold(u)' = Hold(u)
                        /\ u # t => Instruction(u)' = Instruction(u)
  BY <1>1 DEF Hold, Instruction
<1>3. TypeOK'
  BY <1>1 DEF LocksInv, TypeOK
<1>4. PlansFollowed'
  <2>1. \A y \in Lock : \A u \in announced'[y] : At(u, "Lock", y)'
    <3>1. Instruction(t)[1] # "Lock"
      BY <1>1 DEF None
    <3> QED BY <1>1, <1>2, <3>1, AnnouncedKept
  <2> QED BY <1>1, <1>2, <2>1 DEF LocksInv, PlansFollowed
<1>5. Exclusive'
  BY <1>1 DEF LocksInv, Exclusive
<1> QED BY <1>3, <1>4, <1>5 DEF LocksInv

\* At the start every goroutine is before its first instruction and holds nothing.
LEMMA LocksInit == Init => LocksInv
<1> SUFFICES ASSUME Init PROVE LocksInv
  OBVIOUS
<1>1. TypeOK /\ Exclusive
  BY DEF Init, TypeOK, Exclusive
<1>2. \A t \in Thread : Hold(t) = AllFree
  BY DEF Init, Hold
<1>3. PlansFollowed
  BY <1>2, LockFacts DEF Init, PlansFollowed, AllFree
<1> QED BY <1>1, <1>3 DEF LocksInv

\* Every step keeps the invariant.
LEMMA LocksStep ==
    ASSUME LocksInv, [Next]_vars
    PROVE  LocksInv'
<1>1. CASE UNCHANGED vars
  <2>1. \A t \in Thread : Hold(t)' = Hold(t) /\ Instruction(t)' = Instruction(t)
    BY <1>1 DEF vars, Hold, Instruction
  <2>2. TypeOK' /\ Exclusive'
    BY <1>1 DEF vars, LocksInv, TypeOK, Exclusive
  <2>3. PlansFollowed'
    BY <1>1, <2>1 DEF vars, LocksInv, PlansFollowed, At, TypeOK
  <2> QED BY <2>2, <2>3 DEF LocksInv
<1>2. CASE Next
  BY <1>2, RLockStep, RUnlockStep, AnnounceStep, AcquireStep, UnlockStep, AccessStep,
     BoundaryStep
     DEF Next, Take, Proceed
<1> QED BY <1>1, <1>2

\* The lock table agrees with the programs, whatever is interleaved.
THEOREM LocksFollowPlans == Spec => []LocksInv
BY LocksInit, LocksStep, PTL DEF Spec

-----------------------------------------------------------------------------
(* What follows *)

\* Two goroutines are at one table at a time, one of them to change it, only
\* where the code takes no lock: for any number of goroutines and whatever
\* operations they run, the locks exclude every other meeting.
THEOREM TablesGuarded == Spec => []GuardedTablesSafe
<1>1. ASSUME LocksInv PROVE GuardedTablesSafe
  <2> SUFFICES ASSUME NEW t \in Thread, NEW u \in Thread, t # u,
                      Instruction(t)[1] = "put", Instruction(u)[1] \in {"get", "put"},
                      Instruction(u)[2] = Instruction(t)[2]
               PROVE  FALSE
    BY DEF GuardedTablesSafe, Touches
  <2> DEFINE table == Instruction(t)[2]
             x == Guard[table]
  <2>1. table \in Table /\ Hold(t)[x] = "w"
    BY <1>1, NextHolding DEF Allowed, None
  <2>2. Hold(u)[x] \in {"r", "w"}
    BY <1>1, NextHolding DEF Allowed, None
  <2>3. x \in Lock
    BY <2>1, LockFacts
  <2> HIDE DEF x, table
  <2>4. t \in writer[x] /\ (u \in readers[x] \/ u \in writer[x])
    BY <1>1, <2>1, <2>2, <2>3 DEF LocksInv, PlansFollowed
  <2> QED BY <1>1, <2>3, <2>4 DEF LocksInv, Exclusive
<1> QED BY <1>1, LocksFollowPlans, PTL

\* Who waits for a lock holds locks of lower rank only, or has locked itself out.
LEMMA WaitsForHigher ==
    ASSUME LocksInv, NEW t \in Thread, Waits(t), ~SelfLocked(t)
    PROVE  /\ Instruction(t)[2] \in Lock
           /\ Instruction(t) = <<Instruction(t)[1], Instruction(t)[2]>>
           /\ Below(Hold(t), Rank[Instruction(t)[2]])
<1>1. Instruction(t)[1] \in {"RLock", "Lock"} /\ Instruction(t)[1] # None
  BY DEF Waits, None
<1>2. Instruction(t) = <<Instruction(t)[1], Instruction(t)[2]>>
  BY <1>1, NextHolding DEF Instr
<1> QED BY <1>1, <1>2, NextHolding DEF Allowed

\* No set of operations waits in a circle, with any number of goroutines: of
\* those that wait, one that waits for a lock of the highest rank finds it free,
\* or finds it announced by another, which can then take it.
THEOREM LocksFree == Spec => []NoDeadlock
<1>1. ASSUME LocksInv, NEW a \in Thread, op[a] # None, \A t \in Thread : ~SelfLocked(t)
      PROVE  \E t \in Thread : op[t] # None /\ (Waits(t) => \E x \in Lock : CanTake(t, x))
  <2> DEFINE Wanted(t) == Instruction(t)[2]
  <2> SUFFICES ASSUME \A t \in Thread : op[t] # None =>
                         Waits(t) /\ \A x \in Lock : ~CanTake(t, x)
               PROVE  FALSE
    OBVIOUS
  <2>1. \A t \in Thread : op[t] # None =>
           /\ Wanted(t) \in Lock /\ Below(Hold(t), Rank[Wanted(t)])
           /\ Instruction(t) \in {<<"RLock", Wanted(t)>>, <<"Lock", Wanted(t)>>}
    BY <1>1, WaitsForHigher DEF Waits
  <2> HIDE DEF Wanted
  <2>2. PICK t \in Thread :
           /\ op[t] # None
           /\ \A u \in Thread : op[u] # None => Rank[Wanted(u)] <= Rank[Wanted(t)]
    <3>1. \A u \in Thread : op[u] # None => Rank[Wanted(u)] \in {1, 2, 3}
      BY <2>1, LockFacts
    <3> QED BY <1>1, <3>1
  <2> DEFINE x == Wanted(t)
  <2>3. x \in Lock /\ Rank[x] \in {1, 2, 3}
    BY <2>1, <2>2, LockFacts
  <2>4. \A u \in Thread : Hold(u)[x] = "no"
    <3>1. ASSUME NEW u \in Thread, op[u] = None
          PROVE  Hold(u)[x] = "no"
      BY <2>3, <3>1 DEF Hold, AllFree
    <3>2. ASSUME NEW u \in Thread, op[u] # None
          PROVE  Hold(u)[x] = "no"
      BY <2>1, <2>2, <2>3, <3>2, LockFacts DEF Below
    <3> QED BY <3>1, <3>2
  <2> HIDE DEF x
  <2>5. readers[x] = {} /\ writer[x] = {} /\ announced[x] \in SUBSET Thread
    BY <1>1, <2>3, <2>4 DEF LocksInv, PlansFollowed, TypeOK
  <2>6. CASE announced[x] = {}
    <3>1. At(t, "RLock", x) \/ At(t, "Lock", x)
      BY <2>1, <2>2 DEF At, x
    <3> QED BY <2>2, <2>3, <2>5, <2>6, <3>1 DEF CanTake
  <2>7. CASE announced[x] # {}
    <3>1. PICK u \in Thread : u \in announced[x]
      BY <2>5, <2>7
    <3>2. announced[x] = {u} /\ At(u, "Lock", x)
      BY <1>1, <2>3, <3>1 DEF LocksInv, PlansFollowed, Exclusive
    <3>3. op[u] # None
      BY <1>1, <3>2, AtFacts DEF At, None
    <3> QED BY <2>3, <2>5, <3>2, <3>3 DEF CanTake
  <2> QED BY <2>6, <2>7
<1>2. LocksInv => NoDeadlock
  BY <1>1 DEF NoDeadlock
<1> QED BY <1>2, LocksFollowPlans, PTL

=============================================================================
