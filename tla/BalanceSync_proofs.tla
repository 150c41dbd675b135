-------------------------- MODULE BalanceSync_proofs --------------------------
(***************************************************************************)
(* Proofs about BalanceSync, for any number of leave types, requests,      *)
(* pending events and messages.  Types, and that batches go on, are proved *)
(* for Spec; that nothing is negative for OnePendingSpec and grants of at  *)
(* least zero days.                                                        *)
(***************************************************************************)
EXTENDS BalanceSync, SetSums, SequenceTheorems

(***************************************************************************)
(* The conflict resolution, as a sum over the pending debits.              *)
(***************************************************************************)
\* What the debits in the table announced less than HCM reports.
Differences(days) == [i \in DOMAIN outbox |-> days - outbox[i].newBalance]

LEMMA ResolvedIsSum ==
  ASSUME NEW t, NEW days, IsFiniteSet(PendingDebits(t))
  PROVE  Resolved(t, days) = days - SumOver(Differences(days), PendingDebits(t))
<1> DEFINE Step(sum) ==
      sum = [s \in SUBSET PendingDebits(t) |->
               IF s = {} THEN 0
               ELSE (days - outbox[CHOOSE x \in s : TRUE].newBalance)
                    + sum[s \ {CHOOSE x \in s : TRUE}]]
           total == CHOOSE sum : Step(sum)
<1>1. Resolved(t, days) = days - total[PendingDebits(t)]
  BY DEF Resolved, MapThenSumSet, MapThenFoldSet
<1>2. \A s \in SUBSET PendingDebits(t) : s # {} =>
        Differences(days)[Pick(s)] = days - outbox[CHOOSE x \in s : TRUE].newBalance
  <2>1. \A s \in SUBSET PendingDebits(t) : s # {} => Pick(s) \in DOMAIN outbox
    BY Picked DEF PendingDebits, Pending
  <2> QED BY <2>1 DEF Differences, Pick
<1>3. ASSUME NEW sum PROVE Step(sum) <=> Sums(Differences(days), PendingDebits(t), sum)
  <2> DEFINE one(s) == IF s = {} THEN 0
                       ELSE (days - outbox[CHOOSE x \in s : TRUE].newBalance)
                            + sum[s \ {CHOOSE x \in s : TRUE}]
             other(s) == IF s = {} THEN 0
                         ELSE Differences(days)[Pick(s)] + sum[s \ {Pick(s)}]
  <2>1. \A s \in SUBSET PendingDebits(t) : one(s) = other(s)
    BY <1>2 DEF Pick
  <2>2. /\ Step(sum) <=> sum = [s \in SUBSET PendingDebits(t) |-> one(s)]
        /\ Sums(Differences(days), PendingDebits(t), sum)
             <=> sum = [s \in SUBSET PendingDebits(t) |-> other(s)]
    BY DEF Sums
  <2> HIDE DEF Step, one, other
  <2> QED BY <2>1, <2>2
<1> HIDE DEF Step
<1>4. Step(total)
  BY <1>3, SumsExist
<1> HIDE DEF total
<1>5. total[PendingDebits(t)] = SumOver(Differences(days), PendingDebits(t))
  BY <1>3, <1>4, SumIsUnique
<1> QED BY <1>1, <1>5

LEMMA ResolvedWithoutDebit ==
  ASSUME NEW t, NEW days \in Int, PendingDebits(t) = {}
  PROVE  Resolved(t, days) = days
<1>1. IsFiniteSet(PendingDebits(t))
  BY FS_EmptySet
<1>2. Resolved(t, days) = days - 0
  BY <1>1, ResolvedIsSum, SumOfNone
<1> QED BY <1>2

LEMMA ResolvedWithDebit ==
  ASSUME NEW t, NEW days \in Int, NEW i, outbox[i].newBalance \in Int,
         PendingDebits(t) = {i}
  PROVE  Resolved(t, days) = outbox[i].newBalance
<1> DEFINE w == Differences(days)
<1>1. IsFiniteSet({i})
  BY FS_Singleton
<1>2. i \in DOMAIN outbox
  BY DEF PendingDebits, Pending
<1>3. w[i] = days - outbox[i].newBalance
  BY <1>2 DEF Differences
<1> HIDE DEF w
<1>4. SumOver(w, {i}) = w[i] + SumOver(w, {i} \ {i})
  BY <1>1, <1>3, SumWithout
<1>5. {i} \ {i} = {}
  OBVIOUS
<1>6. SumOver(w, {i}) = days - outbox[i].newBalance
  <2>1. SumOver(w, {i}) = (days - outbox[i].newBalance) + 0
    BY <1>3, <1>4, <1>5, SumOfNone
  <2> QED BY <2>1
<1>7. Resolved(t, days) = days - SumOver(w, {i})
  BY <1>1, ResolvedIsSum DEF w
<1> QED BY <1>6, <1>7

LEMMA RowsInTable ==
  ASSUME TypeOK
  PROVE  /\ DOMAIN outbox = 1..Len(outbox)
         /\ Len(outbox) \in Nat
         /\ \A i \in DOMAIN outbox : outbox[i] \in OutboxRow(Requests)
BY DEF TypeOK

LEMMA DebitsAreFinite ==
  ASSUME TypeOK, NEW t PROVE IsFiniteSet(PendingDebits(t))
<1>1. DOMAIN outbox = 1..Len(outbox) /\ Len(outbox) \in Nat
  BY DEF TypeOK
<1>2. IsFiniteSet(DOMAIN outbox)
  BY <1>1, FS_Interval
<1> QED BY <1>2, FS_Subset DEF PendingDebits, Pending

\* OnePending, without counting.
LEMMA AtMostOne ==
  ASSUME TypeOK, OnePending, NEW t \in LeaveTypes
  PROVE  PendingDebits(t) = {} \/ \E i \in DOMAIN outbox : PendingDebits(t) = {i}
<1>1. IsFiniteSet(PendingDebits(t))
  BY DebitsAreFinite
<1>2. Cardinality(PendingDebits(t)) = 0 \/ Cardinality(PendingDebits(t)) = 1
  BY <1>1, FS_CardinalityType DEF OnePending
<1>3. PendingDebits(t) = {} \/ \E i : PendingDebits(t) = {i}
  BY <1>1, <1>2, FS_EmptySet, FS_Singleton
<1> QED BY <1>3 DEF PendingDebits, Pending

\* However many debits are pending, HCM's balance is resolved to a number.
LEMMA ResolvedType ==
  ASSUME TypeOK, NEW t, NEW days \in Int
  PROVE  Resolved(t, days) \in Int
<1> DEFINE w == Differences(days)
<1>1. IsFiniteSet(PendingDebits(t))
  BY DebitsAreFinite
<1>2. ASSUME NEW i \in PendingDebits(t) PROVE w[i] \in Int
  <2>1. i \in DOMAIN outbox
    BY DEF PendingDebits, Pending
  <2>2. outbox[i].newBalance \in Int
    BY <2>1, RowsInTable DEF OutboxRow
  <2> QED BY <2>1, <2>2 DEF Differences
<1> HIDE DEF w
<1>3. SumOver(w, PendingDebits(t)) \in Int
  BY <1>1, <1>2, SumType
<1>4. Resolved(t, days) = days - SumOver(w, PendingDebits(t))
  BY <1>1, ResolvedIsSum DEF w
<1> QED BY <1>3, <1>4

(***************************************************************************)
(* What becomes of a job in a step.                                        *)
(***************************************************************************)
GoodJob(j) == j \in Job /\ (j.todo = <<>> <=> j.pc = "idle")

Replaced(c, j) == jobs' = [jobs EXCEPT ![c] = j]

\* The records with another balance for the first.
First(todo, days) == [todo EXCEPT ![1].balance = days]

Waiting(c, days) ==
  [jobs[c] EXCEPT !.pc = "find", !.todo = First(jobs[c].todo, days)]

Found(c, t, days) ==
  [jobs[c] EXCEPT !.pc = "write", !.todo = First(jobs[c].todo, days),
                  !.isNew = (balances[t] = NoRow)]

Rest(c) ==
  [pc |-> IF jobs[c].kind = "sync" THEN "find" ELSE "query", kind |-> jobs[c].kind,
   todo |-> Tail(jobs[c].todo), isNew |-> FALSE]

LEMMA GoodJobs ==
  ASSUME TypeOK
  PROVE  jobs \in [Slots -> Job] /\ \A c \in Slots : GoodJob(jobs[c])
BY DEF TypeOK, GoodJob

LEMMA ReplacedType ==
  ASSUME TypeOK, NEW c \in Slots, NEW j, GoodJob(j), Replaced(c, j)
  PROVE  /\ jobs' \in [Slots -> Job]
         /\ \A d \in Slots : (jobs'[d].todo = <<>>) = (jobs'[d].pc = "idle")
         /\ jobs'[c] = j
         /\ \A d \in Slots : d # c => jobs'[d] = jobs[d]
<1>1. /\ jobs' \in [Slots -> Job] /\ jobs'[c] = j
      /\ \A d \in Slots : d # c => jobs'[d] = jobs[d]
  BY DEF TypeOK, GoodJob, Replaced
<1>2. \A d \in Slots : GoodJob(jobs'[d])
  BY <1>1, GoodJobs
<1> QED BY <1>1, <1>2 DEF GoodJob

LEMMA FirstProperties ==
  ASSUME NEW todo \in Seq(Record), todo # <<>>, NEW days \in Int
  PROVE  /\ First(todo, days) \in Seq(Record)
         /\ Len(First(todo, days)) = Len(todo)
         /\ First(todo, days) # <<>>
         /\ Head(todo).leaveType \in LeaveTypes
         /\ Head(todo) = todo[1]
         /\ 1 \in DOMAIN todo
         /\ DOMAIN First(todo, days) = DOMAIN todo
         /\ Head(First(todo, days)) = First(todo, days)[1]
         /\ First(todo, days)[1] = [leaveType |-> Head(todo).leaveType, balance |-> days]
         /\ \A i \in DOMAIN todo : i # 1 => First(todo, days)[i] = todo[i]
<1> DEFINE r == [leaveType |-> Head(todo).leaveType, balance |-> days]
<1>1. Len(todo) \in Nat /\ Len(todo) > 0 /\ DOMAIN todo = 1..Len(todo)
  OBVIOUS
<1>2. todo[1] \in Record /\ Head(todo) = todo[1]
  BY <1>1
<1>3. r \in Record /\ [todo[1] EXCEPT !.balance = days] = r
  BY <1>2 DEF Record
<1> HIDE DEF r
<1>4. First(todo, days) = [todo EXCEPT ![1] = r]
  BY <1>3 DEF First
<1>5. /\ First(todo, days) \in Seq(Record) /\ Len(First(todo, days)) = Len(todo)
      /\ \A i \in 1..Len(todo) : First(todo, days)[i] = IF i = 1 THEN r ELSE todo[i]
  BY <1>1, <1>3, <1>4, ExceptSeq
<1>6. First(todo, days) # <<>> /\ Head(First(todo, days)) = First(todo, days)[1]
  BY <1>1, <1>5
<1> QED BY <1>1, <1>2, <1>3, <1>5, <1>6 DEF r, Record

LEMMA FindReplaces ==
  ASSUME TypeOK, NEW c \in Slots, jobs[c].todo # <<>>, NEW t \in LeaveTypes,
         NEW days \in Int, Find(c, t, days)
  PROVE  LET j == Found(c, t, days) IN
         /\ Replaced(c, j)
         /\ GoodJob(j)
         /\ j.kind = jobs[c].kind /\ j.todo = First(jobs[c].todo, days)
<1>1. jobs[c] \in Job
  BY DEF TypeOK
<1>2. First(jobs[c].todo, days) \in Seq(Record) /\ First(jobs[c].todo, days) # <<>>
  BY <1>1, FirstProperties DEF Job
<1>3. (balances[t] = NoRow) \in BOOLEAN
  OBVIOUS
<1>4. Replaced(c, Found(c, t, days))
  BY <1>1 DEF Find, Replaced, Found, First, Job
<1>5. PICK todo \in Seq(Record) : todo = First(jobs[c].todo, days) /\ todo # <<>>
  BY <1>2
<1>6. PICK old \in Job : old = jobs[c]
  BY <1>1
<1>7. Found(c, t, days) = [old EXCEPT !.pc = "write", !.todo = todo,
                                      !.isNew = (balances[t] = NoRow)]
  BY <1>5, <1>6, Zenon DEF Found
<1>8. LET j == Found(c, t, days) IN
      /\ j \in Job
      /\ j.pc = "write" /\ j.kind = old.kind /\ j.todo = todo
  BY <1>3, <1>7 DEF Job
<1> QED BY <1>4, <1>5, <1>6, <1>8 DEF GoodJob

\* The handler of applyHcmBalance awaits the audit log.
Waits(c, days) ==
  jobs' = [jobs EXCEPT ![c] = [@ EXCEPT !.pc = "find", !.todo[1].balance = days]]

LEMMA WaitsReplaces ==
  ASSUME TypeOK, NEW c \in Slots, jobs[c].todo # <<>>, NEW days \in Int,
         Waits(c, days)
  PROVE  LET j == Waiting(c, days) IN
         /\ Replaced(c, j)
         /\ GoodJob(j)
         /\ j.kind = jobs[c].kind /\ j.todo = First(jobs[c].todo, days)
<1>1. jobs[c] \in Job
  BY DEF TypeOK
<1>2. First(jobs[c].todo, days) \in Seq(Record) /\ First(jobs[c].todo, days) # <<>>
  BY <1>1, FirstProperties DEF Job
<1>3. Replaced(c, Waiting(c, days))
  BY <1>1 DEF Waits, Replaced, Waiting, First, Job
<1>4. PICK todo \in Seq(Record) : todo = First(jobs[c].todo, days) /\ todo # <<>>
  BY <1>2
<1>5. PICK old \in Job : old = jobs[c]
  BY <1>1
<1>6. Waiting(c, days) = [old EXCEPT !.pc = "find", !.todo = todo]
  BY <1>4, <1>5, Zenon DEF Waiting
<1>7. LET j == Waiting(c, days) IN
      /\ j \in Job
      /\ j.pc = "find" /\ j.kind = old.kind /\ j.todo = todo
  BY <1>6 DEF Job
<1> QED BY <1>3, <1>4, <1>5, <1>7 DEF GoodJob

LEMMA EndReplaces ==
  ASSUME TypeOK, NEW c \in Slots, End(c) PROVE Replaced(c, Idle) /\ GoodJob(Idle)
<1>1. <<>> \in Seq(Record)
  OBVIOUS
<1> QED BY <1>1 DEF End, Replaced, GoodJob, Job, Idle, Kinds

LEMMA GoOnReplaces ==
  ASSUME TypeOK, NEW c \in Slots, jobs[c].todo # <<>>, GoOn(c)
  PROVE  \/ Len(jobs[c].todo) = 1 /\ Replaced(c, Idle) /\ GoodJob(Idle)
         \/ Len(jobs[c].todo) > 1 /\ Replaced(c, Rest(c)) /\ GoodJob(Rest(c))
<1> DEFINE n == Len(jobs[c].todo)
<1>1. jobs[c] \in Job /\ jobs[c].todo \in Seq(Record) /\ n \in Nat \ {0}
  BY DEF TypeOK, Job
<1>2. CASE n = 1
  BY <1>2, EndReplaces DEF GoOn
<1>3. CASE n # 1
  <2>1. Tail(jobs[c].todo) \in Seq(Record) /\ Tail(jobs[c].todo) # <<>>
    <3>1. Tail(jobs[c].todo) \in Seq(Record) /\ Len(Tail(jobs[c].todo)) = n - 1
      BY <1>1, HeadTailProperties
    <3>2. n - 1 # 0
      <4> HIDE DEF n
      <4> QED BY <1>1, <1>3
    <3> QED BY <3>1, <3>2
  <2>2. Replaced(c, Rest(c))
    BY <1>3 DEF GoOn, Replaced, Rest, Idle
  <2>3. GoodJob(Rest(c))
    BY <1>1, <2>1 DEF GoodJob, Rest, Job
  <2>4. n > 1
    <3> HIDE DEF n
    <3> QED BY <1>1, <1>3
  <2> QED BY <2>2, <2>3, <2>4
<1> QED BY <1>2, <1>3

(***************************************************************************)
(* The invariant: every balance in the table, in an event, and on its way  *)
(* to a row is in B.  With the integers for B it says that everything is   *)
(* well typed; with the natural numbers, that nothing is negative, which   *)
(* takes OnePending and GrantsAreNatural as well.                          *)
(***************************************************************************)
Ranges == {Nat, Int}

LEMMA InRange ==
  ASSUME NEW B \in Ranges
  PROVE  /\ \A n \in Nat : n \in B
         /\ \A n \in B : n \in Int
         /\ \A m \in B, n \in Nat : m + n \in B
         /\ \A m \in B, n \in Nat : m >= n => m - n \in B
<1>1. CASE B = Nat
  BY <1>1
<1>2. CASE B = Int
  BY <1>2
<1> QED BY <1>1, <1>2 DEF Ranges

Sound(j, B) ==
  /\ GoodJob(j)
  /\ \A i \in DOMAIN j.todo : j.todo[i].balance \in B

RowsWithin(rows, B) ==
  /\ rows \in [LeaveTypes -> BalanceRow \cup {NoRow}]
  /\ \A t \in LeaveTypes : rows[t] # NoRow => rows[t].availableDays \in B

EventsWithin(table, B) ==
  /\ table \in Seq(OutboxRow(Requests))
  /\ \A i \in DOMAIN table : table[i].newBalance \in B

JobsWithin(js, B) == js \in [Slots -> Job] /\ \A c \in Slots : Sound(js[c], B)

Within(B) ==
  /\ RowsWithin(balances, B)
  /\ EventsWithin(outbox, B)
  /\ JobsWithin(jobs, B)
  /\ hcm \in [LeaveTypes -> B]
  /\ posted \subseteq DOMAIN outbox

LEMMA WithinTypes == ASSUME NEW B \in Ranges, Within(B) PROVE TypeOK
<1>1. hcm \in [LeaveTypes -> Int]
  BY InRange DEF Within
<1> QED BY <1>1 DEF Within, RowsWithin, EventsWithin, JobsWithin, Sound, GoodJob, TypeOK

LEMMA SoundReplaced ==
  ASSUME NEW B \in Ranges, Within(B), NEW c \in Slots, NEW j, Sound(j, B), Replaced(c, j)
  PROVE  JobsWithin(jobs', B)
<1>1. GoodJob(j)
  BY DEF Sound
<1>2. /\ jobs' \in [Slots -> Job] /\ jobs'[c] = j
      /\ \A d \in Slots : d # c => jobs'[d] = jobs[d]
  BY <1>1, WithinTypes, ReplacedType
<1> QED BY <1>2 DEF Within, JobsWithin

LEMMA SoundIdle == ASSUME NEW B PROVE Sound(Idle, B)
<1>1. <<>> \in Seq(Record) /\ DOMAIN <<>> = {}
  OBVIOUS
<1> QED BY <1>1 DEF Sound, GoodJob, Job, Idle, Kinds

LEMMA RowOfEvent ==
  ASSUME NEW B \in Ranges, Within(B), NEW i \in DOMAIN outbox
  PROVE  /\ outbox[i] \in OutboxRow(Requests)
         /\ LeaveType[outbox[i].requestId] \in LeaveTypes
         /\ outbox[i].newBalance \in B
BY WithinTypes, RowsInTable, SyncAssumption DEF Within, EventsWithin, OutboxRow

\* HCM's balance is resolved to a balance in B.
LEMMA ResolvedInRange ==
  ASSUME NEW B \in Ranges, Within(B), B = Nat => OnePending,
         NEW t \in LeaveTypes, NEW days \in B
  PROVE  Resolved(t, days) \in B
<1>1. days \in Int
  BY InRange
<1>2. CASE B = Int
  BY <1>1, <1>2, WithinTypes, ResolvedType
<1>3. CASE B = Nat
  <2>1. CASE PendingDebits(t) = {}
    BY <1>1, <2>1, ResolvedWithoutDebit
  <2>2. ASSUME NEW i \in DOMAIN outbox, PendingDebits(t) = {i} PROVE Resolved(t, days) \in B
    <3>1. outbox[i].newBalance \in B /\ outbox[i].newBalance \in Int
      BY RowOfEvent, InRange
    <3> QED BY <1>1, <2>2, <3>1, ResolvedWithDebit
  <2> QED BY <1>3, <2>1, <2>2, WithinTypes, AtMostOne
<1> QED BY <1>2, <1>3 DEF Ranges

\* The record a handler works on.
LEMMA CurrentRecord ==
  ASSUME NEW B \in Ranges, Within(B), NEW c \in Slots, jobs[c].todo # <<>>
  PROVE  /\ jobs[c] \in Job /\ jobs[c].todo \in Seq(Record)
         /\ Current(c).leaveType \in LeaveTypes
         /\ Current(c).balance \in B
<1>1. jobs[c] \in Job /\ jobs[c].todo \in Seq(Record)
  BY DEF Within, JobsWithin, Job
<1>2. 1 \in DOMAIN jobs[c].todo /\ Current(c) = jobs[c].todo[1] /\ Current(c) \in Record
  BY <1>1 DEF Current
<1> QED BY <1>1, <1>2 DEF Within, JobsWithin, Sound, Record

LEMMA SoundGoOn ==
  ASSUME NEW B \in Ranges, Within(B), NEW c \in Slots, jobs[c].todo # <<>>, GoOn(c)
  PROVE  JobsWithin(jobs', B)
<1>1. CASE Replaced(c, Idle)
  BY <1>1, SoundIdle, SoundReplaced
<1>2. CASE Len(jobs[c].todo) > 1 /\ Replaced(c, Rest(c)) /\ GoodJob(Rest(c))
  <2>1. PICK todo \in Seq(Record) : todo = jobs[c].todo /\ todo # <<>>
    BY CurrentRecord
  <2>2. \A i \in DOMAIN todo : todo[i].balance \in B
    BY <2>1 DEF Within, JobsWithin, Sound
  <2>3. \A i \in DOMAIN Tail(todo) : Tail(todo)[i].balance \in B
    BY <2>1, <2>2
  <2>4. Rest(c).todo = Tail(todo)
    BY <2>1 DEF Rest
  <2>5. Sound(Rest(c), B)
    BY <1>2, <2>3, <2>4 DEF Sound
  <2> QED BY <1>2, <2>5, SoundReplaced
<1> QED BY <1>1, <1>2, WithinTypes, GoOnReplaces

LEMMA SoundFail ==
  ASSUME NEW B \in Ranges, Within(B), NEW c \in Slots, jobs[c].todo # <<>>, Fail(c)
  PROVE  JobsWithin(jobs', B)
<1>1. CASE End(c)
  BY <1>1, WithinTypes, EndReplaces, SoundIdle, SoundReplaced
<1> QED BY <1>1, SoundGoOn DEF Fail

\* The records with a balance in B for the first.
LEMMA FirstWithin ==
  ASSUME NEW B \in Ranges, Within(B), NEW c \in Slots, jobs[c].todo # <<>>, NEW days \in B
  PROVE  \A i \in DOMAIN First(jobs[c].todo, days) : First(jobs[c].todo, days)[i].balance \in B
<1>1. PICK todo \in Seq(Record) : todo = jobs[c].todo /\ todo # <<>>
  BY CurrentRecord
<1>2. \A i \in DOMAIN todo : todo[i].balance \in B
  BY <1>1 DEF Within, JobsWithin, Sound
<1>3. /\ DOMAIN First(todo, days) = DOMAIN todo
      /\ First(todo, days)[1].balance = days
      /\ \A i \in DOMAIN todo : i # 1 => First(todo, days)[i] = todo[i]
  <2>1. days \in Int
    BY InRange
  <2>2. /\ DOMAIN First(todo, days) = DOMAIN todo
        /\ First(todo, days)[1] = [leaveType |-> Head(todo).leaveType, balance |-> days]
        /\ \A i \in DOMAIN todo : i # 1 => First(todo, days)[i] = todo[i]
    BY <1>1, <2>1, FirstProperties
  <2> QED BY <2>2
<1>4. \A i \in DOMAIN First(todo, days) : First(todo, days)[i].balance \in B
  BY <1>2, <1>3
<1> QED BY <1>1, <1>4

LEMMA SoundFind ==
  ASSUME NEW B \in Ranges, Within(B), NEW c \in Slots, jobs[c].todo # <<>>,
         NEW t \in LeaveTypes, NEW days \in B, Find(c, t, days)
  PROVE  JobsWithin(jobs', B)
<1> DEFINE j == Found(c, t, days)
<1>1. days \in Int
  BY InRange
<1>2. /\ Replaced(c, j) /\ GoodJob(j)
      /\ j.todo = First(jobs[c].todo, days)
  BY <1>1, WithinTypes, FindReplaces
<1>3. \A i \in DOMAIN j.todo : j.todo[i].balance \in B
  BY <1>2, FirstWithin
<1> HIDE DEF j
<1>4. Sound(j, B)
  BY <1>2, <1>3 DEF Sound
<1> QED BY <1>2, <1>4, SoundReplaced

(***************************************************************************)
(* Messages from HCM.                                                      *)
(***************************************************************************)
LEMMA IdleJob == Idle \in Job
BY SoundIdle DEF Sound, GoodJob

LEMMA SoundStart ==
  ASSUME NEW B \in Ranges, Within(B), NEW c \in Slots, NEW pc \in {"query", "find"},
         NEW kind \in Kinds, NEW records \in Seq(Record), records # <<>>,
         \A i \in DOMAIN records : records[i].balance \in B,
         Start(c, pc, kind, records)
  PROVE  JobsWithin(jobs', B)
<1> DEFINE j == [Idle EXCEPT !.pc = pc, !.kind = kind, !.todo = records]
<1>1. j \in Job /\ j.pc = pc /\ j.todo = records
  BY IdleJob DEF Job
<1>2. Sound(j, B)
  <2> HIDE DEF j
  <2> QED BY <1>1 DEF Sound, GoodJob
<1>3. Replaced(c, j)
  BY DEF Start, Replaced
<1> HIDE DEF j
<1> QED BY <1>2, <1>3, SoundReplaced

\* The records of HCM's store.
LEMMA StoreRecords ==
  ASSUME NEW B \in Ranges, Within(B)
  PROVE  /\ AllRecords \in Seq(Record)
         /\ AllRecords # <<>>
         /\ \A i \in DOMAIN AllRecords : AllRecords[i].balance \in B
<1>1. /\ Store \in Seq(LeaveTypes) /\ hcm \in [LeaveTypes -> B]
      /\ DOMAIN Store = 1..Len(Store) /\ Len(Store) \in Nat
  BY SyncAssumption DEF Within
<1>2. Store # <<>>
  BY SyncAssumption DEF LeaveTypes, ToSet
<1>3. \A i \in DOMAIN Store : Store[i] \in LeaveTypes
  BY <1>1
<1>4. \A i \in DOMAIN Store :
        /\ AllRecords[i] = [leaveType |-> Store[i], balance |-> hcm[Store[i]]]
        /\ AllRecords[i] \in Record
        /\ AllRecords[i].balance \in B
  BY <1>1, <1>3, InRange DEF AllRecords, Record
<1>5. DOMAIN AllRecords = 1..Len(Store) /\ AllRecords = [i \in 1..Len(Store) |-> AllRecords[i]]
  BY <1>1 DEF AllRecords
<1>6. AllRecords \in Seq(Record) /\ Len(AllRecords) = Len(Store)
  BY <1>1, <1>4, <1>5
<1>7. AllRecords # <<>>
  BY <1>1, <1>2, <1>6
<1>8. \A i \in DOMAIN AllRecords : AllRecords[i].balance \in B
  BY <1>1, <1>4, <1>5
<1> QED BY <1>6, <1>7, <1>8

\* A webhook that announces a balance of leave type t.
Message(t, days) ==
  [Idle EXCEPT !.pc = "query", !.todo = <<[leaveType |-> t, balance |-> days]>>]

LEMMA SoundMessage ==
  ASSUME NEW B \in Ranges, NEW t \in LeaveTypes, NEW days \in B
  PROVE  Sound(Message(t, days), B)
<1> DEFINE r == [leaveType |-> t, balance |-> days]
<1>1. r \in Record /\ r.balance \in B
  BY InRange DEF Record
<1> HIDE DEF r
<1>2. <<r>> \in Seq(Record) /\ <<r>> # <<>> /\ \A i \in DOMAIN <<r>> : <<r>>[i] = r
  BY <1>1
<1>3. PICK todo \in Seq(Record) :
        todo = <<r>> /\ todo # <<>> /\ \A i \in DOMAIN todo : todo[i].balance \in B
  BY <1>1, <1>2
<1>4. Message(t, days) = [Idle EXCEPT !.pc = "query", !.todo = todo]
  BY <1>3 DEF Message, r
<1>5. /\ Message(t, days) \in Job
      /\ Message(t, days).pc = "query" /\ Message(t, days).todo = todo
  BY <1>4, IdleJob DEF Job
<1> QED BY <1>3, <1>5 DEF Sound, GoodJob

LEMMA SoundDispatch ==
  ASSUME NEW B \in Ranges, Within(B), hcm' \in [LeaveTypes -> B],
         NEW ts \in SUBSET LeaveTypes, Dispatch(ts)
  PROVE  JobsWithin(jobs', B)
<1>1. PICK got \in [Slots -> {t \in ts : hcm'[t] >= 0} \cup {NoWebhook}] :
        jobs' = [c \in Slots |-> IF got[c] = NoWebhook THEN jobs[c]
                                 ELSE Message(got[c], hcm'[got[c]])]
  BY DEF Dispatch, Webhook, Message
<1>2. PICK h \in [LeaveTypes -> B] : h = hcm'
  OBVIOUS
<1>3. ASSUME NEW c \in Slots PROVE Sound(jobs'[c], B) /\ jobs'[c] \in Job
  <2>1. CASE got[c] = NoWebhook
    BY <1>1, <2>1 DEF Within, JobsWithin
  <2>2. CASE got[c] # NoWebhook
    BY <1>1, <1>2, <2>2, SoundMessage DEF Sound, GoodJob
  <2> QED BY <2>1, <2>2
<1> QED BY <1>1, <1>3 DEF JobsWithin

(***************************************************************************)
(* Steps of handlers.                                                      *)
(***************************************************************************)
\* A handler's state with records to work on.
LEMMA HasRecords ==
  ASSUME TypeOK, NEW c \in Slots, jobs[c].pc \in {"query", "find", "write"}
  PROVE  jobs[c].todo # <<>>
BY DEF TypeOK

LEMMA SoundHcmStep ==
  ASSUME NEW B \in Ranges, Within(B), NEW c \in Slots, HcmStep(c)
  PROVE  JobsWithin(jobs', B) /\ UNCHANGED <<balances, outbox, hcm, posted>>
<1>1. CASE HcmSendsBatch(c)
  BY <1>1, SoundStart, StoreRecords DEF HcmSendsBatch, Kinds
<1>2. CASE SyncFromHcm(c)
  BY <1>2, SoundStart, StoreRecords DEF SyncFromHcm, Kinds
<1> QED BY <1>1, <1>2 DEF HcmStep

\* A row is saved.
LEMMA RowSaved ==
  ASSUME NEW B \in Ranges, Within(B), NEW c \in Slots, At(c, "write"),
         balances' = [balances EXCEPT ![Current(c).leaveType] = Upserted(Current(c).balance)]
  PROVE  RowsWithin(balances', B)
<1>1. PICK t \in LeaveTypes, days \in B :
        t = Current(c).leaveType /\ days = Current(c).balance
  BY WithinTypes, HasRecords, CurrentRecord DEF At
<1>2. Upserted(days) \in BalanceRow /\ Upserted(days).availableDays = days
  BY InRange DEF Upserted, BalanceRow
<1> QED BY <1>1, <1>2 DEF Within, RowsWithin

LEMMA SoundSyncStep ==
  ASSUME NEW B \in Ranges, Within(B), B = Nat => OnePending, NEW c \in Slots, SyncStep(c)
  PROVE  JobsWithin(jobs', B) /\ RowsWithin(balances', B) /\ UNCHANGED <<outbox, hcm, posted>>
<1>0. RowsWithin(balances, B) /\ TypeOK
  BY WithinTypes DEF Within
<1>2. CASE ApplyHcmBalance(c)
  <2>1. jobs[c].todo # <<>>
    BY <1>0, <1>2, HasRecords DEF ApplyHcmBalance, At
  <2>2. PICK t \in LeaveTypes, days \in B :
          t = Current(c).leaveType /\ days = Resolved(t, Current(c).balance)
    BY <2>1, CurrentRecord, ResolvedInRange
  <2>3. CASE Find(c, t, days)
    BY <1>0, <1>2, <2>1, <2>3, SoundFind DEF ApplyHcmBalance
  <2>4. CASE Waits(c, days)
    <3>0. days \in Int
      BY InRange
    <3>1. /\ Replaced(c, Waiting(c, days)) /\ GoodJob(Waiting(c, days))
          /\ Waiting(c, days).todo = First(jobs[c].todo, days)
      BY <1>0, <2>1, <2>4, <3>0, WaitsReplaces
    <3>2. Sound(Waiting(c, days), B)
      BY <2>1, <3>1, FirstWithin DEF Sound
    <3> QED BY <1>0, <1>2, <3>1, <3>2, SoundReplaced DEF ApplyHcmBalance
  <2> QED BY <1>2, <2>2, <2>3, <2>4 DEF ApplyHcmBalance, Waits
<1>3. CASE FindRow(c)
  BY <1>0, <1>3, HasRecords, CurrentRecord, SoundFind DEF FindRow, At
<1>4. CASE UpsertBalance(c)
  <2>1. At(c, "write") /\ jobs[c].todo # <<>>
    BY <1>0, <1>4, HasRecords DEF UpsertBalance, At
  <2>2. CASE Fail(c) /\ UNCHANGED balances
    BY <1>0, <1>4, <2>1, <2>2, SoundFail DEF UpsertBalance
  <2>3. CASE /\ balances' = [balances EXCEPT ![Current(c).leaveType] = Upserted(Current(c).balance)]
             /\ GoOn(c)
    BY <1>4, <2>1, <2>3, RowSaved, SoundGoOn DEF UpsertBalance
  <2> QED BY <1>4, <2>2, <2>3 DEF UpsertBalance
<1>5. CASE SaveFails(c)
  BY <1>0, <1>5, HasRecords, SoundFail DEF SaveFails
<1> QED BY <1>2, <1>3, <1>4, <1>5 DEF SyncStep

(***************************************************************************)
(* Decisions and their delivery.                                           *)
(***************************************************************************)
\* A transaction appends an event that announces the balance of its row.
LEMMA EventAppended ==
  ASSUME NEW B \in Ranges, Within(B), NEW type \in EventTypes, NEW r \in Requests,
         NEW row \in BalanceRow, row.availableDays \in B,
         outbox' = Append(outbox, OutboxEntry(type, r, row))
  PROVE  /\ EventsWithin(outbox', B)
         /\ DOMAIN outbox' = DOMAIN outbox \cup {Len(outbox) + 1}
<1> DEFINE e == OutboxEntry(type, r, row)
<1>1. e \in OutboxRow(Requests) /\ e.newBalance \in B
  BY DEF OutboxEntry, OutboxRow, OutboxStatuses, BalanceRow
<1>2. outbox' = Append(outbox, e)
  OBVIOUS
<1> HIDE DEF e
<1>3. /\ outbox \in Seq(OutboxRow(Requests)) /\ DOMAIN outbox = 1..Len(outbox)
      /\ Len(outbox) \in Nat
      /\ \A i \in DOMAIN outbox : outbox[i].newBalance \in B
  BY DEF Within, EventsWithin
<1>4. /\ outbox' \in Seq(OutboxRow(Requests)) /\ Len(outbox') = Len(outbox) + 1
      /\ \A i \in 1..Len(outbox) : outbox'[i] = outbox[i]
      /\ outbox'[Len(outbox) + 1] = e
  BY <1>1, <1>2, <1>3, AppendProperties
<1>5. DOMAIN outbox' = 1..(Len(outbox) + 1)
  BY <1>4
<1>6. DOMAIN outbox' = DOMAIN outbox \cup {Len(outbox) + 1}
  BY <1>3, <1>5
<1> QED BY <1>1, <1>3, <1>4, <1>6 DEF EventsWithin, e

\* The rows the transactions of deductBalance and creditBalance write.
LEMMA LedgerRows ==
  ASSUME NEW row \in BalanceRow, NEW days \in Nat
  PROVE  /\ Deducted(row, days) \in BalanceRow
         /\ Deducted(row, days).availableDays = row.availableDays - days
         /\ Credited(row, days) \in BalanceRow
         /\ Credited(row, days).availableDays = row.availableDays + days
BY DEF Deducted, Credited, BalanceRow

\* What a decision on r writes, in a table of balances in B.
Booked(r, type, old, new) ==
  /\ old = balances[LeaveType[r]]
  /\ \/ type = "BALANCE_DEBIT" /\ new = Deducted(old, Days[r])
     \/ type = "BALANCE_CREDIT" /\ new = Credited(old, Days[r])
  /\ balances' = [balances EXCEPT ![LeaveType[r]] = new]
  /\ outbox' = Append(outbox, OutboxEntry(type, r, new))

LEMMA Decided ==
  ASSUME NEW B \in Ranges, Within(B), NEW r \in Requests, Deduct(r) \/ Credit(r)
  PROVE  /\ \E type \in EventTypes, old \in BalanceRow, new \in BalanceRow :
              /\ Booked(r, type, old, new)
              /\ new.availableDays \in B
         /\ UNCHANGED <<hcm, posted, jobs>>
<1>1. PICK t \in LeaveTypes : t = LeaveType[r]
  BY SyncAssumption
<1>2. PICK old \in BalanceRow, days \in Nat :
        old = balances[t] /\ days = Days[r] /\ old.availableDays \in B
  BY <1>1, SyncAssumption, NoRowAssumption DEF Deduct, Credit, Covers, Within, RowsWithin
<1>3. \A new : balances' = [balances EXCEPT ![t] = new] => balances'[t] = new
  BY DEF Within, RowsWithin
<1>5. CASE Deduct(r)
  <2>1. old.availableDays >= days
    BY <1>1, <1>2, <1>5 DEF Deduct, Covers
  <2>2. Deducted(old, days) \in BalanceRow /\ Deducted(old, days).availableDays \in B
    <3>1. old.availableDays - days \in B
      BY <1>2, <2>1, InRange
    <3> QED BY <1>2, <3>1, LedgerRows
  <2>3. balances' = [balances EXCEPT ![t] = Deducted(old, days)]
    BY <1>1, <1>2, <1>5 DEF Deduct
  <2>4. balances'[t] = Deducted(old, days)
    BY <1>3, <2>3
  <2>5. outbox' = Append(outbox, OutboxEntry("BALANCE_DEBIT", r, Deducted(old, days)))
    BY <1>1, <1>5, <2>4 DEF Deduct
  <2>6. Booked(r, "BALANCE_DEBIT", old, Deducted(old, days))
    BY <1>1, <1>2, <2>3, <2>5 DEF Booked
  <2> QED BY <1>5, <2>2, <2>6 DEF Deduct, EventTypes
<1>6. CASE Credit(r)
  <2>2. Credited(old, days) \in BalanceRow /\ Credited(old, days).availableDays \in B
    <3>1. old.availableDays + days \in B
      BY <1>2, InRange
    <3> QED BY <1>2, <3>1, LedgerRows
  <2>3. balances' = [balances EXCEPT ![t] = Credited(old, days)]
    BY <1>1, <1>2, <1>6 DEF Credit
  <2>4. balances'[t] = Credited(old, days)
    BY <1>3, <2>3
  <2>5. outbox' = Append(outbox, OutboxEntry("BALANCE_CREDIT", r, Credited(old, days)))
    BY <1>1, <1>6, <2>4 DEF Credit
  <2>6. Booked(r, "BALANCE_CREDIT", old, Credited(old, days))
    BY <1>1, <1>2, <2>3, <2>5 DEF Booked
  <2> QED BY <1>6, <2>2, <2>6 DEF Credit, EventTypes
<1> QED BY <1>5, <1>6

LEMMA SoundDecision ==
  ASSUME NEW B \in Ranges, Within(B), NEW r \in Requests, Deduct(r) \/ Credit(r)
  PROVE  /\ RowsWithin(balances', B) /\ EventsWithin(outbox', B)
         /\ UNCHANGED <<hcm, posted, jobs>>
         /\ DOMAIN outbox \subseteq DOMAIN outbox'
<1>1. PICK type \in EventTypes, old \in BalanceRow, new \in BalanceRow :
        Booked(r, type, old, new) /\ new.availableDays \in B
  BY Decided
<1>2. PICK t \in LeaveTypes : t = LeaveType[r]
  BY SyncAssumption
<1>3. balances' = [balances EXCEPT ![t] = new]
  BY <1>1, <1>2 DEF Booked
<1>4. RowsWithin(balances', B)
  BY <1>1, <1>3 DEF Within, RowsWithin
<1>5. outbox' = Append(outbox, OutboxEntry(type, r, new))
  BY <1>1 DEF Booked
<1> QED BY <1>1, <1>4, <1>5, EventAppended, Decided

LEMMA SoundPost ==
  ASSUME NEW B \in Ranges, Within(B), NEW i \in DOMAIN outbox, Post(i)
  PROVE  /\ hcm' \in [LeaveTypes -> B] /\ posted' \subseteq DOMAIN outbox
         /\ UNCHANGED <<balances, outbox, jobs>>
<1>1. LeaveType[outbox[i].requestId] \in LeaveTypes /\ outbox[i].newBalance \in B
  BY RowOfEvent
<1> QED BY <1>1 DEF Post, Within

LEMMA SoundSettle ==
  ASSUME NEW B \in Ranges, Within(B), NEW i \in DOMAIN outbox, NEW status \in OutboxStatuses,
         SettleAs(i, status)
  PROVE  /\ EventsWithin(outbox', B) /\ posted' \subseteq DOMAIN outbox
         /\ DOMAIN outbox' = DOMAIN outbox
         /\ UNCHANGED <<balances, hcm, jobs>>
<1>1. PICK old \in OutboxRow(Requests) : old = outbox[i] /\ old.newBalance \in B
  BY RowOfEvent
<1>2. PICK new \in OutboxRow(Requests) : new = [old EXCEPT !.status = status]
  BY DEF OutboxRow
<1>3. new.newBalance = old.newBalance
  BY <1>2 DEF OutboxRow
<1>4. outbox' = [outbox EXCEPT ![i] = new]
  BY <1>1, <1>2 DEF SettleAs
<1>5. /\ outbox' \in Seq(OutboxRow(Requests)) /\ DOMAIN outbox' = DOMAIN outbox
      /\ \A j \in DOMAIN outbox : outbox'[j] = IF j = i THEN new ELSE outbox[j]
  BY <1>4 DEF Within, EventsWithin
<1>6. EventsWithin(outbox', B)
  BY <1>1, <1>3, <1>5 DEF EventsWithin, Within
<1> QED BY <1>1, <1>3, <1>5, <1>6 DEF SettleAs, Within

LEMMA SoundCrash ==
  ASSUME NEW B, Crash
  PROVE  JobsWithin(jobs', B) /\ UNCHANGED <<balances, outbox, hcm, posted>>
BY SoundIdle, IdleJob DEF Crash, JobsWithin

(***************************************************************************)
(* The invariant holds.                                                    *)
(***************************************************************************)
LEMMA InitWithin == ASSUME NEW B \in Ranges, Init PROVE Within(B)
<1>1. JobsWithin(jobs, B)
  BY SoundIdle, IdleJob DEF Init, JobsWithin
<1>2. EventsWithin(outbox, B) /\ posted \subseteq DOMAIN outbox
  BY DEF Init, EventsWithin
<1>3. hcm \in [LeaveTypes -> B] /\ RowsWithin(balances, B)
  BY SyncAssumption, InRange DEF Init, InitialStore, RowsWithin
<1> QED BY <1>1, <1>2, <1>3 DEF Within

\* HCM adds no negative number of days: nobody checks bonusDays, or the
\* defaults of a new year.
GrantsAreNatural == BonusDays \in Nat /\ \A t \in DOMAIN YearDays : YearDays[t] \in Nat

LEMMA GrantsInRange ==
  ASSUME NEW B \in Ranges, B = Nat => GrantsAreNatural
  PROVE  (\A n \in B : n + BonusDays \in B) /\ \A t \in DOMAIN YearDays : YearDays[t] \in B
<1>1. CASE B = Int
  BY <1>1, SyncAssumption
<1>2. CASE B = Nat
  BY <1>2 DEF GrantsAreNatural
<1> QED BY <1>1, <1>2 DEF Ranges

LEMMA WithinStep ==
  ASSUME NEW B \in Ranges, Within(B), B = Nat => GrantsAreNatural /\ OnePending, [Next]_vars
  PROVE  Within(B)'
<1> SUFFICES /\ RowsWithin(balances', B) /\ EventsWithin(outbox', B) /\ JobsWithin(jobs', B)
             /\ hcm' \in [LeaveTypes -> B] /\ posted' \subseteq DOMAIN outbox'
  BY DEF Within
<1>1. /\ RowsWithin(balances, B) /\ EventsWithin(outbox, B) /\ JobsWithin(jobs, B)
      /\ hcm \in [LeaveTypes -> B] /\ posted \subseteq DOMAIN outbox
  BY DEF Within
<1>2. CASE UNCHANGED vars
  BY <1>1, <1>2 DEF vars
<1>3. CASE HcmAdjusts
  <2>1. \A t \in LeaveTypes : \A d \in HcmDays[t] : d \in B
    BY SyncAssumption, InRange
  <2>2. hcm' \in [LeaveTypes -> B] /\ UNCHANGED <<balances, outbox, posted>>
    BY <1>1, <1>3, <2>1, ZenonT(30) DEF HcmAdjusts
  <2>3. JobsWithin(jobs', B)
    BY <1>3, <2>2, SoundDispatch DEF HcmAdjusts
  <2> QED BY <1>1, <2>2, <2>3
<1>4. CASE TriggerAnniversary
  <2>1. \A n \in B : n + BonusDays \in B
    BY GrantsInRange
  <2>2. hcm' \in [LeaveTypes -> B] /\ UNCHANGED <<balances, outbox, posted>>
    BY <1>1, <1>4, <2>1, SyncAssumption DEF TriggerAnniversary
  <2>3. JobsWithin(jobs', B)
    BY <1>4, <2>2, SyncAssumption, SoundDispatch DEF TriggerAnniversary
  <2> QED BY <1>1, <2>2, <2>3
<1>5. CASE TriggerYearRefresh
  <2>1. \A t \in DOMAIN YearDays : YearDays[t] \in B
    BY GrantsInRange
  <2>2. hcm' \in [LeaveTypes -> B] /\ UNCHANGED <<balances, outbox, posted>>
    BY <1>1, <1>5, <2>1 DEF TriggerYearRefresh
  <2>3. JobsWithin(jobs', B)
    BY <1>5, <2>2, SyncAssumption, SoundDispatch DEF TriggerYearRefresh
  <2> QED BY <1>1, <2>2, <2>3
<1>6. CASE HcmResets
  BY <1>1, <1>6, SyncAssumption, InRange DEF HcmResets, InitialStore
<1>7. CASE \E c \in Slots : HcmStep(c)
  BY <1>1, <1>7, SoundHcmStep
<1>8. CASE \E c \in Slots : SyncStep(c)
  BY <1>1, <1>8, SoundSyncStep
<1>9. CASE \E r \in Requests : Approve(r) \/ Cancel(r)
  BY <1>1, <1>9, SoundDecision DEF Approve, Cancel
<1>10. CASE \E i \in DOMAIN outbox : Post(i)
  BY <1>1, <1>10, SoundPost
<1>11. CASE \E i \in DOMAIN outbox : Confirm(i) \/ GiveUp(i)
  BY <1>1, <1>11, SoundSettle DEF Confirm, GiveUp, OutboxStatuses
<1>12. CASE Crash
  BY <1>1, <1>12, SoundCrash
<1> QED BY <1>2, <1>3, <1>4, <1>5, <1>6, <1>7, <1>8, <1>9, <1>10, <1>11, <1>12 DEF Next

\* Everything is well typed.
Typed == Within(Int)

LEMMA TypedIs == ASSUME Typed PROVE TypeOK /\ Within(Int) /\ Int \in Ranges /\ Int # Nat
<1>1. -1 \in Int /\ -1 \notin Nat
  OBVIOUS
<1>2. Int # Nat
  BY <1>1
<1> QED BY <1>2, WithinTypes DEF Typed, Ranges

LEMMA TypedHolds == Spec => []Typed
<1>1. Init => Typed
  BY InitWithin DEF Typed, Ranges
<1>2. Typed /\ [Next]_vars => Typed'
  BY TypedIs, WithinStep DEF Typed
<1> QED BY <1>1, <1>2, PTL DEF Spec

\* Balances, events, HCM's store and the handlers stay well typed, and only a
\* handler with a record to work on works, however many debits are pending,
\* for any number of leave types, requests and messages (applyHcmBalance,
\* upsertBalance and their callers).
THEOREM TypeCorrect == Spec => []TypeOK
<1>1. Typed => TypeOK
  BY TypedIs
<1> QED BY <1>1, TypedHolds, PTL

\* Nothing is negative.
Inv == Within(Nat) /\ OnePending

LEMMA InvIs == ASSUME Inv PROVE TypeOK /\ Within(Nat) /\ Nat \in Ranges /\ OnePending
BY WithinTypes DEF Inv, Ranges

LEMMA InitInv == Init => Inv
<1> SUFFICES ASSUME Init PROVE Inv
  OBVIOUS
<1>1. \A t \in LeaveTypes : PendingDebits(t) = {}
  BY DEF Init, PendingDebits, Pending
<1>2. OnePending
  BY <1>1, FS_EmptySet DEF OnePending
<1> QED BY <1>2, InitWithin DEF Inv, Ranges

LEMMA InvStep == GrantsAreNatural /\ Inv /\ [Next /\ OnePending']_vars => Inv'
<1> SUFFICES ASSUME GrantsAreNatural, Inv, [Next /\ OnePending']_vars PROVE Inv'
  OBVIOUS
<1>1. Within(Nat)'
  BY InvIs, WithinStep
<1>2. CASE UNCHANGED vars
  BY <1>1, <1>2 DEF vars, Inv, OnePending, PendingDebits, Pending
<1> QED BY <1>1, <1>2 DEF Inv

\* With one unconfirmed debit of a leave type at a time, and grants of at
\* least zero days, no webhook, batch, pull or transaction stores a negative
\* balance, whatever overlaps whatever, and whether a request is debited and
\* credited once or more often (conflict resolution of applyHcmBalance).  The
\* run balance_sync_negative shows what two unconfirmed debits do.
THEOREM NeverNegative == GrantsAreNatural => (OnePendingSpec => []NonNegative)
<1> SUFFICES ASSUME GrantsAreNatural PROVE OnePendingSpec => []NonNegative
  OBVIOUS
<1>1. Inv /\ [Next /\ OnePending']_vars => Inv'
  BY InvStep
<1>2. OnePendingSpec => []Inv
  BY <1>1, InitInv, PTL DEF OnePendingSpec
<1>3. Inv => NonNegative
  BY DEF Inv, Within, RowsWithin, NonNegative
<1> QED BY <1>2, <1>3, PTL

(***************************************************************************)
(* A batch goes on.                                                        *)
(***************************************************************************)
\* The batch in slot c has begun a record and has others left.
Begun(c) ==
  /\ jobs[c].kind = "batch"
  /\ jobs[c].pc \in {"find", "write"}
  /\ Len(jobs[c].todo) > 1

GoesOn(c) == jobs'[c].kind = "batch" /\ Len(jobs'[c].todo) >= Len(jobs[c].todo) - 1

LEMMA BegunBatch ==
  ASSUME Typed, NEW c \in Slots, Begun(c)
  PROVE  /\ jobs[c].todo # <<>> /\ jobs[c].todo \in Seq(Record)
         /\ Len(jobs[c].todo) \in Nat
         /\ jobs[c].pc # "idle" /\ jobs[c].pc # "query"
BY TypedIs, HasRecords, CurrentRecord DEF Begun

\* Whatever replaces a job in another slot leaves the batch alone.
LEMMA OtherSlot ==
  ASSUME Typed, NEW c \in Slots, Begun(c), jobs'[c] = jobs[c] PROVE GoesOn(c)
<1>1. PICK n \in Nat : n = Len(jobs[c].todo)
  BY BegunBatch
<1> QED BY <1>1 DEF Begun, GoesOn

LEMMA BatchIsReplaced ==
  ASSUME Typed, NEW c \in Slots, Begun(c), NEW d \in Slots, NEW j, GoodJob(j), Replaced(d, j),
         d = c => j.kind = "batch" /\ Len(j.todo) >= Len(jobs[c].todo) - 1
  PROVE  GoesOn(c)
<1>1. CASE d = c
  BY <1>1, TypedIs, ReplacedType DEF GoesOn
<1>2. CASE d # c
  BY <1>2, TypedIs, ReplacedType, OtherSlot
<1> QED BY <1>1, <1>2

LEMMA BatchAfterGoOn ==
  ASSUME Typed, NEW c \in Slots, Begun(c), NEW d \in Slots, jobs[d].todo # <<>>, GoOn(d)
  PROVE  GoesOn(c)
<1>1. CASE Len(jobs[d].todo) = 1 /\ Replaced(d, Idle) /\ GoodJob(Idle)
  <2>1. d # c
    <3>1. PICK n : n = Len(jobs[c].todo) /\ n > 1
      BY DEF Begun
    <3>2. ~(1 > 1)
      OBVIOUS
    <3>3. ASSUME d = c PROVE FALSE
      <4>1. n = 1
        BY <1>1, <3>1, <3>3
      <4> QED BY <3>1, <3>2, <4>1
    <3> QED BY <3>3
  <2> QED BY <1>1, <2>1, BatchIsReplaced
<1>2. CASE Len(jobs[d].todo) > 1 /\ Replaced(d, Rest(d)) /\ GoodJob(Rest(d))
  <2>1. ASSUME d = c
        PROVE  Rest(d).kind = "batch" /\ Len(Rest(d).todo) >= Len(jobs[c].todo) - 1
    <3>1. PICK todo \in Seq(Record) : todo = jobs[c].todo /\ todo # <<>>
      BY BegunBatch
    <3>2. Len(Tail(todo)) = Len(todo) - 1 /\ Len(todo) \in Nat
      BY <3>1, HeadTailProperties
    <3>3. Rest(d).kind = "batch" /\ Rest(d).todo = Tail(todo)
      BY <2>1, <3>1 DEF Rest, Begun
    <3> QED BY <3>1, <3>2, <3>3
  <2> QED BY <1>2, <2>1, BatchIsReplaced
<1> QED BY <1>1, <1>2, TypedIs, GoOnReplaces

LEMMA BatchAfterFail ==
  ASSUME Typed, NEW c \in Slots, Begun(c), NEW d \in Slots, jobs[d].todo # <<>>, Fail(d)
  PROVE  GoesOn(c)
<1>1. CASE jobs[d].kind = "batch"
  BY <1>1, BatchAfterGoOn DEF Fail
<1>2. CASE jobs[d].kind # "batch"
  BY <1>2, TypedIs, EndReplaces, BatchIsReplaced DEF Fail, Begun
<1> QED BY <1>1, <1>2

LEMMA BatchAfterFind ==
  ASSUME Typed, NEW c \in Slots, Begun(c), NEW d \in Slots, jobs[d].todo # <<>>,
         NEW t \in LeaveTypes, NEW days \in Int, Find(d, t, days)
  PROVE  GoesOn(c)
<1>1. PICK j : /\ Replaced(d, j) /\ GoodJob(j)
               /\ j.kind = jobs[d].kind /\ j.todo = First(jobs[d].todo, days)
  BY TypedIs, FindReplaces
<1>2. ASSUME d = c PROVE j.kind = "batch" /\ Len(j.todo) >= Len(jobs[c].todo) - 1
  <2>1. Len(First(jobs[c].todo, days)) = Len(jobs[c].todo) /\ Len(jobs[c].todo) \in Nat
    BY BegunBatch, FirstProperties
  <2> QED BY <1>1, <1>2, <2>1 DEF Begun
<1> QED BY <1>1, <1>2, BatchIsReplaced

LEMMA BatchAfterSyncStep ==
  ASSUME Typed, NEW c \in Slots, Begun(c), NEW d \in Slots, SyncStep(d)
  PROVE  GoesOn(c)
<1>2. CASE ApplyHcmBalance(d)
  <2>1. jobs[d].todo # <<>>
    BY <1>2, TypedIs, HasRecords DEF ApplyHcmBalance, At
  <2>2. PICK t \in LeaveTypes, days \in Int :
          t = Current(d).leaveType /\ days = Resolved(t, Current(d).balance)
    BY <2>1, TypedIs, CurrentRecord, ResolvedType
  <2>4. CASE Find(d, t, days)
    BY <2>1, <2>4, BatchAfterFind
  <2>5. CASE Waits(d, days)
    <3>1. d # c
      BY <1>2, BegunBatch DEF ApplyHcmBalance, At
    <3> QED BY <2>1, <2>5, <3>1, TypedIs, WaitsReplaces, BatchIsReplaced
  <2> QED BY <1>2, <2>2, <2>4, <2>5 DEF ApplyHcmBalance, Waits
<1>3. CASE FindRow(d)
  BY <1>3, TypedIs, HasRecords, CurrentRecord, BatchAfterFind DEF FindRow, At
<1>4. CASE UpsertBalance(d)
  BY <1>4, TypedIs, HasRecords, BatchAfterFail, BatchAfterGoOn DEF UpsertBalance, At
<1>5. CASE SaveFails(d)
  BY <1>5, TypedIs, HasRecords, BatchAfterFail DEF SaveFails
<1> QED BY <1>2, <1>3, <1>4, <1>5 DEF SyncStep

LEMMA BatchAfterHcmStep ==
  ASSUME Typed, NEW c \in Slots, Begun(c), NEW d \in Slots, HcmStep(d)
  PROVE  GoesOn(c)
<1>1. At(d, "idle")
  BY DEF HcmStep, HcmSendsBatch, SyncFromHcm, Start
<1>2. d # c
  BY <1>1, BegunBatch DEF At
<1>3. jobs'[c] = jobs[c]
  BY <1>2, TypedIs DEF HcmStep, HcmSendsBatch, SyncFromHcm, Start, TypeOK
<1> QED BY <1>3, OtherSlot

LEMMA BatchAfterDispatch ==
  ASSUME Typed, NEW c \in Slots, Begun(c), NEW ts, Dispatch(ts)
  PROVE  GoesOn(c)
<1>1. jobs'[c] = jobs[c]
  BY BegunBatch DEF Dispatch, At
<1> QED BY <1>1, OtherSlot

LEMMA BatchStep ==
  ASSUME Typed, Next, ~Crash, NEW c \in Slots, Begun(c)
  PROVE  GoesOn(c)
<1>1. CASE UNCHANGED jobs
  BY <1>1, OtherSlot
<1>2. CASE HcmAdjusts \/ TriggerAnniversary \/ TriggerYearRefresh
  BY <1>2, BatchAfterDispatch DEF HcmAdjusts, TriggerAnniversary, TriggerYearRefresh
<1>3. ASSUME NEW d \in Slots, HcmStep(d) \/ SyncStep(d) PROVE GoesOn(c)
  BY <1>3, BatchAfterHcmStep, BatchAfterSyncStep
<1> QED BY <1>1, <1>2, <1>3
        DEF Next, HcmResets, Approve, Cancel, Deduct, Credit, Post, Confirm, GiveUp, SettleAs

\* A record that throws costs a batch that record and no other, whoever works
\* on whatever else meanwhile (the try and catch of receiveBatch).
THEOREM BatchesGoOn == Spec => BatchGoesOn
<1> DEFINE Kept1 == \A c \in Slots : Begun(c) => Crash \/ GoesOn(c)
<1>1. Typed /\ [Next]_vars => [Kept1]_vars
  BY BatchStep
<1>2. [Kept1]_vars =>
        [\A c \in Slots :
           ( /\ jobs[c].kind = "batch"
             /\ jobs[c].pc \in {"find", "write"}
             /\ Len(jobs[c].todo) > 1 )
           => \/ Crash
              \/ jobs'[c].kind = "batch" /\ Len(jobs'[c].todo) >= Len(jobs[c].todo) - 1]_vars
  BY DEF Begun, GoesOn
<1> QED BY <1>1, <1>2, TypedHolds, PTL DEF Spec, BatchGoesOn
===============================================================================
