-------------------------- MODULE OutboxWorker_proofs --------------------------
(***************************************************************************)
(* Proofs that the safety properties of OutboxWorker hold for any number   *)
(* of events, ticks, retries and faults.                                   *)
(***************************************************************************)
EXTENDS OutboxWorker, FiniteSetTheorems, SequenceTheorems, TLAPS

Active(t) == runs[t].pc # "idle"

\* At most one run is active, and it holds the mutex.
Mutex ==
  /\ \A t \in Ticks : Active(t) => isRunning
  /\ \A s, t \in Ticks : Active(s) /\ Active(t) => s = t

\* Entities in memory and late posts belong to rows of the table.
InTable ==
  /\ \A t \in Ticks : Active(t) =>
       /\ runs[t].event.row \in DOMAIN outbox
       /\ \A d \in runs[t].todo : d.row \in DOMAIN outbox
  /\ \A i \in Rows : late[i] > 0 => i \in DOMAIN outbox

Inv1 == TypeOK /\ Mutex /\ InTable

(***************************************************************************)
(* Lemmas about the operators the actions are built from.                  *)
(***************************************************************************)
\* The rows of the table are an initial part of Rows.
LEMMA TableRows ==
  ASSUME TypeOK
  PROVE  DOMAIN outbox = 1..Len(outbox) /\ Len(outbox) \in Nat /\ DOMAIN outbox \subseteq Rows
  BY WorkerAssumption DEF TypeOK, Rows

\* Saving an entity writes its status and attempts, and nothing else.
LEMMA SavedEvent ==
  ASSUME TypeOK, NEW e \in Entity, SaveEntity(e)
  PROVE  /\ outbox' \in Seq(Event)
         /\ DOMAIN outbox' = DOMAIN outbox /\ Len(outbox') = Len(outbox)
         /\ \A i \in DOMAIN outbox : i # e.row => outbox'[i] = outbox[i]
         /\ e.row \in DOMAIN outbox =>
              /\ outbox'[e.row].status = e.status
              /\ outbox'[e.row].attempts = e.attempts
              /\ outbox'[e.row].newBalance = outbox[e.row].newBalance
<1>1. /\ DOMAIN outbox = 1..Len(outbox) /\ Len(outbox) \in Nat
      /\ \A i \in DOMAIN outbox : outbox[i] \in Event
  BY TableRows DEF TypeOK
<1>2. DOMAIN outbox' = 1..Len(outbox)
  BY <1>1 DEF SaveEntity
<1>3. \A i \in DOMAIN outbox : i # e.row => outbox'[i] = outbox[i]
  BY DEF SaveEntity
<1>4. ASSUME e.row \in DOMAIN outbox
      PROVE  /\ outbox'[e.row].status = e.status
             /\ outbox'[e.row].attempts = e.attempts
             /\ outbox'[e.row].newBalance = outbox[e.row].newBalance
             /\ outbox'[e.row] \in Event
  <2>1. outbox'[e.row] = [outbox[e.row] EXCEPT !.status = e.status, !.attempts = e.attempts]
    BY <1>4 DEF SaveEntity
  <2>2. outbox[e.row] \in Event /\ e.status \in OutboxStatuses /\ e.attempts \in Nat
    BY <1>1, <1>4 DEF Entity
  <2> QED BY <2>1, <2>2 DEF Event
<1>5. outbox' = [i \in 1..Len(outbox) |-> outbox'[i]]
  BY <1>2 DEF SaveEntity
<1>6. \A i \in 1..Len(outbox) : outbox'[i] \in Event
  BY <1>1, <1>3, <1>4
<1>7. outbox' \in Seq(Event)
  BY <1>1, <1>5, <1>6
<1>8. Len(outbox') = Len(outbox)
  BY <1>1, <1>2, <1>7
<1> QED BY <1>1, <1>2, <1>3, <1>4, <1>7, <1>8

\* A new event goes to the end of the table.
LEMMA EnqueuedEvent ==
  ASSUME TypeOK, Enqueue
  PROVE  /\ outbox' \in Seq(Event)
         /\ Len(outbox') = Len(outbox) + 1 /\ Len(outbox') <= MaxRows
         /\ DOMAIN outbox' = DOMAIN outbox \cup {Len(outbox) + 1}
         /\ \A i \in DOMAIN outbox : outbox'[i] = outbox[i]
         /\ outbox'[Len(outbox) + 1].status = "PENDING"
         /\ outbox'[Len(outbox) + 1].attempts = 0
<1>1. PICK e \in Entries : outbox' = Append(outbox, e)
  BY DEF Enqueue
<1>2. e \in Event /\ e.status = "PENDING" /\ e.attempts = 0
  BY WorkerAssumption DEF Event, OutboxStatuses
<1>3. outbox \in Seq(Event) /\ Len(outbox) < MaxRows /\ MaxRows \in Nat
  BY WorkerAssumption DEF TypeOK, Enqueue
<1> QED BY <1>1, <1>2, <1>3, TableRows

\* What Proceed does: the run ends, or posts the oldest event of the batch.
LEMMA Proceeds ==
  ASSUME runs \in [Ticks -> Run], NEW t \in Ticks, NEW batch \in SUBSET Entity, Proceed(t, batch)
  PROVE  /\ runs' \in [Ticks -> Run] /\ isRunning' \in BOOLEAN
         /\ \A s \in Ticks \ {t} : runs'[s] = runs[s]
         /\ \/ runs'[t] = Idle /\ runs'[t].pc = "idle"
            \/ /\ isRunning'
               /\ \E e \in batch :
                    /\ \A d \in batch : e.row <= d.row
                    /\ runs'[t].pc = "posting"
                    /\ runs'[t].event.row = e.row
                    /\ runs'[t].event.attempts = e.attempts + 1
                    /\ runs'[t].todo = batch \ {e}
<1>1. Idle \in Run /\ Idle.pc = "idle"
  BY DEF Idle, Run, NoEvent, Entity, OutboxStatuses
<1>2. CASE batch = {} /\ Finish(t)
  BY <1>1, <1>2 DEF Finish
<1>3. ASSUME NEW e \in batch, \A d \in batch : e.row <= d.row,
             runs' = [runs EXCEPT ![t] = [pc    |-> "posting",
                                          event |-> [e EXCEPT !.attempts = @ + 1],
                                          todo  |-> batch \ {e}]],
             isRunning' = TRUE
      PROVE  /\ runs' \in [Ticks -> Run]
             /\ \A s \in Ticks \ {t} : runs'[s] = runs[s]
             /\ runs'[t].pc = "posting"
             /\ runs'[t].event.row = e.row
             /\ runs'[t].event.attempts = e.attempts + 1
             /\ runs'[t].todo = batch \ {e}
  <2>1. [e EXCEPT !.attempts = @ + 1] = [row |-> e.row, status |-> e.status, attempts |-> e.attempts + 1]
    BY DEF Entity
  <2>2. [e EXCEPT !.attempts = @ + 1] \in Entity
    BY <2>1 DEF Entity
  <2>3. runs'[t] = [pc    |-> "posting", event |-> [e EXCEPT !.attempts = @ + 1],
                    todo  |-> batch \ {e}]
    BY <1>3
  <2>4. runs'[t] \in Run
    BY <2>2, <2>3 DEF Run
  <2> QED BY <1>3, <2>1, <2>3, <2>4
<1> QED BY <1>2, <1>3 DEF Proceed, Finish

\* find returns entities of rows of the table.
LEMMA BatchIsPending ==
  ASSUME TypeOK
  PROVE  /\ Batch \in SUBSET Entity
         /\ \A d \in Batch : /\ d.row \in DOMAIN outbox
                             /\ outbox[d.row].status = "PENDING"
                             /\ d.status = "PENDING"
                             /\ d.attempts = outbox[d.row].attempts
<1> SUFFICES ASSUME NEW d \in Batch
             PROVE  /\ d \in Entity /\ d.row \in DOMAIN outbox
                    /\ outbox[d.row].status = "PENDING" /\ d.status = "PENDING"
                    /\ d.attempts = outbox[d.row].attempts
  OBVIOUS
<1>1. PICK i \in Pending : d = [row |-> i, status |-> outbox[i].status, attempts |-> outbox[i].attempts]
  BY DEF Batch
<1>2. i \in DOMAIN outbox /\ outbox[i].status = "PENDING" /\ i \in Nat /\ outbox[i] \in Event
  BY <1>1, TableRows DEF Pending, TypeOK
<1> QED BY <1>1, <1>2 DEF Entity, Event

--------------------------------------------------------------------------------
(***************************************************************************)
(* Types, the mutex, and entities that belong to rows.                     *)
(***************************************************************************)
LEMMA Inv1Init == Init => Inv1
<1> SUFFICES ASSUME Init PROVE Inv1
  OBVIOUS
<1>1. Idle \in Run
  BY DEF Idle, Run, NoEvent, Entity, OutboxStatuses
<1>2. outbox \in Seq(Event) /\ Len(outbox) = 0
  BY DEF Init
<1>3. /\ runs \in [Ticks -> Run] /\ late \in [Rows -> Nat] /\ applied \in [Rows -> Nat]
      /\ isRunning \in BOOLEAN /\ hcm \in Nat \cup {NoRow}
  BY <1>1 DEF Init
<1>4. Len(outbox) <= MaxRows /\ faults \in 0..MaxFaults
  BY <1>2, WorkerAssumption DEF Init
<1>5. TypeOK
  BY <1>2, <1>3, <1>4 DEF TypeOK
<1> QED BY <1>5 DEF Init, Inv1, Mutex, InTable, Active, Idle

\* If only run t moves and it stays within its event, the mutex and the
\* entities are as before.
LEMMA RunMoves ==
  ASSUME Mutex, InTable, NEW t \in Ticks, Active(t),
         \A s \in Ticks \ {t} : runs'[s] = runs[s],
         runs'[t].event.row = runs[t].event.row, runs'[t].todo = runs[t].todo,
         isRunning' = isRunning, outbox' = outbox
  PROVE  /\ Mutex'
         /\ \A s \in Ticks : Active(s)' =>
              /\ runs'[s].event.row \in DOMAIN outbox'
              /\ \A d \in runs'[s].todo : d.row \in DOMAIN outbox'
  BY DEF Mutex, InTable, Active

\* A run that waits for HCM gets an answer or gives up.
LEMMA SettledRun ==
  ASSUME TypeOK, NEW t \in Ticks, NEW s \in OutboxStatuses, Settle(t, s)
  PROVE  /\ runs' \in [Ticks -> Run]
         /\ \A u \in Ticks \ {t} : runs'[u] = runs[u]
         /\ runs'[t].pc = "saving"
         /\ runs'[t].event.row = runs[t].event.row
         /\ runs'[t].event.attempts = runs[t].event.attempts
         /\ runs'[t].event.status = s
         /\ runs'[t].todo = runs[t].todo
<1>1. runs[t] \in Run
  BY DEF TypeOK
<1>2. runs'[t] = [runs[t] EXCEPT !.pc = "saving", !.event.status = s]
  BY DEF Settle, TypeOK
<1>3. /\ runs'[t].pc = "saving"
      /\ runs'[t].event = [runs[t].event EXCEPT !.status = s]
      /\ runs'[t].todo = runs[t].todo
  BY <1>1, <1>2 DEF Run
<1>4. [runs[t].event EXCEPT !.status = s] =
        [row |-> runs[t].event.row, status |-> s, attempts |-> runs[t].event.attempts]
  BY <1>1 DEF Run, Entity
<1>5. runs'[t].event \in Entity
  BY <1>1, <1>3, <1>4 DEF Run, Entity
<1>6. runs'[t] = [pc |-> "saving", event |-> runs'[t].event, todo |-> runs[t].todo]
  BY <1>1, <1>2, <1>3 DEF Run
<1>7. runs'[t] \in Run
  BY <1>1, <1>5, <1>6 DEF Run
<1> QED BY <1>3, <1>4, <1>7 DEF Settle, TypeOK

\* The statuses a failed post leads to.
LEMMA FailureStatus ==
  ASSUME NEW a \in Nat
  PROVE  /\ AfterFailure(a) \in OutboxStatuses
         /\ AfterFailure(a) = "FAILED" => a >= MaxRetries
         /\ AfterFailure(a) = "PENDING" => a < MaxRetries
         /\ AfterFailure(a) # "SENT"
  BY WorkerAssumption DEF AfterFailure, OutboxStatuses

LEMMA Inv1Enqueue == ASSUME Inv1, Enqueue PROVE Inv1'
<1>1. TypeOK'
  BY EnqueuedEvent DEF Inv1, Enqueue, TypeOK
<1>2. DOMAIN outbox \subseteq DOMAIN outbox'
  BY EnqueuedEvent DEF Inv1
<1>3. Mutex' /\ InTable'
  BY <1>2 DEF Inv1, Enqueue, Mutex, InTable, Active
<1> QED BY <1>1, <1>3 DEF Inv1

LEMMA Inv1Tick == ASSUME Inv1, NEW t \in Ticks, Tick(t) PROVE Inv1'
<1>1. /\ runs' \in [Ticks -> Run] /\ isRunning' \in BOOLEAN
      /\ \A s \in Ticks \ {t} : runs'[s] = runs[s]
      /\ \/ runs'[t].pc = "idle"
         \/ /\ isRunning'
            /\ runs'[t].event.row \in DOMAIN outbox
            /\ \A d \in runs'[t].todo : d.row \in DOMAIN outbox
  BY BatchIsPending, Proceeds DEF Inv1, TypeOK, Tick
<1>2. \A s \in Ticks : ~Active(s)
  BY DEF Inv1, Mutex, Tick
<1>3. TypeOK'
  BY <1>1 DEF Inv1, Tick, TypeOK
<1>4. Mutex' /\ InTable'
  BY <1>1, <1>2 DEF Inv1, Tick, Mutex, InTable, Active
<1> QED BY <1>3, <1>4 DEF Inv1

\* HCM stores a balance it accepts and counts the event.
LEMMA Stored ==
  ASSUME TypeOK, NEW i \in DOMAIN outbox, Accepts(i), HcmStores(i)
  PROVE  /\ hcm' \in Nat /\ applied' \in [Rows -> Nat] /\ applied'[i] > 0
         /\ \A j \in Rows : applied'[j] >= applied[j]
<1>1. outbox[i] \in Event /\ i \in Rows
  BY TableRows DEF TypeOK
<1> QED BY <1>1 DEF TypeOK, Accepts, HcmStores, Event

LEMMA Inv1PostArrives == ASSUME Inv1, NEW t \in Ticks, PostArrives(t) PROVE Inv1'
<1>1. Active(t) /\ Row(t) \in DOMAIN outbox
  BY DEF Inv1, InTable, PostArrives, At, Active, Row
<1>2. hcm' \in Nat /\ applied' \in [Rows -> Nat]
  BY <1>1, Stored DEF Inv1, PostArrives
<1>3. /\ runs' \in [Ticks -> Run]
      /\ \A s \in Ticks \ {t} : runs'[s] = runs[s]
      /\ runs'[t].event = runs[t].event /\ runs'[t].todo = runs[t].todo
  BY DEF Inv1, TypeOK, PostArrives, Move, Run
<1>4. TypeOK'
  BY <1>2, <1>3 DEF Inv1, TypeOK, PostArrives
<1>5. Mutex' /\ InTable'
  BY <1>1, <1>3, RunMoves DEF Inv1, PostArrives, InTable
<1> QED BY <1>4, <1>5 DEF Inv1

LEMMA Inv1LateArrives == ASSUME Inv1, NEW i \in Rows, LateArrives(i) PROVE Inv1'
<1>1. i \in DOMAIN outbox
  BY DEF Inv1, InTable, LateArrives
<1>2. late' \in [Rows -> Nat] /\ \A j \in Rows : late'[j] <= late[j]
  BY DEF Inv1, TypeOK, LateArrives
<1>3. hcm' \in Nat \cup {NoRow} /\ applied' \in [Rows -> Nat]
  BY <1>1, Stored DEF Inv1, TypeOK, LateArrives
<1>4. TypeOK'
  BY <1>2, <1>3 DEF Inv1, TypeOK, LateArrives
<1>5. Mutex' /\ InTable'
  BY <1>2 DEF Inv1, TypeOK, Mutex, InTable, Active, LateArrives
<1> QED BY <1>4, <1>5 DEF Inv1

LEMMA Inv1LateLost == ASSUME Inv1, NEW i \in Rows, LateLost(i) PROVE Inv1'
<1>1. late' \in [Rows -> Nat] /\ \A j \in Rows : late'[j] <= late[j]
  BY DEF Inv1, TypeOK, LateLost
<1>2. TypeOK'
  BY <1>1 DEF Inv1, TypeOK, LateLost
<1>3. Mutex' /\ InTable'
  BY <1>1 DEF Inv1, TypeOK, Mutex, InTable, Active, LateLost
<1> QED BY <1>2, <1>3 DEF Inv1

LEMMA Inv1PostEnds == ASSUME Inv1, NEW t \in Ticks, PostEnds(t) PROVE Inv1'
<1>1. Active(t) /\ Row(t) \in DOMAIN outbox /\ Row(t) \in Rows /\ runs[t].event.attempts \in Nat
  BY TableRows DEF Inv1, InTable, TypeOK, Run, Entity,
     PostEnds, PostSucceeds, PostRefused, PostTimesOut, At, Active, Row
<1>2. \E s \in OutboxStatuses : Settle(t, s)
  BY <1>1, FailureStatus DEF PostEnds, PostSucceeds, PostRefused, PostTimesOut, Fail, OutboxStatuses
<1>3. /\ runs' \in [Ticks -> Run]
      /\ \A s \in Ticks \ {t} : runs'[s] = runs[s]
      /\ runs'[t].event.row = runs[t].event.row /\ runs'[t].todo = runs[t].todo
  BY <1>2, SettledRun DEF Inv1
<1>4. late' \in [Rows -> Nat] /\ \A i \in Rows : late'[i] > 0 => i \in DOMAIN outbox
  BY <1>1 DEF Inv1, TypeOK, InTable, PostEnds, PostSucceeds, PostRefused, PostTimesOut
<1>5. /\ outbox' = outbox /\ isRunning' = isRunning
      /\ hcm' = hcm /\ applied' = applied /\ faults' = faults
  BY DEF PostEnds, PostSucceeds, PostRefused, PostTimesOut
<1>6. TypeOK'
  BY <1>3, <1>4, <1>5 DEF Inv1, TypeOK
<1>7. Mutex' /\ InTable'
  BY <1>1, <1>3, <1>4, <1>5, RunMoves DEF Inv1, InTable
<1> QED BY <1>6, <1>7 DEF Inv1

LEMMA Inv1SaveEvent == ASSUME Inv1, NEW t \in Ticks, SaveEvent(t) PROVE Inv1'
<1>1. runs[t].event \in Entity /\ runs[t].todo \in SUBSET Entity /\ Active(t)
  BY DEF Inv1, TypeOK, Run, SaveEvent, At, Active
<1>2. outbox' \in Seq(Event) /\ DOMAIN outbox' = DOMAIN outbox /\ Len(outbox') = Len(outbox)
  BY <1>1, SavedEvent DEF Inv1, SaveEvent
<1>3. /\ runs' \in [Ticks -> Run] /\ isRunning' \in BOOLEAN
      /\ \A s \in Ticks \ {t} : runs'[s] = runs[s]
      /\ \/ runs'[t].pc = "idle"
         \/ /\ isRunning'
            /\ runs'[t].event.row \in DOMAIN outbox
            /\ \A d \in runs'[t].todo : d.row \in DOMAIN outbox
  BY <1>1, Proceeds DEF Inv1, TypeOK, SaveEvent, InTable
<1>4. \A s \in Ticks \ {t} : ~Active(s)
  BY <1>1 DEF Inv1, Mutex
<1>5. TypeOK'
  BY <1>2, <1>3 DEF Inv1, SaveEvent, TypeOK
<1>6. Mutex' /\ InTable'
  BY <1>2, <1>3, <1>4 DEF Inv1, SaveEvent, Mutex, InTable, Active
<1> QED BY <1>5, <1>6 DEF Inv1

LEMMA Inv1SaveFails == ASSUME Inv1, NEW t \in Ticks, SaveFails(t) PROVE Inv1'
<1>1. runs[t].event \in Entity /\ Active(t)
  BY DEF Inv1, TypeOK, Run, SaveFails, At, Active
<1>2. outbox' \in Seq(Event) /\ DOMAIN outbox' = DOMAIN outbox /\ Len(outbox') = Len(outbox)
  BY <1>1, SavedEvent DEF Inv1, TypeOK, SaveFails
<1>3. Idle \in Run /\ Idle.pc = "idle"
  BY DEF Idle, Run, NoEvent, Entity, OutboxStatuses
<1>4. /\ runs' \in [Ticks -> Run] /\ isRunning' = FALSE /\ runs'[t].pc = "idle"
      /\ \A s \in Ticks \ {t} : runs'[s] = runs[s]
  BY <1>3 DEF Inv1, TypeOK, SaveFails, Finish
<1>5. \A s \in Ticks \ {t} : ~Active(s)
  BY <1>1 DEF Inv1, Mutex
<1>6. faults' \in 0..MaxFaults
  BY WorkerAssumption DEF Inv1, TypeOK, SaveFails
<1>7. TypeOK'
  BY <1>2, <1>4, <1>6 DEF Inv1, SaveFails, TypeOK
<1>8. Mutex' /\ InTable'
  BY <1>2, <1>4, <1>5 DEF Inv1, SaveFails, Mutex, InTable, Active
<1> QED BY <1>7, <1>8 DEF Inv1

LEMMA Inv1Crash == ASSUME Inv1, Crash PROVE Inv1'
<1> DEFINE Waiting(i) == {t \in Ticks : At(t, "posting") /\ Row(t) = i}
<1>1. \A i : Cardinality(Waiting(i)) \in Nat
  <2> SUFFICES ASSUME NEW i PROVE Cardinality(Waiting(i)) \in Nat
    OBVIOUS
  <2>1. IsFiniteSet(Waiting(i))
    BY WorkerAssumption, FS_Subset
  <2> QED BY <2>1, FS_CardinalityType
<1>2. \A i \in Rows : late'[i] = late[i] + Cardinality(Waiting(i))
  BY DEF Crash
<1>3. \A i \in Rows : late'[i] \in Nat
  <2> SUFFICES ASSUME NEW i \in Rows PROVE late'[i] \in Nat
    OBVIOUS
  <2>1. PICK n \in Nat : n = Cardinality(Waiting(i))
    BY <1>1
  <2>2. late[i] \in Nat /\ late'[i] = late[i] + n
    BY <1>2, <2>1 DEF Inv1, TypeOK
  <2> QED BY <2>2
<1>4. late' \in [Rows -> Nat]
  BY <1>3 DEF Crash
<1>5. ASSUME NEW i \in Rows, late'[i] > 0 PROVE i \in DOMAIN outbox
  <2>1. CASE late[i] > 0
    BY <2>1 DEF Inv1, InTable
  <2>2. CASE Waiting(i) # {}
    BY <2>2 DEF Inv1, InTable, Active, At, Row
  <2>3. CASE late[i] = 0 /\ Waiting(i) = {}
    <3>1. Cardinality(Waiting(i)) = 0
      BY <2>3, FS_EmptySet
    <3> QED BY <1>2, <1>5, <2>3, <3>1
  <2> QED BY <2>1, <2>2, <2>3 DEF Inv1, TypeOK
<1>6. Idle \in Run /\ Idle.pc = "idle"
  BY DEF Idle, Run, NoEvent, Entity, OutboxStatuses
<1>7. faults' \in 0..MaxFaults
  BY WorkerAssumption DEF Inv1, TypeOK, Crash
<1>8. TypeOK'
  BY <1>4, <1>6, <1>7 DEF Inv1, TypeOK, Crash
<1>9. Mutex' /\ InTable'
  BY <1>5, <1>6 DEF Crash, Mutex, InTable, Active
<1> QED BY <1>8, <1>9 DEF Inv1

LEMMA Inv1Step == Inv1 /\ [Next]_vars => Inv1'
<1> SUFFICES ASSUME Inv1, [Next]_vars PROVE Inv1'
  OBVIOUS
<1>1. CASE UNCHANGED vars
  BY <1>1 DEF vars, Inv1, TypeOK, Mutex, InTable, Active
<1>2. CASE Enqueue \/ Crash
  BY <1>2, Inv1Enqueue, Inv1Crash
<1>3. ASSUME NEW t \in Ticks, RunStep(t) PROVE Inv1'
  BY <1>3, Inv1Tick, Inv1PostArrives, Inv1PostEnds, Inv1SaveEvent, Inv1SaveFails DEF RunStep
<1>4. ASSUME NEW i \in Rows, LateArrives(i) \/ LateLost(i) PROVE Inv1'
  BY <1>4, Inv1LateArrives, Inv1LateLost
<1> QED BY <1>1, <1>2, <1>3, <1>4 DEF Next

LEMMA Inv1Invariance == Spec => []Inv1
  BY Inv1Init, Inv1Step, PTL DEF Spec

\* The table, the runs and HCM's row always hold values of their types: a
\* negative balance never reaches HCM's store.
THEOREM TypeCorrect == Spec => []TypeOK
<1>1. Inv1 => TypeOK
  BY DEF Inv1
<1> QED BY <1>1, Inv1Invariance, PTL

--------------------------------------------------------------------------------
(***************************************************************************)
(* What a run knows of the rows it works on, and the properties of rows.   *)
(***************************************************************************)
\* Every entity still to be processed is as find read it, ...
Unprocessed(batch) ==
  \A d \in batch :
    /\ d.row \in DOMAIN outbox /\ outbox[d.row].status = "PENDING"
    /\ d.status = "PENDING" /\ d.attempts = outbox[d.row].attempts

\* ... and every older row has been tried or is still in the batch.
InOrder(batch) ==
  \A d \in batch : \A i \in DOMAIN outbox :
    i < d.row => outbox[i].attempts > 0 \/ \E e \in batch : e.row = i

\* The event a run is processing: still PENDING in the table, older rows
\* tried, one attempt counted in memory only.
EventKnown(t) ==
  LET e == runs[t].event IN
  /\ outbox[e.row].status = "PENDING"
  /\ e.attempts = outbox[e.row].attempts + 1
  /\ \A i \in DOMAIN outbox : i < e.row => outbox[i].attempts > 0

\* The rest of its batch comes after that event.
BatchKnown(t) ==
  LET batch == runs[t].todo IN
  /\ Unprocessed(batch)
  /\ \A d \in batch : runs[t].event.row < d.row
  /\ \A d \in batch : \A i \in DOMAIN outbox :
       i < d.row => \/ outbox[i].attempts > 0
                    \/ i = runs[t].event.row
                    \/ \E e \in batch : e.row = i

\* What a run is about to save is true.
OutcomeKnown(t) ==
  LET e == runs[t].event IN
  /\ At(t, "answered") => applied[e.row] > 0
  /\ At(t, "saving") => /\ e.status = "SENT" => applied[e.row] > 0
                        /\ e.status = "FAILED" => e.attempts >= MaxRetries
                        /\ e.status = "PENDING" => e.attempts < MaxRetries

Known(t) == Active(t) => EventKnown(t) /\ BatchKnown(t) /\ OutcomeKnown(t)

\* A settled event was tried.
SettledTried == \A i \in DOMAIN outbox : outbox[i].status # "PENDING" => outbox[i].attempts > 0

RowsOK == SentWasApplied /\ OldestFirst /\ RetriesAreCounted /\ SettledTried

Inv2 == Inv1 /\ (\A t \in Ticks : Known(t)) /\ RowsOK

LEMMA Inv2Init == Init => Inv2
  BY Inv1Init DEF Init, Inv2, Known, Active, Idle, RowsOK, SentWasApplied, OldestFirst,
                  RetriesAreCounted, SettledTried

\* Proceeding with a batch that is known leaves a run that is known.
LEMMA ProceedKnown ==
  ASSUME runs \in [Ticks -> Run], NEW t \in Ticks, NEW batch \in SUBSET Entity,
         Proceed(t, batch), Unprocessed(batch)', InOrder(batch)'
  PROVE  Known(t)'
<1>1. CASE runs'[t].pc = "idle"
  BY <1>1 DEF Known, Active
<1>2. ASSUME NEW e \in batch,
             \A d \in batch : e.row <= d.row,
             runs'[t].pc = "posting", runs'[t].event.row = e.row,
             runs'[t].event.attempts = e.attempts + 1, runs'[t].todo = batch \ {e}
      PROVE  Known(t)'
  <2>1. \A d \in batch : /\ d.row \in Nat /\ d.attempts \in Nat
                         /\ d = [row |-> d.row, status |-> d.status, attempts |-> d.attempts]
    BY DEF Entity
  <2>2. EventKnown(t)'
    <3>1. outbox'[e.row].status = "PENDING" /\ e.attempts = outbox'[e.row].attempts
      BY DEF Unprocessed
    <3>2. \A i \in DOMAIN outbox' : i < e.row => outbox'[i].attempts > 0
      <4> SUFFICES ASSUME NEW i \in DOMAIN outbox', i < e.row, NEW c \in batch, c.row = i
                   PROVE  FALSE
        BY DEF InOrder
      <4> QED BY <1>2, <2>1
    <3> QED BY <1>2, <3>1, <3>2 DEF EventKnown
  <2>3. \A d \in batch \ {e} : e.row < d.row
    <3> SUFFICES ASSUME NEW d \in batch, d.row = e.row PROVE d = e
      BY <1>2, <2>1
    <3>1. d.status = e.status /\ d.attempts = e.attempts
      BY DEF Unprocessed
    <3> QED BY <2>1, <3>1
  <2>4. Unprocessed(batch \ {e})'
    BY DEF Unprocessed
  <2>5. \A d \in batch \ {e} : \A i \in DOMAIN outbox' :
          i < d.row => \/ outbox'[i].attempts > 0
                       \/ i = e.row
                       \/ \E c \in batch \ {e} : c.row = i
    BY DEF InOrder
  <2>6. BatchKnown(t)'
    BY <1>2, <2>3, <2>4, <2>5 DEF BatchKnown, Unprocessed
  <2>7. OutcomeKnown(t)'
    BY <1>2 DEF OutcomeKnown, At
  <2> QED BY <2>2, <2>6, <2>7 DEF Known
<1> QED BY <1>1, <1>2, Proceeds

\* find leaves out no PENDING row older than one it returns.
LEMMA BatchInOrder == ASSUME Inv2 PROVE InOrder(Batch)
<1> SUFFICES ASSUME NEW d \in Batch, NEW i \in DOMAIN outbox, i < d.row, ~(outbox[i].attempts > 0)
             PROVE  \E e \in Batch : e.row = i
  BY DEF InOrder
<1> DEFINE UpTo(j) == {h \in Pending : h <= j}
<1>1. PICK j \in Pending : d.row = j /\ Cardinality(UpTo(j)) <= BatchSize
  BY DEF Batch
<1>2. i \in Pending
  BY DEF Inv2, RowsOK, SettledTried, Pending
<1>3. i \in Nat /\ j \in Nat /\ i < j
  BY <1>1, <1>2, TableRows DEF Inv2, Inv1, Pending
<1>4. Cardinality(UpTo(i)) <= BatchSize
  <2>1. UpTo(i) \subseteq UpTo(j)
    <3> SUFFICES ASSUME NEW h \in Pending, h <= i PROVE h <= j
      OBVIOUS
    <3>1. h \in Nat
      BY TableRows DEF Inv2, Inv1, Pending
    <3> QED BY <1>3, <3>1
  <2>2. IsFiniteSet(UpTo(j))
    <3>1. UpTo(j) \subseteq 1..Len(outbox) /\ Len(outbox) \in Nat
      BY TableRows DEF Inv2, Inv1, Pending
    <3>2. IsFiniteSet(1..Len(outbox))
      BY <3>1, FS_Interval
    <3> QED BY <3>1, <3>2, FS_Subset
  <2>3. /\ Cardinality(UpTo(i)) \in Nat /\ Cardinality(UpTo(j)) \in Nat
        /\ Cardinality(UpTo(i)) <= Cardinality(UpTo(j))
    BY <2>1, <2>2, FS_Subset, FS_CardinalityType
  <2>4. PICK m \in Nat, n \in Nat : m = Cardinality(UpTo(i)) /\ n = Cardinality(UpTo(j))
    BY <2>3
  <2> QED BY <1>1, <2>3, <2>4, WorkerAssumption
<1> DEFINE e == [row |-> i, status |-> outbox[i].status, attempts |-> outbox[i].attempts]
<1>5. e \in Batch
  BY <1>2, <1>4 DEF Batch
<1> QED BY <1>5

\* Runs that do not move know what they knew while the rows stay.
LEMMA StillKnown ==
  ASSUME Inv1, NEW t \in Ticks, Known(t), runs'[t] = runs[t], outbox' = outbox,
         \A i \in Rows : applied[i] > 0 => applied'[i] > 0
  PROVE  Known(t)'
<1>1. Active(t) => runs[t].event.row \in Rows
  BY TableRows DEF Inv1, InTable
<1> QED BY <1>1 DEF Known, Active, EventKnown, BatchKnown, Unprocessed, OutcomeKnown, At

\* The rows keep their properties while they stay.
LEMMA StillRowsOK ==
  ASSUME Inv1, RowsOK, outbox' = outbox, \A i \in Rows : applied[i] > 0 => applied'[i] > 0
  PROVE  RowsOK'
  BY TableRows DEF Inv1, RowsOK, SentWasApplied, OldestFirst, RetriesAreCounted, SettledTried

LEMMA Inv2Enqueue == ASSUME Inv2, Enqueue PROVE Inv2'
<1>1. Inv1'
  BY Inv1Enqueue DEF Inv2
<1> DEFINE n == Len(outbox) + 1
<1>2. /\ DOMAIN outbox' = DOMAIN outbox \cup {n}
      /\ \A i \in DOMAIN outbox : outbox'[i] = outbox[i]
      /\ outbox'[n].status = "PENDING" /\ outbox'[n].attempts = 0
      /\ \A i \in DOMAIN outbox : i \in Nat /\ i < n
      /\ n \in Nat
  BY EnqueuedEvent, TableRows DEF Inv2, Inv1
<1> HIDE DEF n
<1>3. runs' = runs /\ applied' = applied
  BY DEF Enqueue
<1>4. ASSUME NEW t \in Ticks PROVE Known(t)'
  <2> SUFFICES ASSUME Active(t) PROVE EventKnown(t)' /\ BatchKnown(t)' /\ OutcomeKnown(t)'
    BY <1>3 DEF Known, Active
  <2>1. /\ EventKnown(t) /\ BatchKnown(t) /\ OutcomeKnown(t)
        /\ runs[t].event.row \in DOMAIN outbox
        /\ \A d \in runs[t].todo : d.row \in DOMAIN outbox
    BY DEF Inv2, Known, Inv1, InTable
  <2>2. EventKnown(t)'
    BY <1>2, <1>3, <2>1 DEF EventKnown
  <2>3. BatchKnown(t)'
    BY <1>2, <1>3, <2>1 DEF BatchKnown, Unprocessed
  <2>4. OutcomeKnown(t)'
    BY <1>3, <2>1 DEF OutcomeKnown, At
  <2> QED BY <2>2, <2>3, <2>4
<1>5. RowsOK'
  <2>1. SentWasApplied'
    BY <1>2, <1>3 DEF Inv2, RowsOK, SentWasApplied
  <2>2. OldestFirst'
    BY <1>2 DEF Inv2, RowsOK, OldestFirst
  <2>3. RetriesAreCounted'
    BY <1>2, WorkerAssumption DEF Inv2, RowsOK, RetriesAreCounted
  <2>4. SettledTried'
    BY <1>2 DEF Inv2, RowsOK, SettledTried
  <2> QED BY <2>1, <2>2, <2>3, <2>4 DEF RowsOK
<1> QED BY <1>1, <1>4, <1>5 DEF Inv2

LEMMA Inv2Tick == ASSUME Inv2, NEW t \in Ticks, Tick(t) PROVE Inv2'
<1>1. Inv1'
  BY Inv1Tick DEF Inv2
<1>2. PICK batch \in SUBSET Entity : batch = Batch
  BY BatchIsPending DEF Inv2, Inv1
<1>3. Unprocessed(batch) /\ InOrder(batch)
  BY <1>2, BatchIsPending, BatchInOrder DEF Inv2, Inv1, Unprocessed
<1>4. Unprocessed(batch)' /\ InOrder(batch)'
  BY <1>3 DEF Unprocessed, InOrder, Tick
<1>5. Known(t)'
  BY <1>2, <1>4, ProceedKnown DEF Inv2, Inv1, TypeOK, Tick
<1>6. \A s \in Ticks \ {t} : Known(s)'
  <2>1. \A s \in Ticks \ {t} : runs'[s] = runs[s]
    BY <1>2, Proceeds DEF Inv2, Inv1, TypeOK, Tick
  <2> QED BY <2>1, StillKnown DEF Inv2, Tick
<1>7. RowsOK'
  BY StillRowsOK DEF Inv2, Tick
<1> QED BY <1>1, <1>5, <1>6, <1>7 DEF Inv2

LEMMA Inv2PostArrives == ASSUME Inv2, NEW t \in Ticks, PostArrives(t) PROVE Inv2'
<1>1. Inv1'
  BY Inv1PostArrives DEF Inv2
<1>2. Active(t) /\ Row(t) \in DOMAIN outbox
  BY DEF Inv2, Inv1, InTable, PostArrives, At, Active, Row
<1>3. applied'[Row(t)] > 0 /\ \A i \in Rows : applied[i] > 0 => applied'[i] > 0
  <2>1. TypeOK /\ applied'[Row(t)] > 0 /\ \A i \in Rows : applied'[i] >= applied[i]
    BY <1>2, Stored DEF Inv2, Inv1, PostArrives
  <2> QED BY <2>1, <1>1 DEF Inv1, TypeOK
<1>4. /\ \A s \in Ticks \ {t} : runs'[s] = runs[s]
      /\ runs'[t].event = runs[t].event /\ runs'[t].todo = runs[t].todo
      /\ runs'[t].pc = "answered"
  BY DEF Inv2, Inv1, TypeOK, PostArrives, Move, Run
<1>5. Known(t)'
  <2>1. Known(t) /\ outbox' = outbox
    BY DEF Inv2, PostArrives
  <2> QED BY <1>2, <1>3, <1>4, <2>1
          DEF Known, Active, EventKnown, BatchKnown, Unprocessed, OutcomeKnown, At, Row
<1>6. \A s \in Ticks \ {t} : Known(s)'
  BY <1>3, <1>4, StillKnown DEF Inv2, PostArrives
<1>7. RowsOK'
  BY <1>3, StillRowsOK DEF Inv2, PostArrives
<1> QED BY <1>1, <1>5, <1>6, <1>7 DEF Inv2

LEMMA Inv2Late == ASSUME Inv2, NEW i \in Rows, LateArrives(i) \/ LateLost(i) PROVE Inv2'
<1>1. Inv1'
  BY Inv1LateArrives, Inv1LateLost DEF Inv2
<1>2. outbox' = outbox /\ runs' = runs
  BY DEF LateArrives, LateLost
<1>3. \A j \in Rows : applied[j] > 0 => applied'[j] > 0
  <2>1. CASE applied' = applied
    BY <2>1
  <2>2. CASE Accepts(i) /\ HcmStores(i) /\ i \in DOMAIN outbox
    <3>1. \A j \in Rows : applied'[j] >= applied[j]
      BY <2>2, Stored DEF Inv2, Inv1
    <3> QED BY <3>1, <1>1 DEF Inv2, Inv1, TypeOK
  <2> QED BY <2>1, <2>2 DEF Inv2, Inv1, InTable, LateArrives, LateLost
<1>4. \A t \in Ticks : Known(t)'
  BY <1>2, <1>3, StillKnown DEF Inv2
<1>5. RowsOK'
  BY <1>2, <1>3, StillRowsOK DEF Inv2
<1> QED BY <1>1, <1>4, <1>5 DEF Inv2

LEMMA Inv2PostEnds == ASSUME Inv2, NEW t \in Ticks, PostEnds(t) PROVE Inv2'
<1>1. Inv1'
  BY Inv1PostEnds DEF Inv2
<1>2. outbox' = outbox /\ applied' = applied
  BY DEF PostEnds, PostSucceeds, PostRefused, PostTimesOut
<1>3. Active(t) /\ runs[t].event.attempts \in Nat
  BY DEF Inv2, Inv1, TypeOK, Run, Entity, PostEnds, PostSucceeds, PostRefused, PostTimesOut,
         At, Active
<1>4. \E s \in OutboxStatuses :
        /\ Settle(t, s)
        /\ s = "SENT" => applied[Row(t)] > 0
        /\ s = "FAILED" => runs[t].event.attempts >= MaxRetries
        /\ s = "PENDING" => runs[t].event.attempts < MaxRetries
  <2>1. CASE PostSucceeds(t)
    <3>1. applied[Row(t)] > 0
      BY <1>3, <2>1 DEF Inv2, Known, OutcomeKnown, PostSucceeds, Row
    <3> QED BY <2>1, <3>1 DEF PostSucceeds, OutboxStatuses
  <2>2. CASE Fail(t)
    BY <1>3, <2>2, FailureStatus DEF Fail
  <2> QED BY <2>1, <2>2 DEF PostEnds, PostRefused, PostTimesOut
<1>5. PICK s \in OutboxStatuses :
        /\ Settle(t, s)
        /\ s = "SENT" => applied[Row(t)] > 0
        /\ s = "FAILED" => runs[t].event.attempts >= MaxRetries
        /\ s = "PENDING" => runs[t].event.attempts < MaxRetries
  BY <1>4
<1>6. /\ \A u \in Ticks \ {t} : runs'[u] = runs[u]
      /\ runs'[t].pc = "saving"
      /\ runs'[t].event.row = runs[t].event.row
      /\ runs'[t].event.attempts = runs[t].event.attempts
      /\ runs'[t].event.status = s
      /\ runs'[t].todo = runs[t].todo
  BY <1>5, SettledRun DEF Inv2, Inv1
<1>7. Known(t)'
  <2>1. EventKnown(t) /\ BatchKnown(t)
    BY <1>3 DEF Inv2, Known
  <2>2. EventKnown(t)' /\ BatchKnown(t)'
    BY <1>2, <1>6, <2>1 DEF EventKnown, BatchKnown, Unprocessed
  <2>3. OutcomeKnown(t)'
    BY <1>2, <1>5, <1>6 DEF OutcomeKnown, At, Row
  <2> QED BY <2>2, <2>3 DEF Known
<1>8. \A u \in Ticks \ {t} : Known(u)'
  BY <1>2, <1>6, StillKnown DEF Inv2
<1>9. RowsOK'
  BY <1>2, StillRowsOK DEF Inv2
<1> QED BY <1>1, <1>7, <1>8, <1>9 DEF Inv2

\* Saving a known event keeps the properties of the rows.
LEMMA SavedRowsOK ==
  ASSUME Inv2, NEW t \in Ticks, At(t, "saving"), SaveEntity(runs[t].event), applied' = applied
  PROVE  RowsOK'
<1>1. PICK e \in Entity : e = runs[t].event
  BY DEF Inv2, Inv1, TypeOK, Run
<1>2. /\ EventKnown(t) /\ OutcomeKnown(t)
      /\ e.row \in DOMAIN outbox /\ e.row \in Nat /\ outbox[e.row].attempts \in Nat
  <2>1. Active(t) /\ EventKnown(t) /\ OutcomeKnown(t)
    BY DEF Inv2, Known, Active, At
  <2>2. e.row \in DOMAIN outbox
    BY <1>1, <2>1 DEF Inv2, Inv1, InTable
  <2>3. outbox[e.row] \in Event /\ e.row \in Nat
    BY <2>2, TableRows DEF Inv2, Inv1, TypeOK
  <2> QED BY <2>1, <2>2, <2>3 DEF Event
<1>3. /\ DOMAIN outbox' = DOMAIN outbox
      /\ \A i \in DOMAIN outbox : i # e.row => outbox'[i] = outbox[i]
      /\ outbox'[e.row].status = e.status
      /\ outbox'[e.row].attempts = e.attempts
  BY <1>1, <1>2, SavedEvent DEF Inv2, Inv1
<1>4. e.attempts > 0 /\ e.attempts \in Nat
  BY <1>1, <1>2 DEF EventKnown
<1>5. /\ e.status = "SENT" => applied[e.row] > 0
      /\ e.status = "FAILED" => e.attempts >= MaxRetries
      /\ e.status = "PENDING" => e.attempts < MaxRetries
  BY <1>1, <1>2 DEF OutcomeKnown
<1>6. outbox[e.row].status = "PENDING" /\ e.attempts = outbox[e.row].attempts + 1
  BY <1>1, <1>2 DEF EventKnown
<1>7. SentWasApplied'
  BY <1>3, <1>5 DEF Inv2, RowsOK, SentWasApplied
<1>8. OldestFirst'
  <2>1. \A i \in DOMAIN outbox : i < e.row => outbox[i].attempts > 0
    BY <1>1, <1>2 DEF EventKnown
  <2> QED BY <1>2, <1>3, <1>4, <2>1 DEF Inv2, RowsOK, OldestFirst
<1>9. RetriesAreCounted'
  <2>1. outbox[e.row].attempts < MaxRetries
    BY <1>2, <1>6 DEF Inv2, RowsOK, RetriesAreCounted
  <2>2. e.attempts <= MaxRetries
    BY <1>2, <1>6, <2>1, WorkerAssumption
  <2>3. e.status = "FAILED" => e.attempts = MaxRetries
    BY <1>4, <1>5, <2>2, WorkerAssumption
  <2> QED BY <1>3, <1>5, <2>3 DEF Inv2, RowsOK, RetriesAreCounted
<1>10. SettledTried'
  BY <1>3, <1>4 DEF Inv2, RowsOK, SettledTried
<1> QED BY <1>7, <1>8, <1>9, <1>10 DEF RowsOK

LEMMA Inv2SaveEvent == ASSUME Inv2, NEW t \in Ticks, SaveEvent(t) PROVE Inv2'
<1>1. Inv1'
  BY Inv1SaveEvent DEF Inv2
<1>2. PICK e \in Entity, batch \in SUBSET Entity : e = runs[t].event /\ batch = runs[t].todo
  BY DEF Inv2, Inv1, TypeOK, Run
<1>3. Active(t) /\ EventKnown(t) /\ BatchKnown(t) /\ e.row \in DOMAIN outbox
  <2>1. Active(t)
    BY DEF SaveEvent, At, Active
  <2> QED BY <1>2, <2>1 DEF Inv2, Inv1, InTable, Known
<1>4. /\ DOMAIN outbox' = DOMAIN outbox
      /\ \A i \in DOMAIN outbox : i # e.row => outbox'[i] = outbox[i]
      /\ outbox'[e.row].attempts = e.attempts
  BY <1>2, <1>3, SavedEvent DEF Inv2, Inv1, SaveEvent
<1>5. e.attempts > 0
  <2>1. outbox[e.row] \in Event
    BY <1>3, TableRows DEF Inv2, Inv1, TypeOK
  <2> QED BY <1>2, <1>3, <2>1 DEF EventKnown, Event
<1>6. Unprocessed(batch)'
  <2>1. \A d \in batch : d.row # e.row /\ d.row \in Nat
    BY <1>2, <1>3 DEF BatchKnown, Entity
  <2> QED BY <1>2, <1>3, <1>4, <2>1 DEF BatchKnown, Unprocessed
<1>7. InOrder(batch)'
  BY <1>2, <1>3, <1>4, <1>5 DEF BatchKnown, InOrder
<1>8. Known(t)'
  BY <1>2, <1>6, <1>7, ProceedKnown DEF Inv2, Inv1, TypeOK, SaveEvent
<1>9. \A s \in Ticks \ {t} : Known(s)'
  <2>1. \A s \in Ticks \ {t} : runs'[s] = runs[s] /\ ~Active(s)
    BY <1>2, <1>3, Proceeds DEF Inv2, Inv1, TypeOK, SaveEvent, Mutex
  <2> QED BY <2>1 DEF Known, Active
<1>10. RowsOK'
  BY SavedRowsOK DEF SaveEvent
<1> QED BY <1>1, <1>8, <1>9, <1>10 DEF Inv2

LEMMA Inv2SaveFails == ASSUME Inv2, NEW t \in Ticks, SaveFails(t) PROVE Inv2'
<1>1. Inv1'
  BY Inv1SaveFails DEF Inv2
<1>2. \A s \in Ticks : ~Active(s)'
  BY DEF Inv2, Inv1, TypeOK, Mutex, Active, SaveFails, At, Finish, Idle
<1>3. RowsOK'
  BY SavedRowsOK, StillRowsOK DEF Inv2, SaveFails
<1> QED BY <1>1, <1>2, <1>3 DEF Inv2, Known

LEMMA Inv2Crash == ASSUME Inv2, Crash PROVE Inv2'
<1>1. Inv1'
  BY Inv1Crash DEF Inv2
<1>2. \A s \in Ticks : ~Active(s)'
  BY DEF Crash, Active, Idle
<1>3. RowsOK'
  BY StillRowsOK DEF Inv2, Crash
<1> QED BY <1>1, <1>2, <1>3 DEF Inv2, Known

LEMMA Inv2Step == Inv2 /\ [Next]_vars => Inv2'
<1> SUFFICES ASSUME Inv2, [Next]_vars PROVE Inv2'
  OBVIOUS
<1>1. CASE UNCHANGED vars
  <2>1. outbox' = outbox /\ runs' = runs /\ applied' = applied /\ Inv1'
    BY <1>1, Inv1Step DEF vars, Inv2
  <2>2. \A t \in Ticks : Known(t)'
    BY <2>1, StillKnown DEF Inv2
  <2>3. RowsOK'
    BY <2>1, StillRowsOK DEF Inv2
  <2> QED BY <2>1, <2>2, <2>3 DEF Inv2
<1>2. CASE Enqueue \/ Crash
  BY <1>2, Inv2Enqueue, Inv2Crash
<1>3. ASSUME NEW t \in Ticks, RunStep(t) PROVE Inv2'
  BY <1>3, Inv2Tick, Inv2PostArrives, Inv2PostEnds, Inv2SaveEvent, Inv2SaveFails DEF RunStep
<1>4. ASSUME NEW i \in Rows, LateArrives(i) \/ LateLost(i) PROVE Inv2'
  BY <1>4, Inv2Late
<1> QED BY <1>1, <1>2, <1>3, <1>4 DEF Next

LEMMA Inv2Invariance == Spec => []Inv2
  BY Inv2Init, Inv2Step, PTL DEF Spec

--------------------------------------------------------------------------------
\* An event marked SENT was applied by HCM, for any number of crashes,
\* timeouts, late posts and failed saves.
THEOREM SentIsDelivered == Spec => []SentWasApplied
<1>1. Inv2 => SentWasApplied
  BY DEF Inv2, RowsOK
<1> QED BY <1>1, Inv2Invariance, PTL

\* Events are tried in the order in which the transactions wrote them.
THEOREM EventsInOrder == Spec => []OldestFirst
<1>1. Inv2 => OldestFirst
  BY DEF Inv2, RowsOK
<1> QED BY <1>1, Inv2Invariance, PTL

\* An event is given up after exactly MaxRetries counted attempts.
THEOREM RetriesAreBounded == Spec => []RetriesAreCounted
<1>1. Inv2 => RetriesAreCounted
  BY DEF Inv2, RowsOK
<1> QED BY <1>1, Inv2Invariance, PTL

\* A save changes a PENDING row only.
LEMMA SavesPending ==
  ASSUME Inv2, NEW t \in Ticks, At(t, "saving"), SaveEntity(runs[t].event),
         NEW i \in DOMAIN outbox, outbox[i].status # "PENDING"
  PROVE  outbox'[i] = outbox[i]
<1>1. runs[t].event \in Entity /\ outbox[runs[t].event.row].status = "PENDING"
  BY DEF Inv2, Known, Active, At, EventKnown, Inv1, TypeOK, Run
<1> QED BY <1>1, SavedEvent DEF Inv2, Inv1

\* SENT and FAILED are final: no run saves an older entity over them.
THEOREM SettledIsFinal == Spec => SettledForGood
<1>1. Inv2 /\ [Next]_vars =>
        [\A i \in DOMAIN outbox : outbox[i].status # "PENDING" => outbox'[i] = outbox[i]]_vars
  <2> SUFFICES ASSUME Inv2, [Next]_vars, NEW i \in DOMAIN outbox, outbox[i].status # "PENDING"
               PROVE  outbox'[i] = outbox[i]
    OBVIOUS
  <2>1. CASE outbox' = outbox
    BY <2>1
  <2>2. CASE Enqueue
    BY <2>2, EnqueuedEvent DEF Inv2, Inv1
  <2>3. ASSUME NEW t \in Ticks, SaveEvent(t) \/ SaveFails(t) PROVE outbox'[i] = outbox[i]
    BY <2>3, SavesPending DEF SaveEvent, SaveFails
  <2> QED BY <2>1, <2>2, <2>3 DEF vars, Next, RunStep, Tick, PostArrives, PostEnds, PostSucceeds,
                                  PostRefused, PostTimesOut, LateArrives, LateLost, Crash
<1> QED BY <1>1, Inv2Invariance, PTL DEF Spec, SettledForGood

(***************************************************************************)
(* OutboxWorker implements Delivery.                                       *)
(***************************************************************************)
\* A table of events, as Delivery sees it.
Announcements(table) ==
  [i \in DOMAIN table |-> [row        |-> "balance",
                          newBalance |-> table[i].newBalance,
                          status     |-> table[i].status]]

\* HCM applies only events that are in the table.
AppliedInTable == \A i \in Rows : applied[i] > 0 => i \in DOMAIN outbox

Inv3 == Inv2 /\ AppliedInTable

(***************************************************************************)
(* The invariant.                                                          *)
(***************************************************************************)
\* The table only grows.
LEMMA RowsStay == ASSUME Inv2, [Next]_vars PROVE DOMAIN outbox \subseteq DOMAIN outbox'
<1>1. CASE outbox' = outbox
  BY <1>1
<1>2. CASE Enqueue
  BY <1>2, EnqueuedEvent, TableRows DEF Inv2, Inv1
<1>3. ASSUME NEW t \in Ticks, SaveEvent(t) \/ SaveFails(t) PROVE DOMAIN outbox \subseteq DOMAIN outbox'
  BY <1>3, SavedEvent DEF SaveEvent, SaveFails, Inv2, Inv1, TypeOK, Run
<1> QED BY <1>1, <1>2, <1>3 DEF vars, Next, RunStep, Tick, PostArrives, PostEnds, PostSucceeds,
                                PostRefused, PostTimesOut, LateArrives, LateLost, Crash

\* What HCM applies in a step is an event of the table.
LEMMA AppliedStays == ASSUME Inv3, [Next]_vars PROVE AppliedInTable'
<1>1. CASE applied' = applied
  BY <1>1, RowsStay DEF Inv3, AppliedInTable
<1>2. ASSUME NEW i \in DOMAIN outbox, HcmStores(i) PROVE AppliedInTable'
  BY <1>2, RowsStay DEF Inv3, AppliedInTable, HcmStores, Inv2, Inv1, TypeOK
<1>3. ASSUME NEW t \in Ticks, PostArrives(t) PROVE AppliedInTable'
  BY <1>2, <1>3 DEF PostArrives, At, Active, Row, Inv3, Inv2, Inv1, InTable
<1>4. ASSUME NEW i \in Rows, LateArrives(i) PROVE AppliedInTable'
  BY <1>1, <1>2, <1>4 DEF LateArrives, Inv3, Inv2, Inv1, InTable
<1> QED BY <1>1, <1>3, <1>4 DEF vars, Next, RunStep, Enqueue, Tick, PostEnds, PostSucceeds,
                                PostRefused, PostTimesOut, SaveEvent, SaveFails, LateLost, Crash

LEMMA Inv3Invariance == Spec => []Inv3
<1>1. Init => Inv3
  BY Inv2Init DEF Init, Inv3, AppliedInTable
<1>2. Inv3 /\ [Next]_vars => Inv3'
  BY Inv2Step, AppliedStays DEF Inv3
<1> QED BY <1>1, <1>2, PTL DEF Spec

(***************************************************************************)
(* Steps.                                                                  *)
(***************************************************************************)
LEMMA AnnouncedEvents ==
  ASSUME NEW table \in Seq(Event)
  PROVE  /\ Announcements(table) \in Seq(D!Event)
         /\ Len(Announcements(table)) = Len(table)
         /\ DOMAIN Announcements(table) = DOMAIN table
         /\ \A i \in DOMAIN table :
              /\ Announcements(table)[i].row = "balance"
              /\ Announcements(table)[i].newBalance = table[i].newBalance
              /\ Announcements(table)[i].status = table[i].status
<1> DEFINE ann(i) == [row |-> "balance", newBalance |-> table[i].newBalance,
                      status |-> table[i].status]
<1>1. DOMAIN table = 1..Len(table) /\ Len(table) \in Nat
  OBVIOUS
<1>2. \A i \in 1..Len(table) : ann(i) \in D!Event
  <2>1. \A i \in 1..Len(table) : table[i] \in Event
    OBVIOUS
  <2> QED BY <2>1 DEF D!Event, Event, OutboxStatuses
<1>3. Announcements(table) = [i \in 1..Len(table) |-> ann(i)]
  BY <1>1 DEF Announcements
<1> HIDE DEF ann
<1>4. Announcements(table) \in Seq(D!Event) /\ Len(Announcements(table)) = Len(table)
  BY <1>1, <1>2, <1>3
<1> QED BY <1>1, <1>3, <1>4 DEF ann

\* Both sides of a step.
LEMMA AnnouncedNow ==
  Announced = Announcements(outbox) /\ Announced' = Announcements(outbox')
BY DEF Announced, Announcements

\* The mapped initial states.
LEMMA InitMaps == Init => D!Init
<1> SUFFICES ASSUME Init PROVE D!Init
  OBVIOUS
<1>1. Announced = <<>>
  BY DEF Init, Announced
<1>2. [r \in {"balance"} |-> hcm] \in D!Balances
  BY DEF Init, D!Balances
<1>3. Posted = {}
  BY DEF Init, Posted, Pending
<1> QED BY <1>1, <1>2, <1>3 DEF D!Init

\* Only the events and HCM are visible.
LEMMA StutterMaps ==
  ASSUME UNCHANGED <<outbox, hcm, applied>>
  PROVE  UNCHANGED <<Announced, [r \in {"balance"} |-> hcm], Posted>>
BY DEF Announced, Posted, Pending

LEMMA EnqueueMaps == ASSUME Inv3, Enqueue PROVE D!Enqueue
<1> DEFINE n == Len(outbox) + 1
<1>1. /\ outbox \in Seq(Event) /\ outbox' \in Seq(Event)
      /\ Len(outbox') = n /\ Len(outbox) \in Nat
      /\ DOMAIN outbox' = DOMAIN outbox \cup {n} /\ DOMAIN outbox = 1..Len(outbox)
      /\ \A i \in DOMAIN outbox : outbox'[i] = outbox[i]
      /\ outbox'[n].status = "PENDING"
      /\ n \in Rows
  <2>1. Len(outbox') <= MaxRows /\ MaxRows \in Nat
    BY EnqueuedEvent, WorkerAssumption DEF Inv3, Inv2, Inv1
  <2> QED BY <2>1, EnqueuedEvent, TableRows DEF Inv3, Inv2, Inv1, TypeOK, Rows
<1>2. /\ Announced \in Seq(D!Event) /\ Announced' \in Seq(D!Event)
      /\ Len(Announced) = Len(outbox) /\ Len(Announced') = n
      /\ \A i \in DOMAIN outbox : Announced'[i] = Announced[i]
      /\ Announced'[n] \in D!Event /\ Announced'[n].status = "PENDING"
  <2>1. /\ Announced \in Seq(D!Event) /\ Announced' \in Seq(D!Event)
        /\ Len(Announced) = Len(outbox) /\ Len(Announced') = n
    BY <1>1, AnnouncedNow, AnnouncedEvents
  <2>2. \A i \in DOMAIN outbox : Announced'[i] = Announced[i]
    BY <1>1, AnnouncedNow DEF Announcements
  <2>3. Announced'[n] \in D!Event
    BY <1>1, <2>1, ElementOfSeq
  <2>4. Announced'[n].status = "PENDING"
    BY <1>1, AnnouncedNow, AnnouncedEvents
  <2> QED BY <2>1, <2>2, <2>3, <2>4
<1>3. Announced' = Append(Announced, Announced'[n])
  <2>1. Append(Announced, Announced'[n]) \in Seq(D!Event)
    BY <1>2, AppendProperties
  <2>2. Len(Append(Announced, Announced'[n])) = n
    BY <1>1, <1>2, AppendProperties
  <2>3. \A i \in 1..n : Announced'[i] = Append(Announced, Announced'[n])[i]
    BY <1>1, <1>2, AppendProperties
  <2> QED BY <1>2, <2>1, <2>2, <2>3, SeqEqual
<1>4. Posted' = Posted /\ hcm' = hcm
  <2>1. applied[n] = 0 /\ applied' = applied
    BY <1>1 DEF Inv3, Inv2, Inv1, TypeOK, AppliedInTable, Enqueue
  <2> QED BY <1>1, <2>1 DEF Posted, Pending, Enqueue
<1> QED BY <1>1, <1>2, <1>3, <1>4 DEF D!Enqueue

\* A post reaches HCM, whoever still waits for it.
LEMMA DeliverMaps ==
  ASSUME Inv3, NEW i \in DOMAIN outbox, Accepts(i), HcmStores(i), UNCHANGED outbox
  PROVE  i \in DOMAIN Announced /\ D!Deliver(i)
<1>1. /\ i \in Rows /\ outbox \in Seq(Event) /\ applied \in [Rows -> Nat]
      /\ DOMAIN outbox \subseteq Rows
  BY TableRows DEF Inv3, Inv2, Inv1, TypeOK
<1>2. /\ i \in DOMAIN Announced
      /\ Announced[i].row = "balance"
      /\ Announced[i].newBalance = outbox[i].newBalance
      /\ Announced[i].status = outbox[i].status
  BY <1>1, AnnouncedNow, AnnouncedEvents
<1>3. [r \in {"balance"} |-> hcm]' =
        [[r \in {"balance"} |-> hcm] EXCEPT !["balance"] = outbox[i].newBalance]
  BY DEF HcmStores
<1>4. Posted' = IF outbox[i].status = "PENDING" THEN Posted \cup {i} ELSE Posted
  BY <1>1 DEF HcmStores, Posted, Pending
<1>5. Announced' = Announced
  BY DEF Announced
<1> QED BY <1>2, <1>3, <1>4, <1>5 DEF D!Deliver, Accepts

\* A save confirms an event, gives it up, or only counts an attempt.
LEMMA SaveMaps ==
  ASSUME Inv3, NEW t \in Ticks, At(t, "saving"), SaveEntity(runs[t].event),
         UNCHANGED <<hcm, applied>>
  PROVE  \/ UNCHANGED <<Announced, [r \in {"balance"} |-> hcm], Posted>>
         \/ \E i \in DOMAIN Announced : D!Confirm(i) \/ D!GiveUp(i)
<1>1. PICK e \in Entity : e = runs[t].event
  BY DEF Inv3, Inv2, Inv1, TypeOK, Run
<1>2. /\ e.row \in DOMAIN outbox /\ outbox[e.row].status = "PENDING"
      /\ e.status = "SENT" => applied[e.row] > 0
      /\ e.status \in {"PENDING", "SENT", "FAILED"}
  BY <1>1 DEF Inv3, Inv2, Inv1, InTable, Known, Active, At, EventKnown, OutcomeKnown,
              Entity, OutboxStatuses
<1>3. /\ outbox \in Seq(Event) /\ outbox' \in Seq(Event)
      /\ DOMAIN outbox' = DOMAIN outbox
      /\ \A i \in DOMAIN outbox : i # e.row => outbox'[i] = outbox[i]
      /\ outbox'[e.row].status = e.status
      /\ outbox'[e.row].newBalance = outbox[e.row].newBalance
  BY <1>1, <1>2, SavedEvent DEF Inv3, Inv2, Inv1, TypeOK
<1>4. Announced' = [Announced EXCEPT ![e.row].status = e.status]
  BY <1>2, <1>3, AnnouncedNow DEF Announcements
<1>5. e.row \in DOMAIN Announced /\ Announced[e.row].status = "PENDING"
  BY <1>2, <1>3, AnnouncedNow, AnnouncedEvents
<1>6. e.status = "SENT" => e.row \in Posted
  BY <1>2 DEF Posted, Pending
<1>7. CASE e.status = "PENDING"
  <2>1. Announced' = Announced
    BY <1>2, <1>3, <1>7, AnnouncedNow DEF Announcements
  <2>2. Posted' = Posted
    BY <1>2, <1>3, <1>7 DEF Posted, Pending
  <2> QED BY <2>1, <2>2
<1>8. CASE e.status # "PENDING"
  <2>1. Posted' = Posted \ {e.row}
    BY <1>2, <1>3, <1>8 DEF Posted, Pending
  <2> QED BY <1>2, <1>4, <1>5, <1>6, <1>8, <2>1 DEF D!Confirm, D!GiveUp, D!SettleAs
<1> QED BY <1>7, <1>8

LEMMA StepMaps == Inv3 /\ [Next]_vars => [D!Next]_(D!vars)
<1> SUFFICES ASSUME Inv3, [Next]_vars PROVE [D!Next]_(D!vars)
  OBVIOUS
<1> USE DEF D!vars
<1>1. CASE UNCHANGED <<outbox, hcm, applied>>
  BY <1>1, StutterMaps
<1>2. CASE Enqueue
  BY <1>2, EnqueueMaps DEF D!Next
<1>3. ASSUME NEW t \in Ticks, PostArrives(t) PROVE D!Next
  <2>1. Row(t) \in DOMAIN outbox
    BY <1>3 DEF PostArrives, At, Active, Row, Inv3, Inv2, Inv1, InTable
  <2> QED BY <1>3, <2>1, DeliverMaps DEF PostArrives, D!Next
<1>4. ASSUME NEW i \in Rows, LateArrives(i) PROVE [D!Next]_(D!vars)
  <2>1. i \in DOMAIN outbox
    BY <1>4 DEF LateArrives, Inv3, Inv2, Inv1, InTable
  <2> QED BY <1>1, <1>4, <2>1, DeliverMaps DEF LateArrives, D!Next
<1>5. ASSUME NEW t \in Ticks, SaveEvent(t) \/ SaveFails(t) PROVE [D!Next]_(D!vars)
  BY <1>1, <1>5, SaveMaps DEF SaveEvent, SaveFails, D!Next
<1> QED BY <1>1, <1>2, <1>3, <1>4, <1>5
        DEF vars, Next, RunStep, Tick, PostEnds, PostSucceeds, PostRefused, PostTimesOut,
            LateLost, Crash

\* For any batch size, number of retries and faults, the worker confirms
\* nothing HCM has not stored, settles an event once, and leaves what an
\* event announces alone.
THEOREM WorkerImplementsDelivery == Spec => ImplementsDelivery
<1>1. Init => D!Init
  BY InitMaps
<1>2. Inv3 /\ [Next]_vars => [D!Next]_(D!vars)
  BY StepMaps
<1> QED BY <1>1, <1>2, Inv3Invariance, PTL DEF Spec, ImplementsDelivery, D!Spec

--------------------------------------------------------------------------------
(***************************************************************************)
(* What repeats cost: RepeatsAreBounded and NewestUnlessRepeated.          *)
(***************************************************************************)
\* Run t has posted event i, and the attempt is not saved yet.
PostedBy(t, i) == (At(t, "answered") \/ At(t, "saving")) /\ Row(t) = i

\* What HCM got of an event, or may still get, is a counted attempt, the one
\* that the active run is about to count, or one that a fault forgot.
PostsCounted ==
  \A i \in DOMAIN outbox :
    /\ outbox[i].attempts <= MaxRetries
    /\ \/ applied[i] + late[i] <= outbox[i].attempts + faults
       \/ /\ \E t \in Ticks : PostedBy(t, i)
          /\ applied[i] + late[i] <= outbox[i].attempts + 1 + faults

\* Of whatever HCM got, or may still get, every older event was tried.
PostedInOrder ==
  \A k \in DOMAIN outbox : applied[k] + late[k] > 0 =>
    \A i \in DOMAIN outbox : i < k => outbox[i].attempts > 0

\* Every event tried was sent at its first attempt, and none came twice.
Smooth ==
  \A i \in DOMAIN outbox :
    /\ outbox[i].attempts <= 1 /\ applied[i] <= 1
    /\ outbox[i].attempts = 1 => outbox[i].status = "SENT"

\* Event j is the newest that HCM applied.
NewestApplied(j) ==
  applied[j] > 0 /\ \A k \in DOMAIN outbox : j < k => applied[k] = 0

SmoothNewest ==
  Smooth => \A j \in DOMAIN outbox : NewestApplied(j) => hcm = outbox[j].newBalance

Repeats == PostsCounted /\ PostedInOrder /\ SmoothNewest

Inv4 == Inv3 /\ Repeats

\* The counters of a row are numbers.
LEMMA RowNumbers ==
  ASSUME TypeOK
  PROVE  /\ faults \in Nat
         /\ \A i \in DOMAIN outbox :
              i \in Rows /\ applied[i] \in Nat /\ late[i] \in Nat /\ outbox[i].attempts \in Nat
<1>1. \A i \in DOMAIN outbox : i \in Rows /\ outbox[i] \in Event
  BY TableRows DEF TypeOK
<1> QED BY <1>1, WorkerAssumption DEF TypeOK, Event

\* What an active run knows of the event it is at.
LEMMA ActiveRow ==
  ASSUME Inv3, NEW t \in Ticks, Active(t)
  PROVE  /\ Row(t) \in DOMAIN outbox /\ Row(t) \in Rows
         /\ outbox[Row(t)].status = "PENDING"
         /\ runs[t].event \in Entity
         /\ runs[t].event.attempts = outbox[Row(t)].attempts + 1
         /\ \A i \in DOMAIN outbox : i < Row(t) => outbox[i].attempts > 0
         /\ \A s \in Ticks : Active(s) => s = t
BY TableRows DEF Inv3, Inv2, Inv1, TypeOK, Run, Mutex, InTable, Known, EventKnown, Row

\* While no run has posted event i unsaved, its posts are counted in the table.
LEMMA CountedInTable ==
  ASSUME Inv4, NEW i \in DOMAIN outbox, \A t \in Ticks : ~PostedBy(t, i)
  PROVE  applied[i] + late[i] <= outbox[i].attempts + faults
BY DEF Inv4, Repeats, PostsCounted

\* While the events stay, and no late post appears from nowhere, order and
\* balance are as they were.
LEMMA OrderStays ==
  ASSUME Inv4, outbox' = outbox, hcm' = hcm, applied' = applied, late' \in [Rows -> Nat],
         \A k \in DOMAIN outbox : late'[k] > 0 =>
           late[k] > 0 \/ \E t \in Ticks : Active(t) /\ Row(t) = k
  PROVE  PostedInOrder' /\ SmoothNewest'
<1>1. PostedInOrder'
  <2> SUFFICES ASSUME NEW k \in DOMAIN outbox, applied[k] + late'[k] > 0,
                      NEW i \in DOMAIN outbox, i < k
               PROVE  outbox[i].attempts > 0
    BY DEF PostedInOrder
  <2>1. applied[k] \in Nat /\ late[k] \in Nat /\ late'[k] \in Nat
    BY RowNumbers DEF Inv4, Inv3, Inv2, Inv1
  <2>2. CASE applied[k] + late[k] > 0
    BY <2>2 DEF Inv4, Repeats, PostedInOrder
  <2>3. CASE late'[k] > 0 /\ ~(late[k] > 0)
    BY <2>3, ActiveRow DEF Inv4
  <2> QED BY <2>1, <2>2, <2>3
<1>2. SmoothNewest'
  BY DEF Inv4, Repeats, SmoothNewest, Smooth, NewestApplied
<1> QED BY <1>1, <1>2

\* HCM stores event i, which was tried in order.
LEMMA OrderWhenStored ==
  ASSUME Inv4, NEW i \in DOMAIN outbox, HcmStores(i), outbox' = outbox,
         late' \in [Rows -> Nat], \A k \in Rows : late'[k] <= late[k],
         \A h \in DOMAIN outbox : h < i => outbox[h].attempts > 0
  PROVE  PostedInOrder' /\ SmoothNewest'
<1>1. /\ i \in Rows /\ applied'[i] = applied[i] + 1
      /\ \A k \in DOMAIN outbox : k # i => applied'[k] = applied[k]
      /\ hcm' = outbox[i].newBalance
  BY RowNumbers DEF Inv4, Inv3, Inv2, Inv1, TypeOK, HcmStores
<1>2. \A k \in DOMAIN outbox : /\ k \in Nat /\ k \in Rows /\ applied[k] \in Nat
                               /\ late[k] \in Nat /\ late'[k] \in Nat
  BY RowNumbers DEF Inv4, Inv3, Inv2, Inv1, Rows
<1>3. PostedInOrder'
  <2> SUFFICES ASSUME NEW k \in DOMAIN outbox, applied'[k] + late'[k] > 0,
                      NEW h \in DOMAIN outbox, h < k
               PROVE  outbox[h].attempts > 0
    BY DEF PostedInOrder
  <2>1. CASE k = i
    BY <2>1
  <2>2. CASE k # i
    <3>1. applied[k] + late[k] > 0
      BY <1>1, <1>2, <2>2
    <3> QED BY <3>1 DEF Inv4, Repeats, PostedInOrder
  <2> QED BY <2>1, <2>2
<1>4. SmoothNewest'
  <2> SUFFICES ASSUME Smooth', NEW j \in DOMAIN outbox, NewestApplied(j)'
               PROVE  hcm' = outbox[j].newBalance
    BY DEF SmoothNewest
  <2>1. applied[i] = 0
    BY <1>1, <1>2 DEF Smooth
  <2>2. i = j
    <3> SUFFICES ASSUME i # j PROVE FALSE
      OBVIOUS
    <3>1. i < j
      BY <1>1, <1>2, <2>1 DEF NewestApplied
    <3>2. applied[j] > 0
      BY <1>1, <3>1 DEF NewestApplied
    <3>3. outbox[i].attempts > 0
      BY <1>2, <3>1, <3>2 DEF Inv4, Repeats, PostedInOrder
    <3>4. outbox[i].attempts = 1 /\ outbox[i].status = "SENT"
      BY <3>3, RowNumbers DEF Smooth, Inv4, Inv3, Inv2, Inv1
    <3> QED BY <2>1, <3>4 DEF Inv4, Inv3, Inv2, RowsOK, SentWasApplied
  <2> QED BY <1>1, <2>2
<1> QED BY <1>3, <1>4

\* A save counts one attempt.
LEMMA SaveCounts ==
  ASSUME Inv4, NEW t \in Ticks, At(t, "saving"), SaveEntity(runs[t].event)
  PROVE  /\ DOMAIN outbox' = DOMAIN outbox /\ Row(t) \in DOMAIN outbox
         /\ outbox'[Row(t)].attempts = outbox[Row(t)].attempts + 1
         /\ outbox'[Row(t)].attempts <= MaxRetries
         /\ outbox'[Row(t)].newBalance = outbox[Row(t)].newBalance
         /\ \A i \in DOMAIN outbox : i # Row(t) => outbox'[i] = outbox[i]
<1>1. PICK e \in Entity : e = runs[t].event
  BY ActiveRow DEF Inv4, Active, At
<1>2. /\ e.row = Row(t) /\ Row(t) \in DOMAIN outbox
      /\ e.attempts = outbox[Row(t)].attempts + 1
      /\ outbox[Row(t)].status = "PENDING"
  BY <1>1, ActiveRow DEF Inv4, Active, At, Row
<1>3. outbox[Row(t)].attempts < MaxRetries /\ outbox[Row(t)].attempts \in Nat
  BY <1>2, RowNumbers DEF Inv4, Inv3, Inv2, Inv1, RowsOK, RetriesAreCounted
<1> QED BY <1>1, <1>2, <1>3, SavedEvent, WorkerAssumption DEF Inv4, Inv3, Inv2, Inv1

LEMMA OrderWhenSaved ==
  ASSUME Inv4, NEW t \in Ticks, At(t, "saving"), SaveEntity(runs[t].event),
         UNCHANGED <<late, hcm, applied>>
  PROVE  PostedInOrder' /\ SmoothNewest'
<1>1. /\ DOMAIN outbox' = DOMAIN outbox /\ Row(t) \in DOMAIN outbox
      /\ outbox'[Row(t)].attempts = outbox[Row(t)].attempts + 1
      /\ outbox'[Row(t)].newBalance = outbox[Row(t)].newBalance
      /\ \A i \in DOMAIN outbox : i # Row(t) => outbox'[i] = outbox[i]
  BY SaveCounts
<1>2. \A i \in DOMAIN outbox : outbox[i].attempts \in Nat
  BY RowNumbers DEF Inv4, Inv3, Inv2, Inv1
<1>3. PostedInOrder'
  BY <1>1, <1>2 DEF Inv4, Repeats, PostedInOrder
<1>4. Smooth' => Smooth
  BY <1>1, <1>2 DEF Smooth
<1> QED BY <1>1, <1>3, <1>4 DEF Inv4, Repeats, SmoothNewest, NewestApplied

LEMMA RepeatsEnqueue == ASSUME Inv4, Enqueue PROVE Repeats'
<1> DEFINE n == Len(outbox) + 1
<1>1. /\ DOMAIN outbox' = DOMAIN outbox \cup {n}
      /\ \A i \in DOMAIN outbox : outbox'[i] = outbox[i]
      /\ outbox'[n].status = "PENDING" /\ outbox'[n].attempts = 0
      /\ \A i \in DOMAIN outbox : i \in Nat /\ i < n
      /\ n \in Nat /\ n \notin DOMAIN outbox /\ n \in Rows
  <2>1. Len(outbox') <= MaxRows /\ MaxRows \in Nat
    BY EnqueuedEvent, WorkerAssumption DEF Inv4, Inv3, Inv2, Inv1
  <2> QED BY <2>1, EnqueuedEvent, TableRows DEF Inv4, Inv3, Inv2, Inv1, Rows
<1>2. applied[n] = 0 /\ late[n] = 0
  BY <1>1 DEF Inv4, Inv3, Inv2, Inv1, TypeOK, InTable, AppliedInTable
<1> HIDE DEF n
<1>3. /\ runs' = runs /\ late' = late /\ applied' = applied /\ faults' = faults /\ hcm' = hcm
  BY DEF Enqueue
<1>4. /\ faults \in Nat /\ MaxRetries \in Nat
      /\ \A i \in DOMAIN outbox : applied[i] \in Nat /\ outbox[i].attempts \in Nat
  BY RowNumbers, WorkerAssumption DEF Inv4, Inv3, Inv2, Inv1
<1>5. PostsCounted'
  BY <1>1, <1>2, <1>3, <1>4 DEF Inv4, Repeats, PostsCounted, PostedBy, At, Row
<1>6. PostedInOrder'
  BY <1>1, <1>2, <1>3 DEF Inv4, Repeats, PostedInOrder
<1>7. SmoothNewest'
  <2>1. Smooth' => Smooth
    BY <1>1, <1>3 DEF Smooth
  <2>2. ASSUME NEW j \in DOMAIN outbox', NewestApplied(j)'
        PROVE  j \in DOMAIN outbox /\ NewestApplied(j) /\ outbox'[j] = outbox[j]
    BY <1>1, <1>2, <1>3, <2>2 DEF NewestApplied
  <2> QED BY <1>3, <2>1, <2>2 DEF Inv4, Repeats, SmoothNewest
<1> QED BY <1>5, <1>6, <1>7 DEF Repeats

LEMMA RepeatsTick == ASSUME Inv4, NEW t \in Ticks, Tick(t) PROVE Repeats'
<1>1. \A s \in Ticks : ~Active(s)
  BY DEF Inv4, Inv3, Inv2, Inv1, Mutex, Tick
<1>2. \A i \in DOMAIN outbox : applied[i] + late[i] <= outbox[i].attempts + faults
  BY <1>1, CountedInTable DEF PostedBy, At, Active
<1>3. /\ outbox' = outbox /\ late' = late /\ applied' = applied
      /\ faults' = faults /\ hcm' = hcm
  BY DEF Tick
<1>4. PostsCounted'
  BY <1>2, <1>3 DEF Inv4, Repeats, PostsCounted
<1>5. PostedInOrder' /\ SmoothNewest'
  BY <1>3, OrderStays DEF Inv4, Inv3, Inv2, Inv1, TypeOK
<1> QED BY <1>4, <1>5 DEF Repeats

LEMMA RepeatsPostArrives == ASSUME Inv4, NEW t \in Ticks, PostArrives(t) PROVE Repeats'
<1>1. Active(t) /\ At(t, "posting")
  BY DEF PostArrives, At, Active
<1>2. /\ Row(t) \in DOMAIN outbox
      /\ \A i \in DOMAIN outbox : i < Row(t) => outbox[i].attempts > 0
      /\ \A s \in Ticks : Active(s) => s = t
  BY <1>1, ActiveRow DEF Inv4
<1>3. \A i \in DOMAIN outbox : applied[i] + late[i] <= outbox[i].attempts + faults
  BY <1>1, <1>2, CountedInTable DEF PostedBy, At, Active
<1>4. /\ outbox' = outbox /\ late' = late /\ faults' = faults /\ HcmStores(Row(t))
      /\ (At(t, "answered") \/ At(t, "saving"))' /\ Row(t)' = Row(t)
  <2>1. runs'[t].pc = "answered" /\ runs'[t].event = runs[t].event
    BY DEF Inv4, Inv3, Inv2, Inv1, TypeOK, PostArrives, Move, Run
  <2> QED BY <2>1 DEF PostArrives, PostedBy, At, Row
<1>5. PostedInOrder' /\ SmoothNewest'
  <2>1. late' \in [Rows -> Nat] /\ \A k \in Rows : late'[k] <= late[k]
    BY <1>4 DEF Inv4, Inv3, Inv2, Inv1, TypeOK
  <2> QED BY <1>2, <1>4, <2>1, OrderWhenStored
<1>6. PostsCounted'
  <2>1. /\ applied'[Row(t)] = applied[Row(t)] + 1
        /\ \A i \in DOMAIN outbox : i # Row(t) => applied'[i] = applied[i]
    BY <1>2, <1>4, RowNumbers DEF Inv4, Inv3, Inv2, Inv1, TypeOK, HcmStores
  <2>2. /\ faults \in Nat
        /\ \A i \in DOMAIN outbox :
             applied[i] \in Nat /\ late[i] \in Nat /\ outbox[i].attempts \in Nat
    BY RowNumbers DEF Inv4, Inv3, Inv2, Inv1
  <2>3. \A i \in DOMAIN outbox : outbox[i].attempts <= MaxRetries
    BY DEF Inv4, Repeats, PostsCounted
  <2> SUFFICES ASSUME NEW i \in DOMAIN outbox
               PROVE  \/ applied'[i] + late'[i] <= outbox[i].attempts + faults
                      \/ /\ \E s \in Ticks : PostedBy(s, i)'
                         /\ applied'[i] + late'[i] <= outbox[i].attempts + 1 + faults
    BY <1>4, <2>3 DEF PostsCounted
  <2>4. CASE i = Row(t)
    <3>1. applied'[i] = applied[i] + 1 /\ late'[i] = late[i]
      BY <1>4, <2>1, <2>4
    <3>2. \E s \in Ticks : PostedBy(s, i)'
      BY <1>4, <2>4 DEF PostedBy
    <3>3. applied[i] + late[i] <= outbox[i].attempts + faults
      BY <1>3
    <3> QED BY <2>2, <3>1, <3>2, <3>3
  <2>5. CASE i # Row(t)
    BY <1>3, <1>4, <2>1, <2>5
  <2> QED BY <2>4, <2>5
<1> QED BY <1>5, <1>6 DEF Repeats

LEMMA RepeatsLate == ASSUME Inv4, NEW i \in Rows, LateArrives(i) \/ LateLost(i) PROVE Repeats'
<1>1. i \in DOMAIN outbox /\ late[i] > 0
  BY DEF Inv4, Inv3, Inv2, Inv1, InTable, LateArrives, LateLost
<1>2. /\ late'[i] = late[i] - 1
      /\ \A k \in Rows : k # i => late'[k] = late[k]
      /\ late' \in [Rows -> Nat] /\ \A k \in Rows : late'[k] <= late[k]
  <2>1. late \in [Rows -> Nat] /\ late' = [late EXCEPT ![i] = late[i] - 1]
    BY DEF Inv4, Inv3, Inv2, Inv1, TypeOK, LateArrives, LateLost
  <2>2. late[i] - 1 \in Nat
    BY <1>1, <2>1
  <2> QED BY <2>1, <2>2
<1>3. outbox' = outbox /\ runs' = runs /\ faults' = faults
  BY DEF LateArrives, LateLost
<1>4. \/ applied' = applied /\ hcm' = hcm
      \/ HcmStores(i)
  BY DEF LateArrives, LateLost
<1>5. /\ faults \in Nat
      /\ \A k \in DOMAIN outbox : /\ k \in Rows /\ applied[k] \in Nat
                                  /\ late[k] \in Nat /\ outbox[k].attempts \in Nat
  BY RowNumbers DEF Inv4, Inv3, Inv2, Inv1
<1>6. PostsCounted'
  <2>1. \A k \in DOMAIN outbox : applied'[k] \in Nat /\ late'[k] \in Nat
                                 /\ applied'[k] + late'[k] <= applied[k] + late[k]
    BY <1>1, <1>2, <1>4, <1>5 DEF HcmStores, Inv4, Inv3, Inv2, Inv1, TypeOK
  <2>2. \A k \in DOMAIN outbox : (\E t \in Ticks : PostedBy(t, k)) => \E t \in Ticks : PostedBy(t, k)'
    BY <1>3 DEF PostedBy, At, Row
  <2> QED BY <1>3, <1>5, <2>1, <2>2 DEF Inv4, Repeats, PostsCounted
<1>7. PostedInOrder' /\ SmoothNewest'
  <2>1. CASE applied' = applied /\ hcm' = hcm
    BY <1>2, <1>3, <1>5, <2>1, OrderStays
  <2>2. CASE HcmStores(i)
    <3>1. \A h \in DOMAIN outbox : h < i => outbox[h].attempts > 0
      BY <1>1, <1>5 DEF Inv4, Repeats, PostedInOrder
    <3> QED BY <1>1, <1>2, <1>3, <2>2, <3>1, OrderWhenStored
  <2> QED BY <1>4, <2>1, <2>2
<1> QED BY <1>6, <1>7 DEF Repeats

LEMMA RepeatsPostEnds == ASSUME Inv4, NEW t \in Ticks, PostEnds(t) PROVE Repeats'
<1>1. Active(t) /\ (At(t, "posting") \/ At(t, "answered"))
  BY DEF PostEnds, PostSucceeds, PostRefused, PostTimesOut, At, Active
<1>2. /\ Row(t) \in DOMAIN outbox /\ Row(t) \in Rows
      /\ \A s \in Ticks : Active(s) => s = t
      /\ runs[t].event.attempts \in Nat
  BY <1>1, ActiveRow DEF Inv4, Entity
<1>3. /\ outbox' = outbox /\ applied' = applied /\ hcm' = hcm /\ faults' = faults
      /\ \A k \in DOMAIN outbox : k # Row(t) => late'[k] = late[k]
      /\ late' \in [Rows -> Nat]
      /\ \/ late'[Row(t)] = late[Row(t)]
         \/ At(t, "posting") /\ late'[Row(t)] = late[Row(t)] + 1
  <2>1. late \in [Rows -> Nat] /\ DOMAIN outbox \subseteq Rows
    BY TableRows DEF Inv4, Inv3, Inv2, Inv1, TypeOK
  <2>2. \/ late' = late
        \/ At(t, "posting") /\ late' = [late EXCEPT ![Row(t)] = @ + 1]
    BY DEF PostEnds, PostSucceeds, PostRefused, PostTimesOut
  <2>3. outbox' = outbox /\ applied' = applied /\ hcm' = hcm /\ faults' = faults
    BY DEF PostEnds, PostSucceeds, PostRefused, PostTimesOut
  <2> QED BY <1>2, <2>1, <2>2, <2>3
<1>4. (At(t, "answered") \/ At(t, "saving"))' /\ Row(t)' = Row(t)
  <2>1. \E s \in OutboxStatuses : Settle(t, s)
    BY <1>2, FailureStatus DEF PostEnds, PostSucceeds, PostRefused, PostTimesOut, Fail, OutboxStatuses
  <2>2. runs'[t].pc = "saving" /\ runs'[t].event.row = runs[t].event.row
    BY <2>1, SettledRun DEF Inv4, Inv3, Inv2, Inv1
  <2> QED BY <2>2 DEF PostedBy, At, Row
<1>5. /\ faults \in Nat
      /\ \A i \in DOMAIN outbox :
           applied[i] \in Nat /\ late[i] \in Nat /\ outbox[i].attempts \in Nat
  BY RowNumbers DEF Inv4, Inv3, Inv2, Inv1
<1>6. PostsCounted'
  <2>1. \A i \in DOMAIN outbox : outbox[i].attempts <= MaxRetries
    BY DEF Inv4, Repeats, PostsCounted
  <2> SUFFICES ASSUME NEW i \in DOMAIN outbox
               PROVE  \/ applied[i] + late'[i] <= outbox[i].attempts + faults
                      \/ /\ \E s \in Ticks : PostedBy(s, i)'
                         /\ applied[i] + late'[i] <= outbox[i].attempts + 1 + faults
    BY <1>3, <2>1 DEF PostsCounted
  <2>2. CASE i # Row(t)
    <3>1. applied[i] + late[i] <= outbox[i].attempts + faults
      BY <1>2, <2>2, CountedInTable DEF PostedBy, At, Active
    <3> QED BY <1>3, <2>2, <3>1
  <2>3. CASE i = Row(t) /\ late'[i] = late[i]
    <3>1. applied[i] + late[i] <= outbox[i].attempts + 1 + faults
      BY <1>5 DEF Inv4, Repeats, PostsCounted
    <3> QED BY <1>4, <2>3, <3>1 DEF PostedBy
  <2>4. CASE i = Row(t) /\ At(t, "posting") /\ late'[i] = late[i] + 1
    <3>1. applied[i] + late[i] <= outbox[i].attempts + faults
      BY <1>2, <2>4, CountedInTable DEF PostedBy, At, Active
    <3>2. applied[i] + late'[i] <= outbox[i].attempts + 1 + faults
      BY <1>5, <2>4, <3>1
    <3> QED BY <1>4, <2>4, <3>2 DEF PostedBy
  <2> QED BY <1>3, <2>2, <2>3, <2>4
<1>7. PostedInOrder' /\ SmoothNewest'
  <2>1. \A k \in DOMAIN outbox : late'[k] > 0 =>
          late[k] > 0 \/ \E s \in Ticks : Active(s) /\ Row(s) = k
    BY <1>1, <1>3
  <2> QED BY <1>3, <2>1, OrderStays
<1> QED BY <1>6, <1>7 DEF Repeats

\* What the table counts after the attempt is saved is what it counted before
\* and the attempt.
LEMMA CountedWhenSaved ==
  ASSUME Inv4, NEW t \in Ticks, At(t, "saving"), SaveEntity(runs[t].event)
  PROVE  \A i \in DOMAIN outbox' :
           /\ outbox'[i].attempts <= MaxRetries
           /\ applied[i] + late[i] <= outbox'[i].attempts + faults
<1>1. /\ DOMAIN outbox' = DOMAIN outbox /\ Row(t) \in DOMAIN outbox
      /\ outbox'[Row(t)].attempts = outbox[Row(t)].attempts + 1
      /\ outbox'[Row(t)].attempts <= MaxRetries
      /\ \A i \in DOMAIN outbox : i # Row(t) => outbox'[i] = outbox[i]
  BY SaveCounts
<1>2. /\ faults \in Nat
      /\ \A i \in DOMAIN outbox :
           applied[i] \in Nat /\ late[i] \in Nat /\ outbox[i].attempts \in Nat
  BY RowNumbers DEF Inv4, Inv3, Inv2, Inv1
<1> SUFFICES ASSUME NEW i \in DOMAIN outbox
             PROVE  /\ outbox'[i].attempts <= MaxRetries
                    /\ applied[i] + late[i] <= outbox'[i].attempts + faults
  BY <1>1
<1>3. CASE i = Row(t)
  <2>1. applied[i] + late[i] <= outbox[i].attempts + 1 + faults
    BY <1>2 DEF Inv4, Repeats, PostsCounted
  <2> QED BY <1>1, <1>3, <2>1
<1>4. CASE i # Row(t)
  <2>1. outbox[i].attempts <= MaxRetries
    BY DEF Inv4, Repeats, PostsCounted
  <2>2. \A s \in Ticks : ~PostedBy(s, i)
    BY <1>4, ActiveRow DEF Inv4, PostedBy, At, Active
  <2> QED BY <1>1, <1>4, <2>1, <2>2, CountedInTable
<1> QED BY <1>3, <1>4

LEMMA RepeatsSaveEvent == ASSUME Inv4, NEW t \in Ticks, SaveEvent(t) PROVE Repeats'
<1>1. At(t, "saving") /\ SaveEntity(runs[t].event) /\ UNCHANGED <<late, hcm, applied, faults>>
  BY DEF SaveEvent
<1>2. PostsCounted'
  BY <1>1, CountedWhenSaved DEF PostsCounted
<1> QED BY <1>1, <1>2, OrderWhenSaved DEF Repeats

LEMMA RepeatsSaveFails == ASSUME Inv4, NEW t \in Ticks, SaveFails(t) PROVE Repeats'
<1>1. /\ At(t, "saving") /\ UNCHANGED <<late, hcm, applied>> /\ faults' = faults + 1
      /\ SaveEntity(runs[t].event) \/ UNCHANGED outbox
  BY DEF SaveFails
<1>2. /\ faults \in Nat
      /\ \A i \in DOMAIN outbox :
           applied[i] \in Nat /\ late[i] \in Nat /\ outbox[i].attempts \in Nat
  BY RowNumbers DEF Inv4, Inv3, Inv2, Inv1
<1>3. CASE SaveEntity(runs[t].event)
  <2>1. \A i \in DOMAIN outbox' :
          /\ outbox'[i].attempts <= MaxRetries
          /\ applied[i] + late[i] <= outbox'[i].attempts + faults
    BY <1>1, <1>3, CountedWhenSaved
  <2>2. \A i \in DOMAIN outbox' : /\ outbox'[i].attempts \in Nat /\ applied[i] \in Nat
                                  /\ late[i] \in Nat
    <3>1. TypeOK'
      BY Inv1SaveFails DEF Inv4, Inv3, Inv2, Inv1
    <3>2. /\ DOMAIN outbox' = DOMAIN outbox /\ \A i \in DOMAIN outbox' : outbox'[i] \in Event
      BY <1>1, <1>3, <3>1, SaveCounts DEF TypeOK
    <3> QED BY <1>2, <3>2 DEF Event
  <2>3. PostsCounted'
    BY <1>1, <1>2, <2>1, <2>2 DEF PostsCounted
  <2> QED BY <1>1, <1>3, <2>3, OrderWhenSaved DEF Repeats
<1>4. CASE UNCHANGED outbox
  <2>1. PostsCounted'
    BY <1>1, <1>2, <1>4 DEF Inv4, Repeats, PostsCounted
  <2>2. late' \in [Rows -> Nat]
    BY <1>1 DEF Inv4, Inv3, Inv2, Inv1, TypeOK
  <2> QED BY <1>1, <1>4, <2>1, <2>2, OrderStays DEF Repeats
<1> QED BY <1>1, <1>3, <1>4

\* A crash turns at most one post of an event into a late one.
LEMMA RepeatsCrash == ASSUME Inv4, Crash PROVE Repeats'
<1> DEFINE Waiting(i) == {t \in Ticks : At(t, "posting") /\ Row(t) = i}
<1>1. /\ faults' = faults + 1 /\ faults \in Nat
      /\ outbox' = outbox /\ hcm' = hcm /\ applied' = applied
      /\ \A i \in DOMAIN outbox : /\ i \in Rows /\ applied[i] \in Nat /\ late[i] \in Nat
                                  /\ outbox[i].attempts \in Nat
  BY RowNumbers DEF Inv4, Inv3, Inv2, Inv1, Crash
<1>2. \A i \in DOMAIN outbox : late'[i] = late[i] + Cardinality(Waiting(i))
  BY <1>1 DEF Crash
<1>3. late' \in [Rows -> Nat]
  BY Inv1Crash DEF Inv4, Inv3, Inv2, Inv1, TypeOK
<1> HIDE DEF Waiting
<1>4. \A i \in DOMAIN outbox : Waiting(i) = {} => late'[i] = late[i]
  <2> SUFFICES ASSUME NEW i \in DOMAIN outbox, Waiting(i) = {} PROVE late'[i] = late[i]
    OBVIOUS
  <2>1. Cardinality(Waiting(i)) = 0
    BY FS_EmptySet
  <2>2. late'[i] = late[i] + Cardinality(Waiting(i))
    BY <1>2
  <2>3. late'[i] = late[i] + 0
    BY <2>1, <2>2
  <2> QED BY <1>1, <2>3
<1>5. \A i \in DOMAIN outbox : \A t \in Waiting(i) :
        /\ t \in Ticks /\ Active(t) /\ At(t, "posting") /\ Row(t) = i
        /\ late'[i] = late[i] + 1
  <2> SUFFICES ASSUME NEW i \in DOMAIN outbox, NEW t \in Waiting(i)
               PROVE  /\ t \in Ticks /\ Active(t) /\ At(t, "posting") /\ Row(t) = i
                      /\ late'[i] = late[i] + 1
    OBVIOUS
  <2>1. t \in Ticks /\ Active(t) /\ At(t, "posting") /\ Row(t) = i
    BY DEF Waiting, Active, At
  <2>2. Waiting(i) = {t}
    BY <2>1, ActiveRow DEF Inv4, Waiting, Active, At
  <2> QED BY <1>2, <2>1, <2>2, FS_Singleton
<1>6. PostsCounted'
  <2>1. \A i \in DOMAIN outbox : outbox[i].attempts <= MaxRetries
    BY DEF Inv4, Repeats, PostsCounted
  <2> SUFFICES ASSUME NEW i \in DOMAIN outbox
               PROVE  applied[i] + late'[i] <= outbox[i].attempts + faults + 1
    BY <1>1, <2>1 DEF PostsCounted
  <2>2. CASE Waiting(i) = {}
    <3>1. applied[i] + late[i] <= outbox[i].attempts + 1 + faults
      BY <1>1 DEF Inv4, Repeats, PostsCounted
    <3> QED BY <1>1, <1>4, <2>2, <3>1
  <2>3. ASSUME NEW t \in Waiting(i)
        PROVE  applied[i] + late'[i] <= outbox[i].attempts + faults + 1
    <3>1. t \in Ticks /\ Active(t) /\ At(t, "posting") /\ late'[i] = late[i] + 1
      BY <1>5
    <3>2. \A s \in Ticks : ~PostedBy(s, i)
      BY <3>1, ActiveRow DEF Inv4, PostedBy, At, Active
    <3>3. applied[i] + late[i] <= outbox[i].attempts + faults
      BY <3>2, CountedInTable
    <3> QED BY <1>1, <3>1, <3>3
  <2> QED BY <2>2, <2>3
<1>7. PostedInOrder' /\ SmoothNewest'
  <2>1. \A k \in DOMAIN outbox : late'[k] > 0 =>
          late[k] > 0 \/ \E t \in Ticks : Active(t) /\ Row(t) = k
    <3> SUFFICES ASSUME NEW k \in DOMAIN outbox, late'[k] > 0, ~(late[k] > 0)
                 PROVE  \E t \in Ticks : Active(t) /\ Row(t) = k
      OBVIOUS
    <3>1. Waiting(k) # {}
      BY <1>4
    <3> QED BY <1>5, <3>1
  <2> QED BY <1>1, <1>3, <2>1, OrderStays
<1> QED BY <1>6, <1>7 DEF Repeats

LEMMA Inv4Step == Inv4 /\ [Next]_vars => Inv4'
<1> SUFFICES ASSUME Inv4, [Next]_vars PROVE Inv4'
  OBVIOUS
<1>1. Inv3'
  BY Inv2Step, AppliedStays DEF Inv4, Inv3
<1>2. CASE UNCHANGED vars
  BY <1>1, <1>2 DEF vars, Inv4, Repeats, PostsCounted, PostedBy, At, Row, PostedInOrder,
                    SmoothNewest, Smooth, NewestApplied
<1>3. CASE Enqueue \/ Crash
  BY <1>1, <1>3, RepeatsEnqueue, RepeatsCrash DEF Inv4
<1>4. ASSUME NEW t \in Ticks, RunStep(t) PROVE Inv4'
  BY <1>1, <1>4, RepeatsTick, RepeatsPostArrives, RepeatsPostEnds, RepeatsSaveEvent,
     RepeatsSaveFails DEF RunStep, Inv4
<1>5. ASSUME NEW i \in Rows, LateArrives(i) \/ LateLost(i) PROVE Inv4'
  BY <1>1, <1>5, RepeatsLate DEF Inv4
<1> QED BY <1>2, <1>3, <1>4, <1>5 DEF Next

LEMMA Inv4Invariance == Spec => []Inv4
<1>1. Init => Inv4
  BY Inv2Init DEF Init, Inv4, Inv3, AppliedInTable, Repeats, PostsCounted, PostedInOrder,
                  SmoothNewest
<1> QED BY <1>1, Inv4Step, PTL DEF Spec

\* No event reaches HCM, or may still reach it, more often than MaxRetries
\* and once more for every fault, whatever timed out and whatever was late.
THEOREM RepeatsStayBounded == Spec => []RepeatsAreBounded
<1>1. Inv4 => RepeatsAreBounded
  <2> SUFFICES ASSUME Inv4, NEW i \in Rows PROVE applied[i] + late[i] <= MaxRetries + faults
    BY DEF RepeatsAreBounded
  <2>1. faults \in Nat /\ MaxRetries \in Nat /\ applied[i] \in Nat /\ late[i] \in Nat
    BY RowNumbers, WorkerAssumption DEF Inv4, Inv3, Inv2, Inv1, TypeOK
  <2>2. CASE i \notin DOMAIN outbox
    <3>1. applied[i] = 0 /\ late[i] = 0
      BY <2>1, <2>2 DEF Inv4, Inv3, Inv2, Inv1, InTable, AppliedInTable
    <3> QED BY <2>1, <3>1
  <2>3. CASE i \in DOMAIN outbox /\ \A t \in Ticks : ~PostedBy(t, i)
    <3>1. outbox[i].attempts <= MaxRetries /\ outbox[i].attempts \in Nat
      BY <2>3, RowNumbers DEF Inv4, Inv3, Inv2, Inv1, Repeats, PostsCounted
    <3>2. applied[i] + late[i] <= outbox[i].attempts + faults
      BY <2>3, CountedInTable
    <3> QED BY <2>1, <3>1, <3>2
  <2>4. ASSUME i \in DOMAIN outbox, NEW t \in Ticks, PostedBy(t, i)
        PROVE  applied[i] + late[i] <= MaxRetries + faults
    <3>1. outbox[i].status = "PENDING"
      BY <2>4, ActiveRow DEF Inv4, PostedBy, Active, At
    <3>2. outbox[i].attempts < MaxRetries /\ outbox[i].attempts \in Nat
      BY <2>4, <3>1, RowNumbers DEF Inv4, Inv3, Inv2, Inv1, RowsOK, RetriesAreCounted
    <3>3. applied[i] + late[i] <= outbox[i].attempts + 1 + faults
      BY <2>1, <2>4, <3>2 DEF Inv4, Repeats, PostsCounted
    <3> QED BY <2>1, <3>2, <3>3
  <2> QED BY <2>2, <2>3, <2>4
<1> QED BY <1>1, Inv4Invariance, PTL

\* Only a retry or a repeated post leaves HCM with an older balance: order is
\* otherwise kept, for any number of events, crashes and failed saves.
THEOREM NewestArrivesLast == Spec => []NewestUnlessRepeated
<1>1. Inv4 => NewestUnlessRepeated
  <2> SUFFICES ASSUME Inv4, outbox # <<>>,
                      \A i \in DOMAIN outbox :
                        outbox[i].status = "SENT" /\ outbox[i].attempts = 1 /\ applied[i] = 1
               PROVE  hcm = outbox[Len(outbox)].newBalance
    BY DEF NewestUnlessRepeated
  <2>1. Len(outbox) \in DOMAIN outbox /\ DOMAIN outbox = 1..Len(outbox)
    BY DEF Inv4, Inv3, Inv2, Inv1, TypeOK
  <2>2. Smooth
    BY DEF Smooth
  <2>3. NewestApplied(Len(outbox))
    BY <2>1 DEF NewestApplied
  <2> QED BY <2>1, <2>2, <2>3 DEF Inv4, Repeats, SmoothNewest
<1> QED BY <1>1, Inv4Invariance, PTL
================================================================================
