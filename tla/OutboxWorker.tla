----------------------------- MODULE OutboxWorker -----------------------------
(***************************************************************************)
(* The outbox worker and the HCM row it writes, for the events of one      *)
(* balance.  deductBalance and creditBalance append events; a cron tick    *)
(* every five seconds starts a run of processPending, which posts the      *)
(* oldest PENDING events to HCM one after the other and saves what became  *)
(* of each.                                                                *)
(*                                                                         *)
(* Grain.  A step goes from one await to the next.  An event is named by   *)
(* its position in createdAt order.  A run keeps the entities find gave it *)
(* in memory; save writes the whole entity.  A post that times out, or     *)
(* whose sender crashed, may still reach HCM later: such a post is late.   *)
(***************************************************************************)
EXTENDS BalanceService, FiniteSets

CONSTANTS
    Ticks,       \* slots for runs of processPending
    Entries,     \* the events that may be appended
    MaxRows,     \* bound: events appended in a behaviour
    BatchSize,   \* take, of find
    MaxRetries,  \* app.outboxMaxRetries
    MaxFaults    \* bound: crashes and failed saves in a behaviour

VARIABLES
    outbox,      \* outbox_events in createdAt order
    isRunning,   \* the mutex of the worker
    runs,        \* runs of processPending
    late,        \* late[i]: posts of event i that nobody waits for
    hcm,         \* availableDays of HCM's row, or NoRow
    applied,     \* applied[i]: how often HCM applied event i (history)
    faults       \* crashes and failed saves so far

vars == <<outbox, isRunning, runs, late, hcm, applied, faults>>

ASSUME WorkerAssumption ==
    /\ BatchSize \in Nat \ {0}
    /\ MaxRetries \in Nat \ {0}
    /\ MaxRows \in Nat
    /\ MaxFaults \in Nat
    /\ IsFiniteSet(Ticks)
    /\ NoRow \notin Int
    /\ \A e \in Entries :
         e \in [newBalance : Int, status : {"PENDING"}, attempts : {0}]

Rows == 1..MaxRows

Event == [newBalance : Int, status : OutboxStatuses, attempts : Nat]

\* What processPending keeps of an event: its row and the columns it saves.
Entity == [row : Nat, status : OutboxStatuses, attempts : Nat]

NoEvent == [row |-> 0, status |-> "PENDING", attempts |-> 0]

Idle == [pc |-> "idle", event |-> NoEvent, todo |-> {}]

\* pc: waiting for HCM, HCM's 2xx under way, or waiting for save; event: the
\* one being processed; todo: the rest of the batch.
Run == [pc : {"idle", "posting", "answered", "saving"}, event : Entity, todo : SUBSET Entity]

TypeOK ==
    /\ outbox \in Seq(Event)
    /\ Len(outbox) <= MaxRows
    /\ isRunning \in BOOLEAN
    /\ runs \in [Ticks -> Run]
    /\ late \in [Rows -> Nat]
    /\ hcm \in Nat \cup {NoRow}
    /\ applied \in [Rows -> Nat]
    /\ faults \in 0..MaxFaults

Init ==
    /\ outbox = <<>>
    /\ isRunning = FALSE
    /\ runs = [t \in Ticks |-> Idle]
    /\ late = [i \in Rows |-> 0]
    /\ hcm = NoRow
    /\ applied = [i \in Rows |-> 0]
    /\ faults = 0

-------------------------------------------------------------------------------
At(t, pc) == runs[t].pc = pc

Row(t) == runs[t].event.row

Move(t, pc) == runs' = [runs EXCEPT ![t].pc = pc]

\* A transaction of deductBalance or creditBalance adds an event.
Enqueue ==
    /\ Len(outbox) < MaxRows
    /\ \E e \in Entries : outbox' = Append(outbox, e)
    /\ UNCHANGED <<isRunning, runs, late, hcm, applied, faults>>

\* The finally block: the run ends and the mutex is free.
Finish(t) ==
    /\ runs' = [runs EXCEPT ![t] = Idle]
    /\ isRunning' = FALSE

\* Variant for mutation: the events of a batch in any order.
ProceedAnywhere(t, batch) ==
    \/ batch = {} /\ Finish(t)
    \/ \E e \in batch :
         /\ runs' = [runs EXCEPT ![t] = [pc    |-> "posting",
                                         event |-> [e EXCEPT !.attempts = @ + 1],
                                         todo  |-> batch \ {e}]]
         /\ isRunning' = TRUE

\* The loop of processPending goes on with the oldest event of the batch:
\* attempts is counted in memory and the post leaves.
Proceed(t, batch) ==
    \/ batch = {} /\ Finish(t)
    \/ \E e \in batch :
         /\ \A d \in batch : e.row <= d.row
         /\ runs' = [runs EXCEPT ![t] = [pc    |-> "posting",
                                         event |-> [e EXCEPT !.attempts = @ + 1],
                                         todo  |-> batch \ {e}]]
         /\ isRunning' = TRUE

Pending == {i \in DOMAIN outbox : outbox[i].status = "PENDING"}

\* Variant for mutation: find takes the newest events.
NewestBatch ==
    {[row |-> i, status |-> outbox[i].status, attempts |-> outbox[i].attempts] :
       i \in {j \in Pending : Cardinality({h \in Pending : h >= j}) <= BatchSize}}

\* find: the oldest PENDING events, at most take of them.
Batch == {[row |-> i, status |-> outbox[i].status, attempts |-> outbox[i].attempts] :
            i \in {j \in Pending : Cardinality({h \in Pending : h <= j}) <= BatchSize}}

\* Variant for mutation: the mutex is not tested.
TickUnguarded(t) ==
    /\ At(t, "idle")
    /\ Pending # {}
    /\ Proceed(t, Batch)
    /\ UNCHANGED <<outbox, late, hcm, applied, faults>>

\* A cron tick; while a run is active it does nothing.
Tick(t) ==
    /\ At(t, "idle")
    /\ ~isRunning
    /\ Pending # {}
    /\ Proceed(t, Batch)
    /\ UNCHANGED <<outbox, late, hcm, applied, faults>>

\* Variant for mutation: HCM stores negative balances.
AcceptsAll(i) == outbox[i].newBalance \in Int

\* POST /balances of HCM: a negative balance is a 422, any other is stored,
\* whichever event it is of and however often it came before.
Accepts(i) == outbox[i].newBalance >= 0

HcmStores(i) ==
    /\ hcm' = outbox[i].newBalance
    /\ applied' = [applied EXCEPT ![i] = @ + 1]

\* HCM handles the post the run waits for.
PostArrives(t) ==
    /\ At(t, "posting")
    /\ Accepts(Row(t))
    /\ HcmStores(Row(t))
    /\ Move(t, "answered")
    /\ UNCHANGED <<outbox, isRunning, late, faults>>

\* A late post reaches HCM, or is lost.
LateArrives(i) ==
    /\ late[i] > 0
    /\ late' = [late EXCEPT ![i] = @ - 1]
    /\ IF Accepts(i) THEN HcmStores(i) ELSE UNCHANGED <<hcm, applied>>
    /\ UNCHANGED <<outbox, isRunning, runs, faults>>

LateLost(i) ==
    /\ late[i] > 0
    /\ late' = [late EXCEPT ![i] = @ - 1]
    /\ UNCHANGED <<outbox, isRunning, runs, hcm, applied, faults>>

-------------------------------------------------------------------------------
(* updateBalance returns to processEvent, which saves the event            *)

Settle(t, status) ==
    runs' = [runs EXCEPT ![t].pc = "saving", ![t].event.status = status]

\* Variant for mutation: one retry too many.
AfterFailureLate(attempts) == IF attempts > MaxRetries THEN "FAILED" ELSE "PENDING"

\* What processEvent makes of an event that HCM did not confirm.
AfterFailure(attempts) == IF attempts >= MaxRetries THEN "FAILED" ELSE "PENDING"

Fail(t) == Settle(t, AfterFailure(runs[t].event.attempts))

\* true: the 2xx arrived.
PostSucceeds(t) ==
    /\ At(t, "answered")
    /\ Settle(t, "SENT")
    /\ UNCHANGED <<outbox, isRunning, late, hcm, applied, faults>>

\* false: HCM refused the post, or was not reached, and it is gone.
PostRefused(t) ==
    /\ At(t, "posting")
    /\ Fail(t)
    /\ UNCHANGED <<outbox, isRunning, late, hcm, applied, faults>>

\* Variant for mutation: a timeout counts as delivered.
PostTimesOutAsSent(t) ==
    /\ At(t, "posting") \/ At(t, "answered")
    /\ Settle(t, "SENT")
    /\ late' = IF At(t, "posting") THEN [late EXCEPT ![Row(t)] = @ + 1] ELSE late
    /\ UNCHANGED <<outbox, isRunning, hcm, applied, faults>>

\* false: ten seconds passed with the post still under way, or with HCM's
\* answer still under way.
PostTimesOut(t) ==
    /\ At(t, "posting") \/ At(t, "answered")
    /\ Fail(t)
    /\ late' = IF At(t, "posting") THEN [late EXCEPT ![Row(t)] = @ + 1] ELSE late
    /\ UNCHANGED <<outbox, isRunning, hcm, applied, faults>>

\* Variant for mutation: the attempts are counted in memory only.
SaveStatus(e) == outbox' = [outbox EXCEPT ![e.row].status = e.status]

SaveEntity(e) ==
    outbox' = [outbox EXCEPT ![e.row].status = e.status, ![e.row].attempts = e.attempts]

\* save commits and the loop goes on.
SaveEvent(t) ==
    /\ At(t, "saving")
    /\ SaveEntity(runs[t].event)
    /\ Proceed(t, runs[t].todo)
    /\ UNCHANGED <<late, hcm, applied, faults>>

\* Variant for mutation: no finally block, the mutex stays taken.
SaveFailsLocked(t) ==
    /\ At(t, "saving")
    /\ faults < MaxFaults
    /\ faults' = faults + 1
    /\ SaveEntity(runs[t].event) \/ UNCHANGED outbox
    /\ runs' = [runs EXCEPT ![t] = Idle]
    /\ UNCHANGED <<isRunning, late, hcm, applied>>

\* save throws, before or after the row is written (the database file is
\* saved after the commit); the finally block frees the mutex.
SaveFails(t) ==
    /\ At(t, "saving")
    /\ faults < MaxFaults
    /\ faults' = faults + 1
    /\ SaveEntity(runs[t].event) \/ UNCHANGED outbox
    /\ Finish(t)
    /\ UNCHANGED <<late, hcm, applied>>

\* The process stops and restarts: runs, mutex and counted attempts are
\* gone, a post under way is late.
Crash ==
    /\ faults < MaxFaults
    /\ faults' = faults + 1
    /\ runs' = [t \in Ticks |-> Idle]
    /\ isRunning' = FALSE
    /\ late' = [i \in Rows |->
                  late[i] + Cardinality({t \in Ticks : At(t, "posting") /\ Row(t) = i})]
    /\ UNCHANGED <<outbox, hcm, applied>>

-------------------------------------------------------------------------------
PostEnds(t) == PostSucceeds(t) \/ PostRefused(t) \/ PostTimesOut(t)

RunStep(t) == Tick(t) \/ PostArrives(t) \/ PostEnds(t) \/ SaveEvent(t) \/ SaveFails(t)

Next ==
    \/ Enqueue
    \/ \E t \in Ticks : RunStep(t)
    \/ \E i \in Rows : LateArrives(i) \/ LateLost(i)
    \/ Crash

Spec == Init /\ [][Next]_vars

\* Cron keeps ticking, axios answers within its timeout, and save returns.
\* Nothing is assumed of HCM or of the network.
Fairness ==
    /\ WF_vars(\E t \in Ticks : Tick(t))
    /\ \A t \in Ticks : WF_vars(PostEnds(t)) /\ WF_vars(SaveEvent(t) \/ SaveFails(t))

FairSpec == Spec /\ Fairness

-------------------------------------------------------------------------------
(* What the rest of the system sees of the worker                          *)

Announced == [i \in DOMAIN outbox |-> [row        |-> "balance",
                                      newBalance |-> outbox[i].newBalance,
                                      status     |-> outbox[i].status]]

Posted == {i \in Pending : applied[i] > 0}

D == INSTANCE Delivery WITH Rows   <- {"balance"},
                            outbox <- Announced,
                            hcm    <- [r \in {"balance"} |-> hcm],
                            posted <- Posted

\* With its mutex, batches, retries, crashes and failed saves the worker
\* implements Delivery: it confirms nothing HCM has not stored, settles each
\* event once, and changes nothing else of an event.
ImplementsDelivery == D!Spec

-------------------------------------------------------------------------------
(* Properties                                                              *)

\* SENT is never a lie: HCM applied the event at least once before, through
\* every crash, timeout and failed save.
SentWasApplied ==
    \A i \in DOMAIN outbox : outbox[i].status = "SENT" => applied[i] > 0

\* SENT and FAILED are final.  The entity a run saves may be older than the
\* row; only the mutex keeps a second run from saving over the first.
SettledForGood ==
    [][\A i \in DOMAIN outbox :
         outbox[i].status # "PENDING" => outbox'[i] = outbox[i]]_vars

\* Events are first tried in the order of the transactions that wrote them:
\* no event has a counted attempt before every older one has.
OldestFirst ==
    \A i, j \in DOMAIN outbox :
        i < j /\ outbox[j].attempts > 0 => outbox[i].attempts > 0

\* An event is given up only after MaxRetries counted attempts, and retried
\* only before that.
RetriesAreCounted ==
    \A i \in DOMAIN outbox :
        /\ outbox[i].status = "PENDING" => outbox[i].attempts < MaxRetries
        /\ outbox[i].status = "FAILED" => outbox[i].attempts = MaxRetries

\* No event waits forever: once MaxRows caps the events, a time comes when each
\* is SENT or FAILED, although a batch is bounded, saves fail and the process
\* crashes (finitely often).  By SettledForGood it stays so.
EventuallySettled == (Pending # {}) ~> (Pending = {})

\* No event reaches HCM, or may still reach it, more often than MaxRetries
\* and once more for every crash and failed save, each of which may forget
\* that an attempt was made.
RepeatsAreBounded == \A i \in Rows : applied[i] + late[i] <= MaxRetries + faults

\* Only a retry or a repeated post can leave HCM with an older balance: once
\* every event was sent at the first counted attempt and applied once, HCM
\* holds the balance of the newest, in spite of crashes and failed saves.
NewestUnlessRepeated ==
    ( /\ outbox # <<>>
      /\ \A i \in DOMAIN outbox :
           outbox[i].status = "SENT" /\ outbox[i].attempts = 1 /\ applied[i] = 1 )
    => hcm = outbox[Len(outbox)].newBalance

\* HCM applies each event at most once (outbox-event.entity.ts: exactly once).
AppliedAtMostOnce == \A i \in Rows : applied[i] <= 1

\* When every event is delivered and nothing is under way, HCM holds the
\* balance of the newest event.
HcmHasNewest ==
    ( /\ outbox # <<>>
      /\ \A i \in DOMAIN outbox : outbox[i].status = "SENT"
      /\ \A i \in Rows : late[i] = 0 )
    => hcm = outbox[Len(outbox)].newBalance
===============================================================================
