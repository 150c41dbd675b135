------------------------------ MODULE BalanceSync -----------------------------
(***************************************************************************)
(* How HCM's balances reach the balances table: webhooks and batches       *)
(* through applyHcmBalance, pulls through syncFromHcm, all ending in       *)
(* upsertBalance.  Meanwhile deductions and credits commit and the outbox  *)
(* worker tells HCM of them.                                               *)
(*                                                                         *)
(* The table holds one row per leave type of one employee at one location. *)
(* A step goes from one await to the next, reads with no write or HTTP     *)
(* call between them being one step.  A slot holds a message from HCM from *)
(* the moment it leaves HCM until its handler ends, so messages overtake   *)
(* each other.  A request may be debited and credited more than once, as   *)
(* overlapping or interrupted handlers do, but not credited before it was  *)
(* debited.  The worker may do all that Delivery allows: an event reaches  *)
(* HCM any number of times and at any time, is SENT only after it did, or  *)
(* is given up.                                                            *)
(***************************************************************************)
EXTENDS BalanceService, FiniteSetsExt, SequencesExt

CONSTANTS
    Store,        \* the leave types, in the order of HCM's store
    Requests,     \* requests that may be approved
    Cancelled,    \* bound: those of them that may be cancelled after that
    LeaveType,    \* LeaveType[r] of request r
    Days,         \* Days[r]: its work days
    InitialDays,  \* HCM's balances at first
    HcmDays,      \* HcmDays[t]: balances HR may set in HCM
    Vacation,     \* the leave type an anniversary adds to
    BonusDays,    \* bonusDays of an anniversary
    BalanceRange, \* bound: balances after a bonus or a credit
    YearDays,     \* YearDays[t]: the default of leave type t, if it has one
    NoWebhook,    \* a slot that gets no webhook
    Slots,        \* bound: messages from HCM under way
    MaxEvents,    \* bound: deductions and credits
    MaxFailed     \* bound: events the worker gives up

VARIABLES
    balances,     \* balances[t]: a row, or NoRow
    outbox,       \* outbox_events in createdAt order
    hcm,          \* hcm[t]: availableDays in HCM's store
    posted,       \* PENDING events HCM has stored at least once
    jobs          \* messages from HCM and their handlers

vars == <<balances, outbox, hcm, posted, jobs>>

LeaveTypes == ToSet(Store)

ASSUME SyncAssumption ==
    /\ Store \in Seq(LeaveTypes)
    /\ LeaveType \in [Requests -> LeaveTypes]
    /\ Cancelled \subseteq Requests
    /\ Days \in [Requests -> Nat]
    /\ InitialDays \in Nat
    /\ HcmDays \in [LeaveTypes -> SUBSET Nat]
    /\ Vacation \in LeaveTypes
    /\ BonusDays \in Int
    /\ BalanceRange \subseteq Int
    /\ DOMAIN YearDays \subseteq LeaveTypes
    /\ \A t \in DOMAIN YearDays : YearDays[t] \in Int
    /\ NoWebhook \notin LeaveTypes
    /\ MaxEvents \in Nat
    /\ MaxFailed \in Nat

Record == [leaveType : LeaveTypes, balance : Int]

Kinds == {"webhook", "batch", "sync"}

Idle == [pc |-> "idle", kind |-> "webhook", todo |-> <<>>, isNew |-> FALSE]

\* pc: under way or before the query of applyHcmBalance ("query"), before
\* ("find", where the answer to a pull is under way too) and after ("write")
\* the findOne of upsertBalance; todo: the records left, the first with the balance that is
\* passed to upsertBalance; isNew: the findOne of that returned no row.
Job == [pc : {"idle", "query", "find", "write"}, kind : Kinds, todo : Seq(Record),
        isNew : BOOLEAN]

\* Only a handler that awaits a record's turn has records.
TypeOK ==
    /\ balances \in [LeaveTypes -> BalanceRow \cup {NoRow}]
    /\ outbox \in Seq(OutboxRow(Requests))
    /\ hcm \in [LeaveTypes -> Int]
    /\ posted \subseteq DOMAIN outbox
    /\ jobs \in [Slots -> Job]
    /\ \A c \in Slots : (jobs[c].todo = <<>>) = (jobs[c].pc = "idle")

\* The seed data of HCM's store.
InitialStore == [t \in LeaveTypes |-> InitialDays]

Init ==
    /\ balances = [t \in LeaveTypes |-> NoRow]
    /\ outbox = <<>>
    /\ hcm = InitialStore
    /\ posted = {}
    /\ jobs = [c \in Slots |-> Idle]

-------------------------------------------------------------------------------
At(c, pc) == jobs[c].pc = pc

Current(c) == Head(jobs[c].todo)

Start(c, pc, kind, records) ==
    /\ At(c, "idle")
    /\ jobs' = [jobs EXCEPT ![c] = [Idle EXCEPT !.pc = pc, !.kind = kind, !.todo = records]]

End(c) == jobs' = [jobs EXCEPT ![c] = Idle]

\* Variant for mutation: the loop over the records runs past the last one.
GoOnForever(c) ==
    IF jobs[c].kind = "webhook"
    THEN End(c)
    ELSE jobs' = [jobs EXCEPT ![c] =
           [Idle EXCEPT !.pc = IF jobs[c].kind = "sync" THEN "find" ELSE "query",
                        !.kind = jobs[c].kind, !.todo = Tail(jobs[c].todo)]]

\* The loop over the records of a batch, or of HCM's answer, goes on.
GoOn(c) ==
    IF Len(jobs[c].todo) = 1
    THEN End(c)
    ELSE jobs' = [jobs EXCEPT ![c] =
           [Idle EXCEPT !.pc = IF jobs[c].kind = "sync" THEN "find" ELSE "query",
                        !.kind = jobs[c].kind, !.todo = Tail(jobs[c].todo)]]

\* Variant for mutation: receiveBatch has no try and catch.
FailUncaught(c) == End(c)

\* A record throws: receiveBatch catches it and goes on, the other two fail.
Fail(c) == IF jobs[c].kind = "batch" THEN GoOn(c) ELSE End(c)

-------------------------------------------------------------------------------
(* HCM                                                                     *)

AllRecords == [i \in DOMAIN Store |-> [leaveType |-> Store[i], balance |-> hcm[Store[i]]]]

Webhook(t) == [Idle EXCEPT !.pc = "query",
                           !.todo = <<[leaveType |-> t, balance |-> hcm'[t]]>>]

\* dispatchWebhook for each of the leave types ts, all under way at once; one
\* that is lost, or rejected for its signature or a negative balance (Min(0)
\* of the DTO), HCM forgets.
Dispatch(ts) ==
    \E got \in [Slots -> {t \in ts : hcm'[t] >= 0} \cup {NoWebhook}] :
        /\ \A c \in Slots : got[c] # NoWebhook =>
             At(c, "idle") /\ \A d \in Slots : got[d] = got[c] => d = c
        /\ jobs' = [c \in Slots |-> IF got[c] = NoWebhook THEN jobs[c] ELSE Webhook(got[c])]

\* HR sets a balance.
HcmAdjusts ==
    /\ \E t \in LeaveTypes : \E d \in HcmDays[t] :
         /\ hcm' = [hcm EXCEPT ![t] = d]
         /\ Dispatch({t})
    /\ UNCHANGED <<balances, outbox, posted>>

\* An anniversary adds to the vacation days HCM has now; bonusDays comes
\* from the body of the call unchecked, as the defaults of a new year do.
TriggerAnniversary ==
    /\ hcm[Vacation] + BonusDays \in BalanceRange
    /\ hcm' = [hcm EXCEPT ![Vacation] = @ + BonusDays]
    /\ Dispatch({Vacation})
    /\ UNCHANGED <<balances, outbox, posted>>

\* A new year sets the balances of all leave types with a default.
TriggerYearRefresh ==
    /\ hcm' = [t \in LeaveTypes |-> IF t \in DOMAIN YearDays THEN YearDays[t] ELSE hcm[t]]
    /\ Dispatch(DOMAIN YearDays)
    /\ UNCHANGED <<balances, outbox, posted>>

\* The store is filled with the seed data again, and nobody is told.
HcmResets ==
    /\ hcm' = InitialStore
    /\ UNCHANGED <<balances, outbox, posted, jobs>>

\* The full corpus arrives (one that is lost or rejected changes nothing),
\* which the DTO refuses as a whole if a balance is negative; the 202 comes
\* before any record is applied.
HcmSendsBatch(c) ==
    /\ \A t \in LeaveTypes : hcm[t] >= 0
    /\ Start(c, "query", "batch", AllRecords)
    /\ UNCHANGED <<balances, outbox, hcm, posted>>

\* HCM answers a pull of syncFromHcm with every leave type; a pull without an
\* answer changes nothing.
SyncFromHcm(c) ==
    /\ Start(c, "find", "sync", AllRecords)
    /\ UNCHANGED <<balances, outbox, hcm, posted>>

-------------------------------------------------------------------------------
(* applyHcmBalance and upsertBalance                                       *)

Pending(t) == {i \in DOMAIN outbox :
                 outbox[i].status = "PENDING" /\ LeaveType[outbox[i].requestId] = t}

PendingDebits(t) == {i \in Pending(t) : outbox[i].eventType = "BALANCE_DEBIT"}

\* Variant for mutation: debits that were given up are subtracted as well.
ResolvedWithFailed(t, hcmBalance) ==
    hcmBalance - MapThenSumSet(LAMBDA i : hcmBalance - outbox[i].newBalance,
                               {i \in DOMAIN outbox :
                                  /\ LeaveType[outbox[i].requestId] = t
                                  /\ outbox[i].eventType = "BALANCE_DEBIT"
                                  /\ outbox[i].status # "SENT"})

\* The conflict resolution: per PENDING debit the difference of HCM's
\* balance to the one the debit announced.
Resolved(t, hcmBalance) ==
    hcmBalance - MapThenSumSet(LAMBDA i : hcmBalance - outbox[i].newBalance, PendingDebits(t))

\* upsertBalance of row t, up to its save.
Find(c, t, available) ==
    jobs' = [jobs EXCEPT ![c] = [@ EXCEPT !.pc = "write",
                                          !.todo[1].balance = available,
                                          !.isNew = (balances[t] = NoRow)]]

\* The query for PENDING events; if there are some, the audit log is written
\* before upsertBalance reads the row.
ApplyHcmBalance(c) ==
    LET t == Current(c).leaveType
        resolved == Resolved(t, Current(c).balance) IN
    /\ At(c, "query")
    /\ IF Pending(t) = {}
       THEN Find(c, t, resolved)
       ELSE jobs' = [jobs EXCEPT ![c] = [@ EXCEPT !.pc = "find", !.todo[1].balance = resolved]]
    /\ UNCHANGED <<balances, outbox, hcm, posted>>

\* upsertBalance after the audit log, or for a record of syncFromHcm, which
\* passes HCM's balance as it is.
FindRow(c) ==
    /\ At(c, "find")
    /\ Find(c, Current(c).leaveType, Current(c).balance)
    /\ UNCHANGED <<balances, outbox, hcm, posted>>

\* save of upsertBalance.  An insert throws if the row was inserted
\* meanwhile.
UpsertBalance(c) ==
    LET t == Current(c).leaveType IN
    /\ At(c, "write")
    /\ IF jobs[c].isNew /\ balances[t] # NoRow
       THEN Fail(c) /\ UNCHANGED balances
       ELSE balances' = [balances EXCEPT ![t] = Upserted(Current(c).balance)] /\ GoOn(c)
    /\ UNCHANGED <<outbox, hcm, posted>>

\* A save fails in the database: of the row, or of the audit log before it.
SaveFails(c) ==
    /\ jobs[c].pc \in {"find", "write"}
    /\ Fail(c)
    /\ UNCHANGED <<balances, outbox, hcm, posted>>

\* The process restarts: handlers, and batches already accepted, are gone.
Crash ==
    /\ jobs' = [c \in Slots |-> Idle]
    /\ UNCHANGED <<balances, outbox, hcm, posted>>

-------------------------------------------------------------------------------
(* Decisions and their delivery                                            *)

\* The transaction of deductBalance.
Deduct(r) ==
    LET t == LeaveType[r] IN
    /\ Covers(balances[t], Days[r])
    /\ balances' = [balances EXCEPT ![t] = Deducted(@, Days[r])]
    /\ outbox' = Append(outbox, OutboxEntry("BALANCE_DEBIT", r, balances'[t]))
    /\ UNCHANGED <<hcm, posted, jobs>>

\* The transaction of creditBalance.
Credit(r) ==
    LET t == LeaveType[r] IN
    /\ balances[t] # NoRow
    /\ balances' = [balances EXCEPT ![t] = Credited(@, Days[r])]
    /\ outbox' = Append(outbox, OutboxEntry("BALANCE_CREDIT", r, balances'[t]))
    /\ UNCHANGED <<hcm, posted, jobs>>

\* approve deducts for a request it read as PENDING, which one that was
\* debited may still be: by an overlapping approve, or before a crash.
Approve(r) ==
    /\ Len(outbox) < MaxEvents
    /\ Deduct(r)

\* cancel credits a request it read as APPROVED, which only a debited one is,
\* and which one already credited may still be.
Cancel(r) ==
    /\ r \in Cancelled
    /\ Len(outbox) < MaxEvents
    /\ balances[LeaveType[r]] # NoRow
    /\ balances[LeaveType[r]].availableDays + Days[r] \in BalanceRange
    /\ \E i \in DOMAIN outbox :
         outbox[i].eventType = "BALANCE_DEBIT" /\ outbox[i].requestId = r
    /\ Credit(r)

\* A post of the worker, possibly a late one, reaches HCM, which refuses a
\* negative balance.
Post(i) ==
    /\ outbox[i].newBalance >= 0
    /\ hcm' = [hcm EXCEPT ![LeaveType[outbox[i].requestId]] = outbox[i].newBalance]
    /\ posted' = IF outbox[i].status = "PENDING" THEN posted \cup {i} ELSE posted
    /\ UNCHANGED <<balances, outbox, jobs>>

SettleAs(i, status) ==
    /\ outbox[i].status = "PENDING"
    /\ outbox' = [outbox EXCEPT ![i].status = status]
    /\ posted' = posted \ {i}
    /\ UNCHANGED <<balances, hcm, jobs>>

\* The worker settles an event: SENT if HCM confirmed it, ...
Confirm(i) == i \in posted /\ SettleAs(i, "SENT")

\* ... FAILED once its retries are used up.
GiveUp(i) ==
    /\ Cardinality({j \in DOMAIN outbox : outbox[j].status = "FAILED"}) < MaxFailed
    /\ SettleAs(i, "FAILED")

-------------------------------------------------------------------------------
HcmStep(c) == HcmSendsBatch(c) \/ SyncFromHcm(c)

SyncStep(c) == ApplyHcmBalance(c) \/ FindRow(c) \/ UpsertBalance(c) \/ SaveFails(c)

Next ==
    \/ HcmAdjusts
    \/ TriggerAnniversary
    \/ TriggerYearRefresh
    \/ HcmResets
    \/ \E c \in Slots : HcmStep(c) \/ SyncStep(c)
    \/ \E r \in Requests : Approve(r) \/ Cancel(r)
    \/ \E i \in DOMAIN outbox : Post(i) \/ Confirm(i) \/ GiveUp(i)
    \/ Crash

\* Job c is at a record of a batch, about leave type t.
OfBatch(c, t) == jobs[c].kind = "batch" /\ Current(c).leaveType = t

\* The next step of a handler that is not at an end.
Proceeds(c) == ApplyHcmBalance(c) \/ FindRow(c) \/ UpsertBalance(c)

\* Handlers do not all stop for no reason, and HCM's batches keep coming.  A
\* record that comes again and again is not, each time, cut off by a crash
\* before its query, or by a crash or a failed save after it.
Fairness ==
    /\ WF_vars(\E c \in Slots : Proceeds(c))
    /\ SF_vars(\E c \in Slots : HcmSendsBatch(c))
    /\ \A t \in LeaveTypes :
         /\ SF_vars(\E c \in Slots : OfBatch(c, t) /\ ApplyHcmBalance(c))
         /\ SF_vars(\E c \in Slots : OfBatch(c, t) /\ UpsertBalance(c))

Spec == Init /\ [][Next]_vars /\ Fairness

-------------------------------------------------------------------------------
(* Conditions the code does not guarantee                                  *)

\* Ledger's promise: a request is debited once and credited once, at most.
DecidedOnce ==
    \A i, j \in DOMAIN outbox :
        outbox[i].requestId = outbox[j].requestId /\ outbox[i].eventType = outbox[j].eventType
        => i = j

OnceSpec == Init /\ [][Next /\ DecidedOnce']_vars

\* HCM has at most one debit of a leave type yet to confirm.
OnePending == \A t \in LeaveTypes : Cardinality(PendingDebits(t)) <= 1

OnePendingSpec == Init /\ [][Next /\ OnePending']_vars

\* Webhooks and batches only, and nothing between the findOne and the save
\* of upsertBalance: in the sql.js database of this build neither really
\* waits.  The audit log before them does.
PromptNext ==
    /\ Next
    /\ DecidedOnce'
    /\ OnePending'
    /\ \A c \in Slots : jobs'[c].kind # "sync"
    /\ \A c \in Slots : At(c, "write") => UpsertBalance(c)

PromptSpec == Init /\ [][PromptNext]_vars

-------------------------------------------------------------------------------
(* Properties                                                              *)

\* The cache converges to HCM's balances (TRD.md: "eventual consistency"):
\* once HCM's balances rest and every event is settled, each row comes to
\* show HCM's balance for good, whatever webhooks were lost or overtaken,
\* deductions overwritten or events given up before.
Settled ==
    /\ \A i \in DOMAIN outbox : outbox[i].status # "PENDING"
    /\ \A t \in LeaveTypes : hcm[t] >= 0

Agree == \A t \in LeaveTypes : balances[t] # NoRow /\ balances[t].availableDays = hcm[t]

Converges == <>[]Settled /\ <>[][UNCHANGED hcm]_vars => <>[]Agree

\* "Never goes below 0" (balance.entity.ts).  The conflict resolution does so
\* with two unconfirmed debits.
NonNegative ==
    \A t \in LeaveTypes : balances[t] # NoRow => balances[t].availableDays >= 0

\* "This ensures we never lose an approved-but-not-yet-synced deduction"
\* (TRD.md, of the conflict resolution): while the newest event of a leave
\* type is a PENDING debit and HR changes nothing, the cache shows the
\* balance that debit announced.
DeductionSurvives ==
    \A t \in LeaveTypes : \A i \in PendingDebits(t) :
        (\A j \in DOMAIN outbox : j > i => LeaveType[outbox[j].requestId] # t)
        => balances[t].availableDays = outbox[i].newBalance

\* "trueBalance = hcmBalance - sum(pendingDeductions)" (TRD.md, and a comment
\* in applyHcmBalance): what is passed to upsertBalance, while HCM has stored
\* none of the pending debits.
ResolvedAsDocumented ==
    [][\A c \in Slots :
         LET t == Current(c).leaveType IN
         ApplyHcmBalance(c) /\ PendingDebits(t) \cap posted = {}
         => Head(jobs'[c].todo).balance
              = Current(c).balance
                - MapThenSumSet(LAMBDA i : Days[outbox[i].requestId], PendingDebits(t))]_vars

\* A record of a batch that fails does not take the rest with it: once its
\* processing began, a batch goes on to the next record unless the process
\* dies.
BatchGoesOn ==
    [][\A c \in Slots :
         ( /\ jobs[c].kind = "batch"
           /\ jobs[c].pc \in {"find", "write"}
           /\ Len(jobs[c].todo) > 1 )
         => \/ Crash
            \/ jobs'[c].kind = "batch" /\ Len(jobs'[c].todo) >= Len(jobs[c].todo) - 1]_vars
===============================================================================
