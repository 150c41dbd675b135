---------------------------- MODULE TimeOffRequests ----------------------------
(***************************************************************************)
(* The request handlers of TimeOffRequestService and the cache reads and   *)
(* refreshes of BalanceService they call, for all requests drawn on one    *)
(* balance row.                                                            *)
(*                                                                         *)
(* Grain.  The server is one Node process: a handler runs alone until it   *)
(* awaits, and any other handler may run meanwhile.  A step of this module *)
(* goes from one await to the next.  Two things are a single step: the     *)
(* body of dataSource.transaction (the sql.js database is in memory, so    *)
(* the awaits inside it only queue microtasks; the write of the database   *)
(* file comes after the commit) and successive reads with no write or      *)
(* HTTP call between them.  A call slot holds what the handler keeps in    *)
(* memory across its awaits: the entity it read, which may be stale when   *)
(* it is saved.  TypeORM's save() writes by primary key every column in    *)
(* which the entity differs from the row.                                  *)
(*                                                                         *)
(* A request is named by its idempotency key, which is unique in the table *)
(* (a call without a key gets a fresh uuid, a key nobody else uses).       *)
(***************************************************************************)
EXTENDS BalanceService, FiniteSets

CONSTANTS
    Keys,         \* idempotency keys, one per request
    Calls,        \* slots for handler invocations in flight
    Days,         \* Days[k]: calculateWorkDays of the dates of request k
    InitialDays,  \* availableDays of the row the database starts with
    HcmDays,      \* the balances HCM may answer with
    MaxOutbox,    \* bound: approve and cancel start only if their row fits
    NoKey,        \* a slot that serves no request
    Null          \* hcmClient.getBalance when HCM does not answer

VARIABLES
    requests,     \* time_off_requests: a row, or NoRow, per key
    balance,      \* the row of balances, or NoRow
    outbox,       \* outbox_events in createdAt order
    calls         \* handler invocations in flight

vars == <<requests, balance, outbox, calls>>

ASSUME RequestsAssumption ==
    /\ Days \in [Keys -> Nat]
    /\ InitialDays \in Nat
    /\ HcmDays \subseteq Nat
    /\ MaxOutbox \in Nat
    /\ NoKey \notin Keys

Statuses == {"PENDING", "APPROVED", "REJECTED", "CANCELLED"}

RequestRow == [status : Statuses, needsVerification : BOOLEAN]

\* What hcmClient.getBalance may return: null, a list without this leave
\* type, or a list with it.
HcmReplies == {Null, NoRow} \cup HcmDays

ASSUME ReplyAssumption ==
    /\ NoRow \notin RequestRow \cup Int
    /\ Null \notin Nat
    /\ Null # NoRow

PCs == {"idle", "getBalance", "sync", "upsert", "localCheck", "hcmCheck",
        "verify", "deduct", "saveApproved", "saveRejected", "credit", "saveCancelled"}

\* pc: where the handler resumes; key: its request; next: where syncFromHcm
\* returns to; needsVerification: of the request entity it read; isNew: the
\* findOne of upsertBalance returned no row; hcm: the balance it will write.
CallFields ==
    [pc : PCs, key : Keys \cup {NoKey}, next : {"idle", "getBalance", "localCheck"},
     needsVerification : BOOLEAN, isNew : BOOLEAN, hcm : Nat]

\* Only cache reads and syncs serve no request, unless create waits for
\* one; only an answer of HCM is written by upsertBalance.
CallRecord ==
    {call \in CallFields :
        /\ call.pc \notin {"idle", "getBalance", "sync", "upsert"} \/ call.next = "localCheck"
             => call.key \in Keys
        /\ call.pc = "upsert" => call.hcm \in HcmDays}

Idle == [pc |-> "idle", key |-> NoKey, next |-> "idle",
         needsVerification |-> FALSE, isNew |-> FALSE, hcm |-> 0]

TypeOK ==
    /\ requests \in [Keys -> RequestRow \cup {NoRow}]
    /\ balance \in BalanceRow \cup {NoRow}
    /\ outbox \in Seq(OutboxRow(Keys))
    /\ calls \in [Calls -> CallRecord]

Init ==
    /\ requests = [k \in Keys |-> NoRow]
    /\ \/ balance = NoRow
       \/ \E f \in BOOLEAN :
            balance = [availableDays |-> InitialDays, fresh |-> f]
    /\ outbox = <<>>
    /\ calls = [c \in Calls |-> Idle]

-------------------------------------------------------------------------------
At(c, pc) == calls[c].pc = pc

\* Call c resumes at pc with the rest of its memory unchanged, or ends.
Resume(c, pc) == calls' = [calls EXCEPT ![c].pc = pc]

Return(c) == calls' = [calls EXCEPT ![c] = Idle]

Serving(pc, k) == [Idle EXCEPT !.pc = pc, !.key = k]

\* Variant for mutation: the caller loses its request across the sync.
ContinueWithoutKey(c) ==
    calls' = [calls EXCEPT ![c] =
                IF @.next = "idle" THEN Idle ELSE Serving(@.next, NoKey)]

\* syncFromHcm returns to the handler that called it.
Continue(c) ==
    calls' = [calls EXCEPT ![c] =
                IF @.next = "idle" THEN Idle ELSE Serving(@.next, @.key)]

\* A call about to await hcmClient.getBalance in syncFromHcm.
Syncing(k, next) == [Idle EXCEPT !.pc = "sync", !.key = k, !.next = next]

HasRequest(k, status) == requests[k] # NoRow /\ requests[k].status = status

Save(k, status, flag) ==
    requests' = [requests EXCEPT ![k] = [status |-> status, needsVerification |-> flag]]

\* approve and cancel are admitted only if every call in flight can still
\* add its row to the outbox.
RoomInOutbox ==
    Len(outbox) + Cardinality({c \in Calls : ~At(c, "idle")}) < MaxOutbox

-------------------------------------------------------------------------------
(* Reading and refreshing the cached balance                               *)

\* Time passes and lastHcmSync falls out of the cache TTL.
CacheExpires ==
    /\ balance # NoRow
    /\ balance.fresh
    /\ balance' = [balance EXCEPT !.fresh = FALSE]
    /\ UNCHANGED <<requests, outbox, calls>>

\* POST /balances/sync: syncFromHcm, then getBalance.
ForceSync(c) ==
    /\ At(c, "idle")
    /\ calls' = [calls EXCEPT ![c] = Syncing(NoKey, "getBalance")]
    /\ UNCHANGED <<requests, balance, outbox>>

\* getBalance with nothing to refresh changes nothing; a missing row is
\* fetched before the answer, a stale one in the background after it.
GetBalance(c) ==
    /\ At(c, "idle") \/ At(c, "getBalance")
    /\ IF balance = NoRow \/ ~balance.fresh
       THEN calls' = [calls EXCEPT ![c] = Syncing(NoKey, "idle")]
       ELSE Return(c)
    /\ UNCHANGED <<requests, balance, outbox>>

\* syncFromHcm after the await: null, or nothing about this leave type,
\* keeps the cache; otherwise upsertBalance reads the row.
SyncReply(c) ==
    /\ At(c, "sync")
    /\ \E reply \in HcmReplies :
         IF reply \in HcmDays
         THEN calls' = [calls EXCEPT ![c].pc = "upsert", ![c].isNew = (balance = NoRow),
                                     ![c].hcm = reply]
         ELSE Continue(c)
    /\ UNCHANGED <<requests, balance, outbox>>

\* upsertBalance writes.  An insert that meets a row inserted meanwhile
\* breaks the unique index and the handler fails.
UpsertBalance(c) ==
    /\ At(c, "upsert")
    /\ IF calls[c].isNew /\ balance # NoRow
       THEN Return(c) /\ UNCHANGED balance
       ELSE /\ balance' = Upserted(calls[c].hcm)
            /\ Continue(c)
    /\ UNCHANGED <<requests, outbox>>

-------------------------------------------------------------------------------
(* create                                                                  *)

ShortOf(k) == balance # NoRow /\ ~Covers(balance, Days[k])

\* A known key returns the original request.  For a new one getBalance
\* finds no row and syncs before the local check, ...
CreateUnseen(c, k) ==
    /\ At(c, "idle")
    /\ requests[k] = NoRow
    /\ balance = NoRow
    /\ calls' = [calls EXCEPT ![c] = Syncing(k, "localCheck")]
    /\ UNCHANGED <<requests, balance, outbox>>

\* ... or serves a fresh row, which must cover the request, ...
CreateCached(c, k) ==
    /\ At(c, "idle")
    /\ requests[k] = NoRow
    /\ balance # NoRow
    /\ balance.fresh
    /\ ~ShortOf(k)
    /\ calls' = [calls EXCEPT ![c] = Serving("hcmCheck", k)]
    /\ UNCHANGED <<requests, balance, outbox>>

\* ... or serves a stale row and leaves a background sync (slot s) behind,
\* even when the request is then refused.
CreateStale(c, s, k) ==
    /\ c # s
    /\ At(c, "idle")
    /\ At(s, "idle")
    /\ requests[k] = NoRow
    /\ balance # NoRow
    /\ ~balance.fresh
    /\ calls' = [calls EXCEPT ![s] = Syncing(NoKey, "idle"),
                              ![c] = IF ShortOf(k) THEN Idle ELSE Serving("hcmCheck", k)]
    /\ UNCHANGED <<requests, balance, outbox>>

\* The local check after getBalance synced: the row, if HCM knew one, is
\* read again.
CreateLocalCheck(c) ==
    /\ At(c, "localCheck")
    /\ IF ShortOf(calls[c].key) THEN Return(c) ELSE Resume(c, "hcmCheck")
    /\ UNCHANGED <<requests, balance, outbox>>

\* Variant for mutation: the idempotency key is not unique in the table.
CreateSaveWithoutUniqueKey(c) ==
    LET k == calls[c].key IN
    /\ At(c, "hcmCheck")
    /\ \E reply \in HcmReplies :
         IF reply \in HcmDays /\ reply < Days[k]
         THEN UNCHANGED requests
         ELSE Save(k, "PENDING", reply = Null)
    /\ Return(c)
    /\ UNCHANGED <<balance, outbox>>

\* HCM answered: refuse, or save the new row, flagged if HCM is down.  A
\* key saved meanwhile breaks the unique index and the call fails.
CreateSave(c) ==
    LET k == calls[c].key IN
    /\ At(c, "hcmCheck")
    /\ \E reply \in HcmReplies :
         IF (reply \in HcmDays /\ reply < Days[k]) \/ requests[k] # NoRow
         THEN UNCHANGED requests
         ELSE Save(k, "PENDING", reply = Null)
    /\ Return(c)
    /\ UNCHANGED <<balance, outbox>>

-------------------------------------------------------------------------------
(* approve                                                                 *)

\* Variant for mutation: approve does not refuse an approved request.
ApproveStartTwice(c, k) ==
    /\ At(c, "idle")
    /\ RoomInOutbox
    /\ HasRequest(k, "PENDING") \/ HasRequest(k, "APPROVED")
    /\ calls' = [calls EXCEPT ![c] =
         [Serving(IF requests[k].needsVerification THEN "verify" ELSE "deduct", k)
            EXCEPT !.needsVerification = requests[k].needsVerification]]
    /\ UNCHANGED <<requests, balance, outbox>>

\* The request is read; a flagged one asks HCM first.
ApproveStart(c, k) ==
    /\ At(c, "idle")
    /\ RoomInOutbox
    /\ HasRequest(k, "PENDING")
    /\ calls' = [calls EXCEPT ![c] =
         [Serving(IF requests[k].needsVerification THEN "verify" ELSE "deduct", k)
            EXCEPT !.needsVerification = requests[k].needsVerification]]
    /\ UNCHANGED <<requests, balance, outbox>>

\* null refuses; any other answer passes, whatever balance it reports.
ApproveVerify(c) ==
    /\ At(c, "verify")
    /\ \E reply \in HcmReplies :
         IF reply = Null THEN Return(c) ELSE Resume(c, "deduct")
    /\ UNCHANGED <<requests, balance, outbox>>

\* Variant for mutation: the caller ignores that deductBalance refused.
ApproveDeductUnchecked(c) ==
    LET k == calls[c].key IN
    /\ At(c, "deduct")
    /\ IF Covers(balance, Days[k])
       THEN /\ balance' = Deducted(balance, Days[k])
            /\ outbox' = Append(outbox, OutboxEntry("BALANCE_DEBIT", k, balance'))
       ELSE UNCHANGED <<balance, outbox>>
    /\ Resume(c, "saveApproved")
    /\ UNCHANGED requests

\* The transaction of deductBalance, or its 404 and 422.
ApproveDeduct(c) ==
    LET k == calls[c].key IN
    /\ At(c, "deduct")
    /\ IF Covers(balance, Days[k])
       THEN /\ balance' = Deducted(balance, Days[k])
            /\ outbox' = Append(outbox, OutboxEntry("BALANCE_DEBIT", k, balance'))
            /\ Resume(c, "saveApproved")
       ELSE Return(c) /\ UNCHANGED <<balance, outbox>>
    /\ UNCHANGED requests

\* The entity read at the start is saved, approved and no longer flagged.
ApproveSave(c) ==
    /\ At(c, "saveApproved")
    /\ Save(calls[c].key, "APPROVED", FALSE)
    /\ Return(c)
    /\ UNCHANGED <<balance, outbox>>

-------------------------------------------------------------------------------
(* reject and cancel                                                       *)

RejectStart(c, k) ==
    /\ At(c, "idle")
    /\ HasRequest(k, "PENDING")
    /\ calls' = [calls EXCEPT ![c] =
         [Serving("saveRejected", k)
            EXCEPT !.needsVerification = requests[k].needsVerification]]
    /\ UNCHANGED <<requests, balance, outbox>>

RejectSave(c) ==
    /\ At(c, "saveRejected")
    /\ Save(calls[c].key, "REJECTED", calls[c].needsVerification)
    /\ Return(c)
    /\ UNCHANGED <<balance, outbox>>

\* Variant for mutation: cancel credits whatever it cancels.
CancelStartAlwaysCredits(c, k) ==
    /\ At(c, "idle")
    /\ RoomInOutbox
    /\ HasRequest(k, "PENDING") \/ HasRequest(k, "APPROVED")
    /\ calls' = [calls EXCEPT ![c] =
         [Serving("credit", k) EXCEPT !.needsVerification = requests[k].needsVerification]]
    /\ UNCHANGED <<requests, balance, outbox>>

\* Variant for mutation: cancel gives no days back.
CancelStartNeverCredits(c, k) ==
    /\ At(c, "idle")
    /\ RoomInOutbox
    /\ HasRequest(k, "PENDING") \/ HasRequest(k, "APPROVED")
    /\ calls' = [calls EXCEPT ![c] =
         [Serving("saveCancelled", k) EXCEPT !.needsVerification = requests[k].needsVerification]]
    /\ UNCHANGED <<requests, balance, outbox>>

\* An approved request is credited before it is saved as cancelled.
CancelStart(c, k) ==
    /\ At(c, "idle")
    /\ RoomInOutbox
    /\ HasRequest(k, "PENDING") \/ HasRequest(k, "APPROVED")
    /\ calls' = [calls EXCEPT ![c] =
         [Serving(IF HasRequest(k, "APPROVED") THEN "credit" ELSE "saveCancelled", k)
            EXCEPT !.needsVerification = requests[k].needsVerification]]
    /\ UNCHANGED <<requests, balance, outbox>>

\* The transaction of creditBalance, or its 404.
CancelCredit(c) ==
    LET k == calls[c].key IN
    /\ At(c, "credit")
    /\ IF balance # NoRow
       THEN /\ balance' = Credited(balance, Days[k])
            /\ outbox' = Append(outbox, OutboxEntry("BALANCE_CREDIT", k, balance'))
            /\ Resume(c, "saveCancelled")
       ELSE Return(c) /\ UNCHANGED <<balance, outbox>>
    /\ UNCHANGED requests

CancelSave(c) ==
    /\ At(c, "saveCancelled")
    /\ Save(calls[c].key, "CANCELLED", calls[c].needsVerification)
    /\ Return(c)
    /\ UNCHANGED <<balance, outbox>>

-------------------------------------------------------------------------------
\* The process stops and restarts: the handlers are gone, the tables stay.
Crash ==
    /\ calls' = [c \in Calls |-> Idle]
    /\ UNCHANGED <<requests, balance, outbox>>

SyncStep(c) == ForceSync(c) \/ GetBalance(c) \/ SyncReply(c) \/ UpsertBalance(c)

CreateStep(c) ==
    \/ \E k \in Keys : CreateUnseen(c, k) \/ CreateCached(c, k)
                       \/ \E s \in Calls : CreateStale(c, s, k)
    \/ CreateLocalCheck(c)
    \/ CreateSave(c)

ApproveStep(c) ==
    \/ \E k \in Keys : ApproveStart(c, k)
    \/ ApproveVerify(c)
    \/ ApproveDeduct(c)
    \/ ApproveSave(c)

RejectStep(c) == (\E k \in Keys : RejectStart(c, k)) \/ RejectSave(c)

CancelStep(c) ==
    (\E k \in Keys : CancelStart(c, k)) \/ CancelCredit(c) \/ CancelSave(c)

HandlerStep ==
    \/ CacheExpires
    \/ \E c \in Calls : SyncStep(c) \/ CreateStep(c) \/ ApproveStep(c)
                        \/ RejectStep(c) \/ CancelStep(c)

Next == HandlerStep \/ Crash

Spec == Init /\ [][Next]_vars

-------------------------------------------------------------------------------
(* Safety, for any number of overlapping handlers and crashes              *)

Debits(k) == {i \in DOMAIN outbox :
                outbox[i].eventType = "BALANCE_DEBIT" /\ outbox[i].requestId = k}

Credits(k) == {i \in DOMAIN outbox :
                outbox[i].eventType = "BALANCE_CREDIT" /\ outbox[i].requestId = k}

\* However approvals overlap, none overdraws the balance: the check and the
\* deduction of deductBalance are one transaction.
NonNegative == balance # NoRow => balance.availableDays >= 0

\* A request shown as APPROVED had its days taken: approve saves the status
\* only after deductBalance committed, and no other stale save can write it.
ApprovedWasDebited ==
    \A k \in Keys : HasRequest(k, "APPROVED") => Debits(k) # {}

\* Days are given back only after they were taken: every BALANCE_CREDIT row
\* follows a BALANCE_DEBIT row of the same request.
CreditFollowsDebit ==
    \A k \in Keys : \A i \in Credits(k) : \E j \in Debits(k) : j < i

\* A submission repeated with the same key never replaces the request the
\* first one created: no step takes a stored row away or back to PENDING.
NeverReopened ==
    [][\A k \in Keys : requests[k] # NoRow =>
         /\ requests'[k] # NoRow
         /\ HasRequest(k, "PENDING") \/ requests'[k].status # "PENDING"]_vars

-------------------------------------------------------------------------------
(* One decision on a request at a time                                     *)

DecisionPCs ==
    {"verify", "deduct", "saveApproved", "saveRejected", "credit", "saveCancelled"}

Deciding(c, k) == calls[c].pc \in DecisionPCs /\ calls[c].key = k

\* No two of approve, reject and cancel overlap on one request.  Handlers of
\* different requests, creations and syncs still interleave.
OneDecider ==
    \A k \in Keys : \A c, d \in Calls : Deciding(c, k) /\ Deciding(d, k) => c = d

SerialNext == HandlerStep /\ OneDecider'

SerialSpec == Init /\ [][SerialNext]_vars

Saving(pc, k) == \E c \in Calls : At(c, pc) /\ calls[c].key = k

\* The status a request is bound to: the transaction that moves the days is
\* the moment of decision, the save that follows makes it visible.
DecidedStatus(k) ==
    IF Saving("saveApproved", k) THEN "APPROVED"
    ELSE IF Saving("saveCancelled", k) THEN "CANCELLED"
    ELSE IF requests[k] = NoRow THEN "NONE" ELSE requests[k].status

LedgerStatus == [k \in Keys |-> DecidedStatus(k)]

LedgerAvailable == IF balance = NoRow THEN NoRow ELSE balance.availableDays

L == INSTANCE Ledger WITH status <- LedgerStatus, available <- LedgerAvailable

\* Without overlapping decisions and crashes the handlers implement the
\* ledger: each transaction is one atomic decision, and REJECTED and
\* CANCELLED are final.
ImplementsLedger == L!Spec

\* ... and the outbox agrees with the table: a request is debited exactly
\* once more than it is credited if it is approved, else equally often.
LedgerMatchesStatus ==
    \A k \in Keys :
        Cardinality(Debits(k)) - Cardinality(Credits(k)) =
            IF DecidedStatus(k) = "APPROVED" THEN 1 ELSE 0

\* Approving twice is refused (the 409 of approve), so its days are taken once.
DebitedAtMostOnce == \A k \in Keys : Cardinality(Debits(k)) <= 1

\* The same specification without crashes, for what overlap alone can do.
HandlerSpec == Init /\ [][HandlerStep]_vars
===============================================================================
