# ReadyOn time-off service: TLA+ models and proofs

`src/server` is a NestJS service that keeps employees' time-off requests and a
local cache of their leave balances; `src/hcm` is a mock of the external HCM
system, which owns the balances. This directory holds TLA+ modules of the
service, TLC configurations that check them on small instances, and TLAPS
proofs of what holds for every value of the constants.

File names below are relative to `src/server/src/modules/` unless they start
with `src/`.

- [Inventory](#inventory)
- [How the models relate to the code](#how-the-models-relate-to-the-code)
- [Modules](#modules)
- [Runs](#runs)
- [Fairness and liveness](#fairness-and-liveness)
- [What is proved](#what-is-proved)
- [Where code and documents disagree](#where-code-and-documents-disagree)
- [What is not modelled](#what-is-not-modelled)
- [Plan](#plan)

## Inventory

### Components

| Component | State it keeps | Operations | What makes it correct |
|---|---|---|---|
| Time-off requests (`time-off-request/time-off-request.service.ts`) | table `time_off_requests`: status, `needsVerification`, unique `idempotencyKey` | `create`, `approve`, `reject`, `cancel`, `findOne`, `findAll` | a request is decided once; APPROVED means its days were taken; CANCELLED means they were given back; a repeated submission is the same request |
| Balances (`balance/balance.service.ts`, `balance.controller.ts`) | table `balances`: available, used and pending days, `lastHcmSync` | `getBalance` (with background refresh), `deductBalance`, `creditBalance`, `applyHcmBalance`, `syncFromHcm`, `upsertBalance` | never overdrawn; every local change is announced to HCM exactly as it happened; a refresh loses no local change |
| Outbox worker (`outbox/outbox.worker.ts`) | table `outbox_events`; in memory: `isRunning` | `processPending` (cron, 5 s), `processEvent`, `getStats` | every event becomes SENT or FAILED; SENT means HCM applied it; settled events stay settled; order is kept; one run at a time |
| HCM client (`hcm-sync/hcm-client.service.ts`) | circuit breaker: CLOSED, OPEN, HALF_OPEN and its rolling window | `getBalance` (through the breaker), `updateBalance` (around it) | an outage is reported as `null` or `false`, never as an error; the breaker recovers when HCM does |
| HCM receiver (`hcm-sync/hcm-sync.controller.ts`) | none | `receiveWebhook`, `receiveBatch` | an update is applied on top of deductions HCM has not heard of; one bad record does not stop a batch |
| HCM store (`src/hcm/src/routes/balances.ts`, middleware) | map of balances | `GET`, `POST`, `DELETE` of a balance; random errors and delays | no negative balance is stored |
| HCM admin (`src/hcm/src/routes/admin.ts`) | error rate, latency | set, bonus, year refresh, reset, send webhook or batch | every change is offered to the service; lost webhooks are made up for by batches |
| Work days (`create`, `calculateWorkDays`) | none | date checks and count of weekdays in a date range | equals the number of weekdays, both ends included, wherever the server runs |
| Audit log, health, configuration, validation, error filter | insert-only table; none | logging, read-only reports, wiring | decide nothing the other components read |

### How they interact

    client --> create / approve / reject / cancel
                 |  reads, deducts, credits (transaction)      ^ webhook, batch
                 v                                             |
            balances row  ----- outbox row (same transaction)  |
                 ^                       |                     |
      syncFromHcm| (GET, breaker)        v cron, 5 s           |
                 +------ HCM <----- outbox worker (POST) -------+

Handlers, the worker and background refreshes run in one Node process: they
interleave at every `await`. They share the three tables. The request service
calls the balance service, which writes the event the worker later reads.
The tables outlive the process; entities, `isRunning` and the breaker do not.

### What is hard here

- **Read, await, write.** `approve`, `reject` and `cancel` read a request,
  await HCM and a transaction, and then save the *whole entity they read*.
  `upsertBalance` and the worker do the same with a balance and an event. The
  `version` columns are never compared: TypeORM's `save` updates by primary key.
- **Two transactions per decision.** The days move in one commit and the status
  in a later one; a crash between them leaves the first without the second.
- **Retries with unknown outcome.** A post that timed out may have been applied,
  or may be applied later; payloads are absolute balances, so order matters.
- **Background work.** A stale read starts a sync that nobody waits for, and a
  batch is applied after its 202 was sent.
- **Timers against answers.** Calls of HCM overlap; the breaker must not judge
  HCM by an answer to a call from before it opened, nor wait for a probe whose
  answer never comes.
- **Local and UTC days.** Dates are parsed as midnight UTC and counted with the
  server's local clock, which may change between two dates.

`PROJECT.json` lists each of these hazards at its line, with the properties
that would catch it going wrong.

## How the models relate to the code

**Grain.** A step goes from one `await` to the next where the `await` may wait.
Between two such points a Node handler runs alone. The body of
`dataSource.transaction` is one step: the sql.js database is in memory, its
calls resolve in microtasks, and the write of the database file comes after the
commit. Reads that follow one another with no write or HTTP call between
them are one step too. Otherwise every read-await-write in the code is (at
least) two steps here, so a handler always acts on what it read, not on what
the table holds now. This allows some interleavings the sql.js build cannot
produce (between a `findOne` and the `save` after it), which is sound for what
passes and for the theorems, and would be real with a networked database. The
runs that show a violation use only windows that are real in this build: a call
to HCM, an answer on its way, and a write of the audit log or of a commit to the
database file.

**Entities and `save`.** What a handler keeps in memory is in its slot
(`calls[c]`, `runs[t]`). `save` writes the entity's columns by primary key,
whatever the row holds by then.

**Crash.** In-memory state is reset, tables stay. The database file
(`autoSave`) is taken to hold what was committed.

**Time.** `lastHcmSync` is reduced to `fresh`: within the cache TTL or not;
`CacheExpires` may clear it at any moment. A timeout may happen at any
moment a call is under way. Only `CircuitBreaker` (ticks of the breaker's
statistics) and `WorkDays` (hours) count time.

**Composition.** The modules meet in two places. `Ledger` is what balances see of
requests: `TimeOffRequests` implements it. `Delivery` is what everybody sees of
the worker: `OutboxWorker` implements it for the events of one balance.
`BalanceSync` contains no worker; its `Post`, `Confirm` and `GiveUp` let an event
go through HCM in every way `Delivery` lets it, in any order, with only the
number of events given up bounded for TLC (`MaxFailed`). That is read off the two
modules and not a theorem: it would take a specification of sync and worker
together, which the plan has.

**Which rows.** A row is identified by employee, location and leave type. In
`TimeOffRequests` and `OutboxWorker` rows do not influence each other, so a module
follows all the requests, or events, of one row. Batches and pulls run through
several rows: `BalanceSync` has one row per leave type of an employee.

**What is left out of the steps.** Writes to the audit log, log lines, errors
other than the modelled refusals (`NotFound`, `Conflict`, `Unprocessable`,
unique-index violations), and failing database calls other than the worker's
`save`. In `TimeOffRequests` the dates of a request are the constant `Days`, its
number of work days; `WorkDays` says which dates are accepted and how the
days are counted. What HCM answers is a free choice there; `CircuitBreaker`
says when it is asked at all.

## Modules

### `BalanceService`

A balance row, an outbox row, and the pure part of each method that writes
them: `Covers`/`Deducted` (`deductBalance`), `Credited` (`creditBalance`),
`Upserted` (`upsertBalance`), `OutboxEntry` (the `save` of the event in both
transactions). It has no variables: the modules below apply these operators in
their actions. Of the row, `usedDays` and `pendingDays` are left out: they are
written and shown, and nothing decides on them.

### `TimeOffRequests`

The tables `requests`, `balance`, `outbox`, and `calls`, a set of slots for
handler invocations in flight. `pc` names the await a slot is at:

| Handler | Steps |
|---|---|
| `create` | `CreateUnseen` \| `CreateCached` \| `CreateStale` (idempotency check, `getBalance`, local check) -> [`SyncReply`, `UpsertBalance`, `CreateLocalCheck`] -> `CreateSave` (HCM check and insert) |
| `approve` | `ApproveStart` -> [`ApproveVerify`] -> `ApproveDeduct` (transaction) -> `ApproveSave` |
| `reject` | `RejectStart` -> `RejectSave` |
| `cancel` | `CancelStart` -> [`CancelCredit` (transaction)] -> `CancelSave` |
| `GET /balances` | `GetBalance` -> background `SyncReply` -> `UpsertBalance` |
| `POST /balances/sync` | `ForceSync` -> `SyncReply` -> `UpsertBalance` -> `GetBalance` |

HCM's answers are a free choice from `HcmReplies`: no answer, an answer without
this leave type, or a balance from `HcmDays`. `Crash` empties the slots.
`Spec` allows any overlap. `SerialSpec` is the same next-state relation
without `Crash`, restricted to states in which no two of approve, reject and
cancel work on the *same* request (`OneDecider`); creations, syncs and the
decisions on other requests still interleave. `HandlerSpec` only drops `Crash`.

### `Ledger`

What the service promises about one balance, with nothing of how: a request is
submitted, approved, rejected or cancelled, and its days move in the same
instant as its status. `TimeOffRequests` implements it under `SerialSpec`, with
the mapping `LedgerStatus`, `LedgerAvailable`: the commit of the transaction
is the moment of decision, so while the save of APPROVED or CANCELLED is still
to come the request already counts as such. `Adjust` is HCM overwriting the
balance, which is HCM's right as the source of truth.

### `OutboxWorker`

The table `outbox` for one balance, the mutex `isRunning`, `runs` of
`processPending`, HCM's row `hcm`, and posts nobody waits for any more (`late`).
`Tick` is the cron handler up to its first post (mutex, `find` with its order
and `take`); `PostArrives` is HCM's `POST` handler; `PostSucceeds`,
`PostRefused`, `PostTimesOut` are the outcomes of `updateBalance`;
`SaveEvent` is `save` and the loop going on; `SaveFails` a `save` that throws,
before or after its row was written, and the `finally` block. `Crash` turns a
post under way into a late one. `applied` counts how often HCM applied an
event and `faults` bounds crashes and failed saves; no guard of the code's
steps reads `applied`.

### `Delivery`

What the outbox promises, with nothing of how: HCM may store the balance an
event announces any number of times and arbitrarily late (`Deliver`), an event is
confirmed only after HCM has stored it (`Confirm`) or is given up (`GiveUp`), is
settled once, and never changes what it announces. Nothing orders the events.
`OutboxWorker!ImplementsDelivery` maps `applied` to the events HCM has stored.

### `BalanceSync`

How HCM's balances get into the table. A slot of `jobs` holds one message from
the moment it leaves HCM to the end of its handler, so messages overtake each
other and die with the process (`Crash`). One that is lost, or rejected for its
signature or a negative balance, changes nothing and takes no slot:

| Message | Steps |
|---|---|
| webhook | `HcmAdjusts` \| `TriggerAnniversary` \| `TriggerYearRefresh` -> `ApplyHcmBalance` -> [`FindRow`] -> `UpsertBalance` \| `SaveFails` |
| batch | `HcmSendsBatch` -> the same per record, going on when a record throws (`Fail`, `GoOn`) |
| pull | `SyncFromHcm` (from HCM's answer on) -> `FindRow` -> `UpsertBalance` \| `SaveFails` per record |

`ApplyHcmBalance` is the query for PENDING events with the conflict resolution
(`Resolved`); if there are such events the audit log is written before
`upsertBalance` reads the row, hence `FindRow` as a step of its own. `Deduct` and
`Credit` are the transactions of `deductBalance` and `creditBalance`, with no more
guards than those have. `Approve` and `Cancel` say when the handlers get there:
an `approve` may debit a request that was debited before (`requests_double_approval`,
or a crash between the two commits), and a `cancel` may credit one again, but not
one that was never debited (`CreditFollowsDebit`). Of the worker only what `Delivery`
promises is kept: an event reaches HCM any number of times, also after it was
settled (`Post`), is SENT only after it did (`Confirm`), or is given up (`GiveUp`).

HCM's admin routes change its store. `HcmAdjusts` sets one balance,
`TriggerAnniversary` adds to the balance HCM has now, `TriggerYearRefresh` sets
every leave type that has a default. Nothing checks the days of the last two, so
they may be negative and HCM's balance with them. Each sends its webhooks through
`Dispatch`: the webhooks of a year refresh are all under way at once, some may not
get through, and HCM does not try those again. `HcmResets` (the store is filled with
the seed data) tells nobody. Only a batch or a pull makes up for what was lost.

The module names conditions that the code does not enforce; each violation run
imposes those under which its violation is not explained by another one:

- `DecidedOnce`: a request is debited once and credited once, at most, as `Ledger`
  promises (`OnceSpec`);
- `OnePending`: at most one debit per leave type that HCM has not confirmed
  (`OnePendingSpec`);
- `PromptSpec`: both, no pulls, and nothing between the `findOne` and the `save` of
  `upsertBalance`, so that only the write of the audit log remains as a window.

### `CircuitBreaker`

The breaker `HcmClientService` puts around its GET, with any number of calls in
flight. A tick is one bucket of the rolling statistics (`window`), a second in
the program. `GetBalance` fires a call and `ShortCircuit` a rejected one; a call
`Succeeds`, `IsRefused` or `TimesOut`; `Tick` moves time and statistics on, and may
not pass a timer that is due. `Opens`, `Closes` and `HalfOpens` are the events
the service listens to: the module's `circuitBreakerState` is the service's
mirror, which always agrees with the library's state since the events are
emitted synchronously. The rules of the breaker itself (`Admits`, `Trips`, the
single probe of a half-open breaker) belong to the external library opossum and
are modelled from the options and events `src/` uses.

### `WorkDays`

`create` up to the call of `calculateWorkDays`, and its loop. Time is counted in
hours; a zone is an offset to UTC that changes once. `LocalDay` is what `getDay` and
`getDate` see, `Instant` turns a local time back into an instant (also one that
does not exist or exists twice, as JavaScript does), `NextDay` is
`setDate(getDate() + 1)`, `StartOfDay` is `setHours(0, 0, 0, 0)`. `Validate` compares
the dates with today and with each other, `CountDay` is the body of the
loop. A request may give timestamps instead of dates, as `@IsDateString` lets it
(`Hours`). `DatesAssumption` says what is assumed of clock changes: they are shorter
than a day, and a skipped hour lies within one local day.

### `MC...`

`MCTimeOffRequests`, `MCOutboxWorker`, `MCBalanceSync` and `MCWorkDays` hold the
values TLC gives to constants that a `.cfg` cannot write; the constants of
`CircuitBreaker` need no such module. Definitions named "Variant for mutation" in a
comment are plausible bugs in the definition that follows them; substituting one
makes the property it is paired with in `PROJECT.json` fail.

## Runs

| Run | Specification | Instance | Question |
|---|---|---|---|
| `requests_concurrent` | `Spec` | 2 requests of 2 and 3 days, 4 days (or no row) at first, HCM may answer 2, 2 slots, 4 outbox rows | What survives any overlap of two handlers, crashes and outages? |
| `requests_serial` | `SerialSpec` | the same, 5 outbox rows | Do handlers that do not decide the same request at once implement the ledger, and take its days once? |
| `requests_double_approval` | `HandlerSpec` | as before, 2 slots, no crash | Are the days of a request taken once? (No.) |
| `outbox_delivery` | `FairSpec` | 3 events, batches of 2, 2 attempts, 1 fault, 2 overlapping ticks; events announce 1, 2 or -1, which HCM refuses | Is every event settled in the end, and is SENT the truth? How often does HCM get an event, and when does it end with an old one? Does the worker implement `Delivery`? |
| `outbox_exactly_once` | `Spec` | 2 events, no fault | Is an event applied at most once? (No.) |
| `outbox_newest` | `Spec` | 2 events with different balances, no fault | Does HCM end with the newest balance? (No.) |
| `balance_sync` | `Spec` | 2 leave types, 1 request of 1 day, 2 debits or credits of it, HCM has 1 day of each leave type, HR may set the vacation to 0, a negative bonus takes a day and a year refresh brings it back, 2 messages under way, 1 event given up | Do the rows come to show HCM's balances in the end, whatever went wrong before? |
| `balance_sync_negative` | `OnceSpec` | 1 leave type with 2 days, 2 requests, 1 message under way | Can two unconfirmed debits make the balance negative? (Yes.) |
| `balance_sync_conflict` | `PromptSpec` | the same, HR changes nothing | Can a deduction be lost while the audit log is written? (Yes.) |
| `balance_sync_resolution` | `OnePendingSpec` | the same, HR may set 3 days | Is the resolved balance the documented one? (No.) |
| `breaker_recovery` | `FairSpec` | 3 overlapping calls, timeout 2, reset timeout 4, statistics over 2 ticks, volume 3, threshold 50 %, 2 calls per tick | Does the breaker judge HCM by a probe of its own, and does it close again? |
| `work_days` | `Spec` | all pairs of 13 dates, each a mere date or a timestamp at 7 or 22 h UTC; UTC, Berlin, Jerusalem, Cairo, Auckland and New York, four of the eight settings with clocks going forward and three going back; 7 hours at which `create` is called | Which days is a request charged, and which dates are refused? |

**Why these bounds.** The balance of 4 covers either request and not both, so two
approvals compete for it, and HCM's 2 covers one request only: refusals,
stale upserts over a deduction and refills all occur. Two slots are enough for
every pair of handlers on one request; a stale `create` takes both, since it
leaves a background sync behind. Four outbox rows hold two full
debit-and-credit cycles. A start of `approve` or `cancel` is guarded by
`RoomInOutbox` so that the bound never cuts a handler in half. In the worker,
batches of two out of three events leave an event behind, two attempts reach
both sides of the retry bound, and one fault may fall between any two steps. In
`balance_sync` HCM's balance may lie above, at and below the cached one, two
messages are enough for one to overtake the other, two events are a debit and a
credit or a request debited twice, one of them possibly given up, and the second
leave type is there for batches with a record left to lose. `BalanceRange` bounds
HCM's balance after a bonus and the row after a credit, and `MaxEvents` the events;
neither cuts off a message. In `breaker_recovery` the numbers keep the order of the real ones
(statistics <= timeout < reset timeout; the code has 10 s, 10 s and 30 s);
three calls reach the volume threshold, can straddle an opening, and leave one
late while another is the probe. In `work_days` the dates span two weekends with
a clock change in between, so a request may lie before, after and across it.

**Symmetry** is used over slots only, in the two passing runs of the requests.
Slots are interchangeable: no definition orders or names them.

**Deadlock** is checked in the request, sync and breaker runs. It is not in the
worker's: with no PENDING event, no late post and its bounds reached, the worker
is quiescent, as the program is. Nor in `work_days`, where `create` comes to its
end; that it comes to no other stop is `Answers`.

What the passing properties say:

- `NonNegative`: check and deduction are one transaction, so overlapping
  approvals never overdraw, even with stale upserts in between. Webhooks and
  batches are not in this module: with them it is false, see
  `balance_sync_negative`.
- `ApprovedWasDebited`, `CreditFollowsDebit`: an approval is shown only after a
  debit was committed; days are given back only after they were taken. This
  holds even when a stale `save` overwrites another decision.
- `NeverReopened`: a repeated submission, or a stale save, never replaces a
  stored request or makes it PENDING again.
- `ImplementsLedger`, `LedgerMatchesStatus` under `SerialSpec`: without
  overlapping decisions on one request the handlers are atomic decisions,
  and debits minus credits is 1 for an approved request and 0 for any other.
  Both are false under `Spec`: two approvals, or two cancellations, that
  overlap count twice, and a crash between the two commits leaves the days taken.
- `DebitedAtMostOnce` under `SerialSpec`: a request that is approved, cancelled and
  approved again is refused the second time. Overlap (`requests_double_approval`)
  and a crash between the two commits are the only ways to a double debit.
- `Converges`: what eventual consistency between cache and HCM amounts to. Before
  HCM rests and the last event is settled anything may happen: webhooks are lost
  or overtake each other, a pull forgets a debit, a refresh overwrites a
  deduction, a debit is given up, a request is debited twice. None of it is
  remembered: each row comes to show HCM's balance, and keeps it. It does not say
  that HCM's balance is right; `outbox_newest` shows that it may not be.
- `BatchGoesOn`: a failed record costs a batch that record and no other. A crash
  ends the batch, and `Converges` is what remains then.
- `ImplementsDelivery` (of `OutboxWorker`): across retries, failed saves, crashes and
  late posts an event is confirmed only if HCM stored it, and settled once.
- `ProbeIsAlone`: when the breaker half-opens nothing from before is under way,
  and then exactly the probe is. It is true because the timeout is shorter than
  the reset timeout; nothing in the code says that the two are related.
- `OpenUntilReset`: answers that come late, good or bad, leave an open breaker open
  and its timer running.
- `EveryCallReturns`, `Recovers`: no caller waits forever, and after an outage the
  breaker closes for good, provided clients keep calling.
- `ChargesLocalDays`: the exact account of what `calculateWorkDays` returns in any
  time zone, for calendar dates, and for timestamps between which the clocks do
  not change. `ChargesWorkDays`: at and east of Greenwich this is the number of
  work days from `startDate` to `endDate`, unless the clocks go back in between.
- `OnlyThePastIsRefused`: no date before today is accepted, and at and east of
  Greenwich nothing else is refused.
- `Answers`: the loop reaches its end although a day may have 23 or 25 hours.
- `RepeatsAreBounded`: how far from exactly-once the worker is. A timeout costs a
  counted attempt, so an event reaches HCM, or may still reach it, at most
  `MaxRetries` times, and once more for each crash or failed save, which may
  forget one count.
- `NewestUnlessRepeated`: what is left of the order of events. If each was sent at
  its first counted attempt and none was applied twice, HCM ends with the newest,
  although crashes, failed saves and posts that arrive late happened on the way.
  With a retry it may not, which is `outbox_newest`.
- `SentWasApplied`, `OldestFirst`, `RetriesAreCounted`, `SettledForGood`,
  `EventuallySettled`: see [What is proved](#what-is-proved).

## Fairness and liveness

`EventuallySettled` (while events are pending, a time comes when none is; as
`MaxRows` caps the events and by `SettledForGood`, each becomes SENT or FAILED
and stays so) is checked under

- `WF` of `Tick`: cron keeps firing every five seconds;
- `WF` of `PostEnds`: axios answers or times out after ten seconds
  (`hcm-client.service.ts:34`);
- `WF` of `SaveEvent \/ SaveFails`: `save` returns or throws.

Nothing is assumed of HCM or of the network: they may refuse or swallow every
post, and the retry bound still settles the event. `Crash` and `SaveFails` have
no fairness and happen at most `MaxFaults` times; with infinitely many crashes
at the same place no attempt is ever counted and the property is false.
No liveness is claimed of the request handlers: a client may never call.

`Converges` is checked under `Fairness` of `BalanceSync`:

- `WF` of `Proceeds`: while handlers are under way, one of them takes a step now and
  then. Awaits of the database and the audit log return;
- `SF` of `HcmSendsBatch`: batches keep coming. This is an assumption about HCM and
  whoever runs it: in `src/hcm` a batch is sent by a call of an admin route, and the
  hourly job of `src/TRD.md:631-633` does not exist in the code. Without it `Converges` is
  false, since HCM sends a webhook once;
- per leave type `SF` of its records' `ApplyHcmBalance` and `UpsertBalance` in batches:
  a record that comes again and again is not cut off each time by a crash before its
  query, or by a crash or a failed save after it. Crashes and failures may go on
  forever, but not always hit the same record.

Its premise `Settled` also says that HCM rests at balances of at least zero: the
server refuses a batch with a negative one as a whole. That every event is settled
in the end is `EventuallySettled` of the worker.

`EveryCallReturns` and `Recovers` are checked under

- `WF` of `Tick` and of `HalfOpens`: time passes and timers fire;
- `WF` of `IsDue(c)`: a call whose time is up returns, with an answer if HCM is
  healthy (that is what "healthy" means: it answers in time) and through the
  timer of the breaker, and of axios, otherwise;
- `Traffic`, `WF` of a call of `getBalance`: only a call can be the probe that closes
  the breaker. Without it `Recovers` is false: a half-open breaker nobody calls
  stays half open. It is an assumption about clients, not about this code.

`Recovers` assumes further that HCM is healthy from some time on, and says nothing
of an HCM that keeps failing now and then. `HcmTurns` and `Restart` have no
fairness.

`Answers` needs `WF` of `Next` only: `create` awaits nothing before the count
is done.

## What is proved

All proofs are checked to the last leaf. They assume only the named `ASSUME`s of
the modules (naturals where the code has naturals, distinct model values).

**`TimeOffRequests_proofs`** (any number of requests, slots, crashes):

- `TypeCorrect`: `Spec => []TypeOK`, one lemma per handler.
- `NeverOverdrawn`: `Spec => []NonNegative`. Inductive with `TypeOK`: only
  `deductBalance`, `creditBalance` and `upsertBalance` write the row, and a slot
  at `upsert` holds an answer of HCM, which is a natural number.
- `ApprovalsAreBacked`, `CreditsAreBacked`: `ApprovedWasDebited` and
  `CreditFollowsDebit`. Neither is inductive alone, since a slot in flight may make
  the table true or false later. `DecisionInv` adds `DebitBeforeSave`: a slot about
  to save APPROVED, or about to credit, serves a request that has a debit row
  already.
- `RequestsAreKept`: from `TypeOK`, because `RequestSaves` lists the saves that write
  the table and the status each one writes.

**`TimeOffRequests_refinement`**: `HandlersImplementLedger`,
`SerialSpec => ImplementsLedger`. The invariant `SerialInv` is `OneDecider` and
`Agreement`: the table still shows what a deciding slot read (`Expected`), which
is exactly what overlap destroys. Each transaction is then one decision of the
ledger, each save of APPROVED or CANCELLED a stutter, `RejectSave`, the start of
a cancellation of a pending request and `CreateSave` a decision of their
own, `UpsertBalance` an `Adjust`, everything else a stutter.

`OutboxMatchesStatus`, `SerialSpec => []LedgerMatchesStatus`, builds on that: how
a step changes the number of debits and credits of a request is determined by
the step of the ledger it maps to (`LedgerSteps`), and appending a row adds one to
the cardinality of one of the two sets of rows. `DaysTakenOnce`,
`SerialSpec => []DebitedAtMostOnce`, does not follow from it (two debits and one
credit would do as well): it needs that a request nobody has decided for has no
debit (`UndecidedIsFree`), and that the ledger never returns to such a status.

**`OutboxWorker_proofs`** (any batch size, retry bound, number of ticks, faults):

- `TypeCorrect` from `Inv1`: `TypeOK`, `Mutex` (at most one active run, and then
  `isRunning`) and `InTable` (its events are rows).
- `SentIsDelivered`, `EventsInOrder`, `RetriesAreBounded`, `SettledIsFinal` from
  `Inv2`, which adds what an active run knows (`Known`): its event and the rest of
  its batch are PENDING in the table with the attempts the run remembers, the
  batch is a prefix of the PENDING events in order, and a run about to save SENT
  had its event applied. The mutex is why: nobody else saves meanwhile.

- `WorkerImplementsDelivery` from `Inv3`. Beside `Inv2` it needs that `applied` speaks
  of rows of the table only (`AppliedInTable`). `PostArrives`, on time or late, is a
  `Deliver`, `SaveEvent` and a `save` that fails after its row was written a `Confirm`,
  a `GiveUp` or (for a retry) a stutter, and `Confirm`'s guard is the part of `Known`
  that says a run about to save SENT had its event applied.
- `RepeatsStayBounded`, `NewestArrivesLast` from `Inv4`, which keeps the account of
  every post. `PostsCounted`: what HCM got of an event, or may still get, is at most
  its attempts in the table and the faults so far, or one more while the active run has
  posted it and not saved it yet. A crash turns a post into a late one, and since one run
  is active it is one post of one event: this is where the mutex enters.
  `PostedInOrder`: if HCM got an event, or may still get it, every older one was
  tried. `SmoothNewest`: as long as nothing was retried or repeated, HCM holds the
  newest event it applied. When HCM stores event `i` and has a newer one already, `i`
  was tried before, hence sent, hence applied before, so this is a repetition.

**`SetSums`** (lemmas about sums over any finite set). The resolution of
`applyHcmBalance` subtracts a sum (`MapThenSumSet`, a fold that takes elements in
the order of `CHOOSE`). That such a sum exists, is unique and does not depend on
which element comes first is an induction over finite sets. It is
proved from a smallest counterexample: strict inclusion of the finite subsets of a
set is well founded (`FS_StrictSubsetOrderingWellFounded`), so a set of subsets
that violate a fact has a least one (`SmallestSubset`), and one element less
contradicts it. This is set theory on one finite set and needs no induction
theorem with an operator as its parameter.

**`BalanceSync_proofs`** (any number of leave types, requests and messages). One
invariant `Within(B)` says that whatever is in the tables or on its way to a row
(records, what events announce, HCM's store) is in the range `B`, and that a handler
with a record left is at a step that works on it. Each action is treated once, for
both ranges:

- `TypeCorrect`, `Spec => []TypeOK`, is the range `Int`: the resolution is a sum of any
  number of debits, and sums of integers are integers.
- `NeverNegative`, `GrantsAreNatural => (OnePendingSpec => []NonNegative)`, is the range
  `Nat`. The sum has at most one term then, and `hcm - (hcm - newBalance)` is what that
  debit announced. Beside `OnePending` it needs that bonuses and year defaults are not
  negative, which nothing in the code ensures (a pull would store such a balance); it
  needs nothing of overlap, order or how often a request is decided. Without
  `OnePending` it is false: `balance_sync_negative`. No run checks it: it is proved only.
- `BatchesGoOn`, `Spec => BatchGoesOn`: by cases on who acts on which slot; the record
  in hand of a batch is touched by its own handler and by a crash only.

**`CircuitBreaker_proofs`** (any number of calls, any timeouts with
`Timeout < ResetTimeout`, any statistics):

- `TypeCorrect`, `ProbesAlone` from `IInv`. Its core is a race between timers: while
  the breaker is open every waiting call has less time left than the reset timer
  (at the opening `left <= Timeout < ResetTimeout`, and both count down together),
  so at the moment it half-opens nobody is waiting.
- `StaysOpen`: by cases on the action.

**`WorkDays_proofs`** (any zones and dates that satisfy `DatesAssumption`):

- `TypeCorrect`, `LocalDaysAreCharged`, `WorkDaysAreCharged`, `PastIsRefused` from
  `IInv`: after counting `n` local days the loop is `n` times 24 hours after
  `start`, or that much and the shift of the clocks if they changed on the way
  (`Position`), which puts it on the `n`-th local day after the first, and `count`
  is the number of work days among those before. The count grows by one element
  of the set at a time, so no induction over data is needed: the loop is the
  induction.

**Only model-checked:** `EventuallySettled`, `Converges`, `EveryCallReturns`,
`Recovers` and `Answers`: liveness under fairness is outside the prover's reach. Every invariant and
every action property that a passing run checks is a theorem too. The runs that show a
violation are counterexamples, not theorems.

## Where code and documents disagree

- **Double approval** (`requests_double_approval`): two approvals that overlap both
  find the request PENDING and both deduct. `src/TRD.md:780` expects a 409 and
  `src/TRD.md:79` optimistic locking. The window is real wherever `approve`
  waits: for HCM when `needsVerification` is set, and for the database file
  after the commit.
- **Exactly-once** (`outbox_exactly_once`): HCM stores `idempotencyKey` and never
  compares it, so a post repeated after a late answer is applied again.
  `outbox/entities/outbox-event.entity.ts:49` says the key guarantees exactly-once
  processing.
- **Old balance wins** (`outbox_newest`): an event that is retried after a newer
  one was delivered sets HCM back to the older absolute balance, with every event
  SENT. `src/TRD.md:34` claims eventual consistency.
- **Negative balance** (`balance_sync_negative`): the resolution subtracts
  `hcmBalance - newBalance` per PENDING debit, but `newBalance` already includes
  earlier debits. Two requests of one day approved within one worker period, HCM
  still at 2: debits announce 1 and 0, and 2 - (1 + 2) = -1 is stored.
  `balance/entities/balance.entity.ts:27` says "Never goes below 0."
- **Lost deduction** (`balance_sync_conflict`): between the query for PENDING events
  and the write of the resolved balance, the debit seen is confirmed and another
  approval deducts; its deduction is overwritten. `src/TRD.md:299` says that this
  never happens.
- **Another balance than documented** (`balance_sync_resolution`): `src/TRD.md:292` and the
  comment at `balance/balance.service.ts:245` define the true balance as HCM's less the
  pending deductions. The code subtracts `hcmBalance - newBalance` for each, which is
  the deducted days only while HCM still has the balance the debit was made on. If HR
  changed it meanwhile, the change cancels out: cache 2, HCM set to 3, a debit of one
  day announces 1, and the webhook's 3 is resolved to 1 instead of 2. The post of the
  debit then sets HCM to 1 as well.

Further differences need no run of their own:

- `src/TRD.md:631-633` has an hourly job pull all balances and apply conflict resolution.
  There is no such job, and `syncFromHcm` (`balance/balance.service.ts:274`) stores what HCM
  answers without looking at PENDING events.
- `time-off-request/entities/time-off-request.entity.ts:60-63` says of a flagged request
  that "Approval will re-verify balance before proceeding." `approve` asks HCM
  (`time-off-request/time-off-request.service.ts:134`), refuses if there is no answer, and
  compares the answer with nothing: the days are taken from the cached balance.
- HCM keeps `usedDays`, resets it with a new year (`src/hcm/src/routes/admin.ts:112`) and
  sends it in batches (259-264); the batch DTO requires it, and the server drops it and
  counts its own. `pendingDays` is documented as the sum of PENDING requests
  (`balance/entities/balance.entity.ts`) and is never increased.
- `bonusDays` and the defaults of a new year (`src/hcm/src/routes/admin.ts:29`, 89-93) are not
  checked. HCM's balance may become negative; its webhooks and batches are then refused
  (`@Min(0)`), the batch as a whole, while a pull stores the negative balance.
- `src/TRD.md:294` marks conflicting events as CONFIRMED, a status the code does not
  have; `src/TRD.md:217` describes a conditional update on `version`, which `save`
  does not issue.
- `src/TRD.md:276` ("Opens after 5 consecutive failures") and the comment at
  `hcm-sync/hcm-client.service.ts:37` ("Opens after 5 failures in a 10s window")
  describe another rule than the options do: more than half of at least five
  calls in the window have to fail (`Trips`). Three failures in five calls are
  enough, and five in ten are not.
- The timeout of a call is as long as the statistics window, so in an HCM that
  only hangs the calls that time out meet a window from which their own start
  has dropped; rejected calls count as fired without failing and dilute the
  rate; a 404 (an employee HCM does not know) counts as a failure.
- A half-open breaker waits for traffic: nobody probes HCM in the background.
- West of Greenwich midnight UTC is the evening before: Sunday to Thursday are
  counted as the work days of a week, and a request for today is refused as past.
  If clocks go back during a request its last day is not counted
  (`ChargesLocalDays`). A request for a weekend is accepted with 0 days.
- `@IsDateString` (`time-off-request/dto/time-off-request.dto.ts:28-34`) accepts
  timestamps, and the loop then counts full 24 hours: from Monday 22 h to
  Wednesday 7 h it charges two days, not three (`ChargesLocalDays`).

## What is not modelled

- The audit log: insert-only, read by nobody.
- Health endpoint, `findAll`, `findOne`, `getStats`, HCM's dump of its store: they
  only read.
- Signatures of webhooks, DTO validation, error filter, module wiring and
  configuration: shape checks of single messages, cryptography, wording. A rejected
  signature is a lost message in `BalanceSync`; configured values are constants.
- `usedDays` and `pendingDays` of a balance row: nothing decides on them.
- HCM's `DELETE`: used by tests only. Its error rate and latency are the
  nondeterminism of `PostRefused`, `PostTimesOut`, the pulls without an answer and
  `HcmTurns`.
- Zones whose offset is no whole number of hours or changes more than once within
  a request, and clock changes that skip a local midnight across two days.
- Options of opossum the service does not use (fallback, cache, capacity, warm-up).
- Corruption of the database file by a crash in the middle of writing it.

## Plan

Done: `BalanceService`, `TimeOffRequests` with `Ledger`, `OutboxWorker` with `Delivery`,
`BalanceSync`, `CircuitBreaker` and `WorkDays`, with their runs and proofs. What is left,
most important first:

1. **Sync and worker together**: one specification of `BalanceSync` and `OutboxWorker`
   over the same events, so that "settled in the end" is a consequence instead of a
   premise of `Converges`, and what HCM ends with can be stated over both.
2. **HCM's own truth**: under which conditions on retries and HR's changes HCM ends with
   the balance that deductions, credits and adjustments add up to.
3. **The audit trail**: whether every committed decision leaves its entry, given that
   the log is written outside the transactions.
4. **Timestamps across a clock change** in `ChargesLocalDays`.
