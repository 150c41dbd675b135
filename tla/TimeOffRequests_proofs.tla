------------------------- MODULE TimeOffRequests_proofs -------------------------
(***************************************************************************)
(* Proofs about TimeOffRequests for every set of keys and call slots.      *)
(***************************************************************************)
EXTENDS TimeOffRequests, TLAPS

(***************************************************************************)
(* Types of the values the actions write.                                  *)
(***************************************************************************)
\* The empty slot is a call record.
LEMMA IdleType == Idle \in CallRecord
  BY DEF Idle, CallRecord, CallFields, PCs

\* A slot that starts to serve a request is a call record.
LEMMA ServingType ==
  ASSUME NEW pc \in PCs \ {"upsert"}, NEW k \in Keys, NEW flag \in BOOLEAN
  PROVE  /\ Serving(pc, k) \in CallRecord
         /\ [Serving(pc, k) EXCEPT !.needsVerification = flag] \in CallRecord
  BY DEF Serving, Idle, CallRecord, CallFields

\* A slot that waits for a sync is a call record.
LEMMA SyncingType ==
  ASSUME NEW k \in Keys \cup {NoKey}, NEW n \in {"idle", "getBalance", "localCheck"},
         n = "localCheck" => k \in Keys
  PROVE  Syncing(k, n) \in CallRecord
  BY DEF Syncing, Idle, CallRecord, CallFields, PCs

\* Resume, Return and Continue keep the slots well typed.
LEMMA CallMoves ==
  ASSUME calls \in [Calls -> CallRecord], NEW c \in Calls,
         \/ \E pc \in PCs \ {"upsert"} : calls[c].key \in Keys /\ Resume(c, pc)
         \/ Return(c)
         \/ Continue(c)
  PROVE  calls' \in [Calls -> CallRecord]
<1>1. ASSUME NEW pc \in PCs \ {"upsert"}, calls[c].key \in Keys, Resume(c, pc)
      PROVE  calls' \in [Calls -> CallRecord]
  <2>1. [calls[c] EXCEPT !.pc = pc] \in CallRecord
    BY <1>1 DEF CallRecord, CallFields
  <2> QED BY <1>1, <2>1 DEF Resume
<1>2. CASE Return(c)
  BY <1>2, IdleType DEF Return
<1>3. CASE Continue(c)
  <2>1. CASE calls[c].next = "idle"
    BY <1>3, <2>1, IdleType DEF Continue
  <2>2. CASE calls[c].next = "localCheck"
    <3>1. calls[c].key \in Keys /\ "localCheck" \in PCs
      BY <2>2 DEF CallRecord, PCs
    <3>2. Serving("localCheck", calls[c].key) \in CallRecord
      BY <3>1, ServingType
    <3> QED BY <1>3, <2>2, <3>2 DEF Continue
  <2>3. CASE calls[c].next = "getBalance"
    <3>1. Serving("getBalance", calls[c].key) \in CallRecord
      BY DEF Serving, Idle, CallRecord, CallFields, PCs
    <3> QED BY <1>3, <2>3, <3>1 DEF Continue
  <2> QED BY <2>1, <2>2, <2>3 DEF CallRecord, CallFields
<1> QED BY <1>1, <1>2, <1>3

\* Taking days keeps a balance row a balance row.
LEMMA DeductedType ==
  ASSUME NEW row \in BalanceRow, NEW days \in Nat
  PROVE  Deducted(row, days) \in BalanceRow
  BY DEF Deducted, BalanceRow

\* Giving days back keeps a balance row a balance row.
LEMMA CreditedType ==
  ASSUME NEW row \in BalanceRow, NEW days \in Nat
  PROVE  Credited(row, days) \in BalanceRow
  BY DEF Credited, BalanceRow

\* A synced row is a balance row.
LEMMA UpsertedType ==
  ASSUME NEW days \in Nat
  PROVE  Upserted(days) \in BalanceRow
  BY DEF Upserted, BalanceRow

\* Saving a request entity keeps the table well typed.
LEMMA SaveType ==
  ASSUME requests \in [Keys -> RequestRow \cup {NoRow}], NEW k \in Keys,
         NEW status \in Statuses, NEW flag \in BOOLEAN, Save(k, status, flag)
  PROVE  requests' \in [Keys -> RequestRow \cup {NoRow}]
<1>1. [status |-> status, needsVerification |-> flag] \in RequestRow
  BY DEF RequestRow
<1> QED BY <1>1 DEF Save

--------------------------------------------------------------------------------
(***************************************************************************)
(* Type correctness.                                                       *)
(***************************************************************************)
\* A sync or cache read (SyncStep) preserves the types of all the tables.
LEMMA SyncStepType ==
  ASSUME TypeOK, NEW c \in Calls, SyncStep(c)
  PROVE  TypeOK'
<1> USE RequestsAssumption, ReplyAssumption DEF TypeOK
<1>1. CASE ForceSync(c)
  BY <1>1, SyncingType DEF ForceSync
<1>2. CASE GetBalance(c)
  <2>1. CASE balance = NoRow \/ ~balance.fresh
    BY <1>2, <2>1, SyncingType DEF GetBalance
  <2>2. CASE ~(balance = NoRow \/ ~balance.fresh)
    BY <1>2, <2>2, CallMoves DEF GetBalance
  <2> QED BY <2>1, <2>2
<1>3. CASE SyncReply(c)
  <2>1. PICK reply \in HcmReplies :
          IF reply \in HcmDays
          THEN calls' = [calls EXCEPT ![c].pc = "upsert", ![c].isNew = (balance = NoRow),
                                      ![c].hcm = reply]
          ELSE Continue(c)
    BY <1>3 DEF SyncReply
  <2>2. CASE reply \in HcmDays
    <3>1. [calls[c] EXCEPT !.pc = "upsert", !.isNew = (balance = NoRow), !.hcm = reply] \in CallRecord
      <4>1. calls[c] \in CallFields /\ calls[c].pc = "sync"
        BY <1>3 DEF SyncReply, At, CallRecord
      <4>2. calls[c].next = "localCheck" => calls[c].key \in Keys
        BY <4>1 DEF CallRecord
      <4>3. (balance = NoRow) \in BOOLEAN /\ "upsert" \in PCs
        BY DEF PCs
      <4>4. reply \in Nat
        BY <2>2
      <4> HIDE DEF TypeOK
      <4> QED BY <2>2, <4>1, <4>2, <4>3, <4>4 DEF CallRecord, CallFields
    <3>2. calls' = [calls EXCEPT ![c] =
             [calls[c] EXCEPT !.pc = "upsert", !.isNew = (balance = NoRow), !.hcm = reply]]
      BY <2>1, <2>2
    <3> QED BY <1>3, <3>1, <3>2 DEF SyncReply
  <2>3. CASE reply \notin HcmDays
    BY <1>3, <2>1, <2>3, CallMoves DEF SyncReply
  <2> QED BY <2>2, <2>3
<1>4. CASE UpsertBalance(c)
  <2>1. CASE calls[c].isNew /\ balance # NoRow
    BY <1>4, <2>1, CallMoves DEF UpsertBalance
  <2>2. CASE ~(calls[c].isNew /\ balance # NoRow)
    <3>1. Upserted(calls[c].hcm) \in BalanceRow
      BY UpsertedType DEF CallRecord, CallFields
    <3> QED BY <1>4, <2>2, <3>1, CallMoves DEF UpsertBalance
  <2> QED BY <2>1, <2>2
<1> QED BY <1>1, <1>2, <1>3, <1>4 DEF SyncStep

\* Every step of create preserves the types.
LEMMA CreateStepType ==
  ASSUME TypeOK, NEW c \in Calls, CreateStep(c)
  PROVE  TypeOK'
<1> USE RequestsAssumption, ReplyAssumption DEF TypeOK
<1>1. ASSUME NEW k \in Keys, CreateUnseen(c, k) PROVE TypeOK'
  BY <1>1, SyncingType DEF CreateUnseen
<1>2. ASSUME NEW k \in Keys, CreateCached(c, k) PROVE TypeOK'
  BY <1>2, ServingType DEF CreateCached, PCs
<1>3. ASSUME NEW k \in Keys, NEW s \in Calls, CreateStale(c, s, k) PROVE TypeOK'
  <2>1. (IF ShortOf(k) THEN Idle ELSE Serving("hcmCheck", k)) \in CallRecord
    BY IdleType, ServingType DEF PCs
  <2>2. Syncing(NoKey, "idle") \in CallRecord
    BY SyncingType
  <2> QED BY <1>3, <2>1, <2>2 DEF CreateStale
<1>4. CASE CreateLocalCheck(c)
  <2>1. "hcmCheck" \in PCs /\ calls[c].key \in Keys
    BY <1>4 DEF PCs, CreateLocalCheck, At, CallRecord
  <2> QED BY <1>4, <2>1, CallMoves DEF CreateLocalCheck
<1>5. CASE CreateSave(c)
  <2>1. calls' \in [Calls -> CallRecord]
    BY <1>5, CallMoves DEF CreateSave
  <2>2. requests' \in [Keys -> RequestRow \cup {NoRow}]
    <3>1. PICK reply \in HcmReplies :
            IF (reply \in HcmDays /\ reply < Days[calls[c].key])
                 \/ requests[calls[c].key] # NoRow
            THEN UNCHANGED requests
            ELSE Save(calls[c].key, "PENDING", reply = Null)
      BY <1>5 DEF CreateSave
    <3>2. (reply = Null) \in BOOLEAN /\ "PENDING" \in Statuses
      BY DEF Statuses
    <3>3. ASSUME Save(calls[c].key, "PENDING", reply = Null)
          PROVE  requests' \in [Keys -> RequestRow \cup {NoRow}]
      <4>1. [status |-> "PENDING", needsVerification |-> (reply = Null)] \in RequestRow
        BY <3>2 DEF RequestRow
      <4> QED BY <3>3, <4>1 DEF Save
    <3> QED BY <3>1, <3>3
  <2> QED BY <1>5, <2>1, <2>2 DEF CreateSave
<1> QED BY <1>1, <1>2, <1>3, <1>4, <1>5 DEF CreateStep

\* A handler that read request k starts with a well-typed slot.
LEMMA StartType ==
  ASSUME TypeOK, NEW k \in Keys, requests[k] # NoRow, NEW pc \in PCs \ {"upsert"}
  PROVE  [Serving(pc, k) EXCEPT !.needsVerification = requests[k].needsVerification]
           \in CallRecord
<1>1. requests[k].needsVerification \in BOOLEAN
  BY DEF TypeOK, RequestRow
<1> QED BY <1>1, ServingType DEF CallRecord

\* Saving the request of call c, under any status and flag, keeps the table.
LEMMA SaveCallType ==
  ASSUME TypeOK, NEW c \in Calls, NEW status \in Statuses, NEW flag \in BOOLEAN,
         Save(calls[c].key, status, flag)
  PROVE  requests' \in [Keys -> RequestRow \cup {NoRow}]
<1>1. [status |-> status, needsVerification |-> flag] \in RequestRow
  BY DEF RequestRow
<1> QED BY <1>1 DEF Save, TypeOK

\* Every step of approve preserves the types.
LEMMA ApproveStepType ==
  ASSUME TypeOK, NEW c \in Calls, ApproveStep(c)
  PROVE  TypeOK'
<1> USE RequestsAssumption DEF TypeOK
<1>1. ASSUME NEW k \in Keys, ApproveStart(c, k) PROVE TypeOK'
  <2>1. (IF requests[k].needsVerification THEN "verify" ELSE "deduct") \in PCs
    BY DEF PCs
  <2> QED BY <1>1, <2>1, StartType DEF ApproveStart, HasRequest
<1>2. CASE ApproveVerify(c)
  <2>1. "deduct" \in PCs /\ calls[c].key \in Keys
    BY <1>2 DEF PCs, ApproveVerify, At, CallRecord
  <2> QED BY <1>2, <2>1, CallMoves DEF ApproveVerify
<1>3. CASE ApproveDeduct(c)
  <2> DEFINE k == calls[c].key
  <2>1. k \in Keys /\ "saveApproved" \in PCs
    BY <1>3 DEF ApproveDeduct, At, CallRecord, PCs
  <2>2. CASE Covers(balance, Days[k])
    <3>1. balance' = Deducted(balance, Days[k]) /\ balance' \in BalanceRow
      BY <1>3, <2>1, <2>2, DeductedType DEF ApproveDeduct, Covers
    <3>2. outbox' = Append(outbox, OutboxEntry("BALANCE_DEBIT", k, balance'))
      BY <1>3, <2>2 DEF ApproveDeduct
    <3>3. "BALANCE_DEBIT" \in EventTypes
      BY DEF EventTypes
    <3>4. OutboxEntry("BALANCE_DEBIT", k, balance') \in OutboxRow(Keys)
      BY <2>1, <3>1, <3>3 DEF OutboxEntry, OutboxRow, OutboxStatuses, BalanceRow
    <3>5. outbox' \in Seq(OutboxRow(Keys))
      BY <3>2, <3>4
    <3> QED BY <1>3, <2>1, <2>2, <3>1, <3>5, CallMoves DEF ApproveDeduct
  <2>3. CASE ~Covers(balance, Days[k])
    BY <1>3, <2>3, CallMoves DEF ApproveDeduct
  <2> QED BY <2>2, <2>3
<1>4. CASE ApproveSave(c)
  <2>1. requests' \in [Keys -> RequestRow \cup {NoRow}]
    BY <1>4, SaveCallType DEF ApproveSave, Statuses
  <2> QED BY <1>4, <2>1, CallMoves DEF ApproveSave
<1> QED BY <1>1, <1>2, <1>3, <1>4 DEF ApproveStep

\* Every step of reject preserves the types.
LEMMA RejectStepType ==
  ASSUME TypeOK, NEW c \in Calls, RejectStep(c)
  PROVE  TypeOK'
<1> USE RequestsAssumption DEF TypeOK
<1>1. ASSUME NEW k \in Keys, RejectStart(c, k) PROVE TypeOK'
  BY <1>1, StartType DEF RejectStart, HasRequest, PCs
<1>2. CASE RejectSave(c)
  <2>1. calls[c].needsVerification \in BOOLEAN
    BY DEF CallRecord, CallFields
  <2>2. requests' \in [Keys -> RequestRow \cup {NoRow}]
    BY <1>2, <2>1, SaveCallType DEF RejectSave, Statuses
  <2> QED BY <1>2, <2>2, CallMoves DEF RejectSave
<1> QED BY <1>1, <1>2 DEF RejectStep

\* Every step of cancel preserves the types.
LEMMA CancelStepType ==
  ASSUME TypeOK, NEW c \in Calls, CancelStep(c)
  PROVE  TypeOK'
<1> USE RequestsAssumption DEF TypeOK
<1>1. ASSUME NEW k \in Keys, CancelStart(c, k) PROVE TypeOK'
  <2>1. (IF HasRequest(k, "APPROVED") THEN "credit" ELSE "saveCancelled") \in PCs
    BY DEF PCs
  <2>2. requests[k] # NoRow
    BY <1>1 DEF CancelStart, HasRequest
  <2> QED BY <1>1, <2>1, <2>2, StartType DEF CancelStart
<1>2. CASE CancelCredit(c)
  <2> DEFINE k == calls[c].key
  <2>1. k \in Keys /\ "saveCancelled" \in PCs
    BY <1>2 DEF CancelCredit, At, CallRecord, PCs
  <2>2. CASE balance # NoRow
    <3>1. balance' = Credited(balance, Days[k]) /\ balance' \in BalanceRow
      BY <1>2, <2>1, <2>2, CreditedType DEF CancelCredit
    <3>2. outbox' = Append(outbox, OutboxEntry("BALANCE_CREDIT", k, balance'))
      BY <1>2, <2>2 DEF CancelCredit
    <3>3. "BALANCE_CREDIT" \in EventTypes
      BY DEF EventTypes
    <3>4. OutboxEntry("BALANCE_CREDIT", k, balance') \in OutboxRow(Keys)
      BY <2>1, <3>1, <3>3 DEF OutboxEntry, OutboxRow, OutboxStatuses, BalanceRow
    <3>5. outbox' \in Seq(OutboxRow(Keys))
      BY <3>2, <3>4
    <3> QED BY <1>2, <2>1, <2>2, <3>1, <3>5, CallMoves DEF CancelCredit
  <2>3. CASE balance = NoRow
    BY <1>2, <2>3, CallMoves DEF CancelCredit
  <2> QED BY <2>2, <2>3
<1>3. CASE CancelSave(c)
  <2>1. calls[c].needsVerification \in BOOLEAN
    BY DEF CallRecord, CallFields
  <2>2. requests' \in [Keys -> RequestRow \cup {NoRow}]
    BY <1>3, <2>1, SaveCallType DEF CancelSave, Statuses
  <2> QED BY <1>3, <2>2, CallMoves DEF CancelSave
<1> QED BY <1>1, <1>2, <1>3 DEF CancelStep

\* The tables start well typed and every slot is free.
LEMMA TypeInit == Init => TypeOK
<1> SUFFICES ASSUME Init PROVE TypeOK
  OBVIOUS
<1>1. balance \in BalanceRow \cup {NoRow}
  BY RequestsAssumption DEF Init, BalanceRow
<1>2. calls \in [Calls -> CallRecord]
  BY IdleType DEF Init
<1>3. requests \in [Keys -> RequestRow \cup {NoRow}] /\ outbox \in Seq(OutboxRow(Keys))
  BY DEF Init
<1> QED BY <1>1, <1>2, <1>3 DEF TypeOK

\* Every step preserves the types.
LEMMA TypeStep == TypeOK /\ [Next]_vars => TypeOK'
<1> SUFFICES ASSUME TypeOK, [Next]_vars PROVE TypeOK'
  OBVIOUS
<1>1. CASE UNCHANGED vars
  BY <1>1 DEF TypeOK, vars
<1>2. CASE CacheExpires
  BY <1>2 DEF CacheExpires, TypeOK, BalanceRow
<1>3. CASE Crash
  BY <1>3, IdleType DEF Crash, TypeOK
<1>4. ASSUME NEW c \in Calls,
             SyncStep(c) \/ CreateStep(c) \/ ApproveStep(c) \/ RejectStep(c) \/ CancelStep(c)
      PROVE  TypeOK'
  BY <1>4, SyncStepType, CreateStepType, ApproveStepType, RejectStepType, CancelStepType
<1> QED BY <1>1, <1>2, <1>3, <1>4 DEF Next, HandlerStep

\* The tables and the call slots always hold values of their types,
\* whatever handlers overlap and wherever the process crashes.
THEOREM TypeCorrect == Spec => []TypeOK
  BY TypeInit, TypeStep, PTL DEF Spec

--------------------------------------------------------------------------------
(***************************************************************************)
(* Which actions write which table.                                        *)
(***************************************************************************)
\* The balance is written by the cache clock, upsertBalance and the two
\* transactions only.
LEMMA BalanceWriters ==
  ASSUME [Next]_vars
  PROVE  \/ balance' = balance
         \/ CacheExpires
         \/ \E c \in Calls : UpsertBalance(c) \/ ApproveDeduct(c) \/ CancelCredit(c)
  BY DEF vars, Next, HandlerStep, SyncStep, ForceSync, GetBalance, SyncReply,
         CreateStep, CreateUnseen, CreateCached, CreateStale, CreateLocalCheck, CreateSave,
         ApproveStep, ApproveStart, ApproveVerify, ApproveSave,
         RejectStep, RejectStart, RejectSave, CancelStep, CancelStart, CancelSave, Crash

\* The outbox is written by the two transactions only.
LEMMA OutboxWriters ==
  ASSUME [Next]_vars
  PROVE  \/ outbox' = outbox
         \/ \E c \in Calls : ApproveDeduct(c) \/ CancelCredit(c)
  BY DEF vars, Next, HandlerStep, CacheExpires, SyncStep, ForceSync, GetBalance, SyncReply,
         UpsertBalance, CreateStep, CreateUnseen, CreateCached, CreateStale,
         CreateLocalCheck, CreateSave, ApproveStep, ApproveStart, ApproveVerify,
         ApproveSave, RejectStep, RejectStart, RejectSave, CancelStep, CancelStart,
         CancelSave, Crash

\* The requests are written by the four saves only.
LEMMA RequestWriters ==
  ASSUME [Next]_vars
  PROVE  \/ requests' = requests
         \/ \E c \in Calls : CreateSave(c) \/ ApproveSave(c) \/ RejectSave(c) \/ CancelSave(c)
  BY DEF vars, Next, HandlerStep, CacheExpires, SyncStep, ForceSync, GetBalance, SyncReply,
         UpsertBalance, CreateStep, CreateUnseen, CreateCached, CreateStale,
         CreateLocalCheck, ApproveStep, ApproveStart, ApproveVerify, ApproveDeduct,
         RejectStep, RejectStart, CancelStep, CancelStart, CancelCredit, Crash

\* A save writes PENDING only where there was no row; other saves write a
\* decision.
LEMMA RequestSaves ==
  ASSUME TypeOK, [Next]_vars
  PROVE  \/ requests' = requests
         \/ \E c \in Calls, f \in BOOLEAN :
              \/ requests[calls[c].key] = NoRow /\ Save(calls[c].key, "PENDING", f)
              \/ ApproveSave(c)
              \/ \E s \in {"REJECTED", "CANCELLED"} : Save(calls[c].key, s, f)
<1>1. ASSUME NEW c \in Calls, CreateSave(c)
      PROVE  \/ requests' = requests
             \/ \E f \in BOOLEAN :
                  requests[calls[c].key] = NoRow /\ Save(calls[c].key, "PENDING", f)
  <2>1. \A reply : (reply = Null) \in BOOLEAN
    OBVIOUS
  <2> QED BY <1>1, <2>1 DEF CreateSave
<1>2. ASSUME NEW c \in Calls, RejectSave(c) \/ CancelSave(c)
      PROVE  \E s \in {"REJECTED", "CANCELLED"}, f \in BOOLEAN : Save(calls[c].key, s, f)
  <2>1. calls[c].needsVerification \in BOOLEAN
    BY DEF TypeOK, CallRecord, CallFields
  <2> QED BY <1>2, <2>1 DEF RejectSave, CancelSave
<1> QED BY <1>1, <1>2, RequestWriters

\* A save of request q gives the row it names and touches no other.
LEMMA SavedRow ==
  ASSUME TypeOK, NEW q, NEW s \in Statuses, NEW f \in BOOLEAN, Save(q, s, f), NEW k \in Keys
  PROVE  \/ k # q /\ requests'[k] = requests[k]
         \/ /\ k = q
            /\ requests'[k] # NoRow
            /\ requests'[k].status = s
            /\ requests'[k].needsVerification = f
<1>1. [status |-> s, needsVerification |-> f] \in RequestRow
  BY DEF RequestRow
<1>2. [status |-> s, needsVerification |-> f] # NoRow
  BY <1>1, ReplyAssumption
<1> QED BY <1>2 DEF Save, TypeOK

--------------------------------------------------------------------------------
(***************************************************************************)
(* The balance is never overdrawn.                                         *)
(***************************************************************************)
\* deductBalance checks and deducts in one transaction, so no interleaving
\* of handlers separates the check from the deduction.
LEMMA NonNegativeStep ==
  ASSUME TypeOK, NonNegative, [Next]_vars
  PROVE  NonNegative'
<1> USE RequestsAssumption
<1>1. CASE balance' = balance
  BY <1>1 DEF NonNegative
<1>2. CASE CacheExpires
  BY <1>2 DEF CacheExpires, NonNegative, TypeOK, BalanceRow
<1>3. ASSUME NEW c \in Calls, UpsertBalance(c) PROVE NonNegative'
  <2>1. calls[c].hcm \in Nat
    BY DEF TypeOK, CallRecord, CallFields
  <2> QED BY <1>3, <2>1 DEF UpsertBalance, Upserted, NonNegative
<1>4. ASSUME NEW c \in Calls, ApproveDeduct(c) PROVE NonNegative'
  <2>1. calls[c].key \in Keys
    BY <1>4 DEF ApproveDeduct, At, TypeOK, CallRecord
  <2>2. CASE Covers(balance, Days[calls[c].key])
    BY <1>4, <2>1, <2>2 DEF ApproveDeduct, Covers, Deducted, NonNegative, TypeOK, BalanceRow
  <2>3. CASE ~Covers(balance, Days[calls[c].key])
    BY <1>4, <2>3 DEF ApproveDeduct, NonNegative
  <2> QED BY <2>2, <2>3
<1>5. ASSUME NEW c \in Calls, CancelCredit(c) PROVE NonNegative'
  <2>1. calls[c].key \in Keys
    BY <1>5 DEF CancelCredit, At, TypeOK, CallRecord
  <2> QED BY <1>5, <2>1 DEF CancelCredit, Credited, NonNegative, TypeOK, BalanceRow
<1> QED BY <1>1, <1>2, <1>3, <1>4, <1>5, BalanceWriters

\* availableDays never goes below zero, however many approvals overlap, with
\* syncs and crashes at any point: no double spending past the balance.
THEOREM NeverOverdrawn == Spec => []NonNegative
<1>1. Init => NonNegative
  BY RequestsAssumption DEF Init, NonNegative
<1>2. TypeOK /\ NonNegative /\ [Next]_vars => NonNegative'
  BY NonNegativeStep
<1> QED BY <1>1, <1>2, TypeCorrect, PTL DEF Spec

--------------------------------------------------------------------------------
(***************************************************************************)
(* A decision and its outbox row.                                          *)
(***************************************************************************)
\* A slot about to save APPROVED, or to credit, has a debit behind it.
DebitBeforeSave ==
  \A c \in Calls : calls[c].pc \in {"saveApproved", "credit"} => Debits(calls[c].key) # {}

\* ApprovedWasDebited is not inductive alone: the save that writes APPROVED
\* relies on the transaction its slot ran before.
DecisionInv ==
  /\ ApprovedWasDebited
  /\ DebitBeforeSave
  /\ CreditFollowsDebit

\* What the moves of slot c do to slot d.
LEMMA SlotMoves ==
  ASSUME calls \in [Calls -> CallRecord], NEW c \in Calls
  PROVE  /\ \A pc : Resume(c, pc) =>
              /\ calls'[c].pc = pc
              /\ calls'[c].key = calls[c].key
              /\ \A d \in Calls \ {c} : calls'[d] = calls[d]
         /\ Return(c) =>
              /\ calls'[c] = Idle
              /\ calls'[c].pc = "idle"
              /\ \A d \in Calls \ {c} : calls'[d] = calls[d]
         /\ Continue(c) =>
              /\ calls'[c].pc \in {"idle", "getBalance", "localCheck"}
              /\ \A d \in Calls \ {c} : calls'[d] = calls[d]
         /\ \A pc, k, n, f :
              /\ Serving(pc, k).pc = pc
              /\ Serving(pc, k).key = k
              /\ [Serving(pc, k) EXCEPT !.needsVerification = f].pc = pc
              /\ [Serving(pc, k) EXCEPT !.needsVerification = f].key = k
              /\ Syncing(k, n).pc = "sync"
              /\ Idle.pc = "idle"
<1>1. \A pc : Resume(c, pc) =>
              /\ calls'[c].pc = pc
              /\ calls'[c].key = calls[c].key
              /\ \A d \in Calls \ {c} : calls'[d] = calls[d]
  BY DEF Resume, CallRecord, CallFields
<1>2. Return(c) =>
              /\ calls'[c] = Idle
              /\ calls'[c].pc = "idle"
              /\ \A d \in Calls \ {c} : calls'[d] = calls[d]
  BY DEF Return, Idle
<1>3. Continue(c) =>
              /\ calls'[c].pc \in {"idle", "getBalance", "localCheck"}
              /\ \A d \in Calls \ {c} : calls'[d] = calls[d]
  BY DEF Continue, Idle, Serving, CallRecord, CallFields
<1>4. \A pc, k, n, f :
              /\ Serving(pc, k).pc = pc
              /\ Serving(pc, k).key = k
              /\ [Serving(pc, k) EXCEPT !.needsVerification = f].pc = pc
              /\ [Serving(pc, k) EXCEPT !.needsVerification = f].key = k
              /\ Syncing(k, n).pc = "sync"
              /\ Idle.pc = "idle"
  BY DEF Serving, Syncing, Idle
<1> QED BY <1>1, <1>2, <1>3, <1>4

\* How a slot comes to the pc of a decision it was not at before: by
\* reading the request, or by the next await of the same handler.
Decides(d) ==
  \/ calls'[d] = calls[d]
  \/ \E k \in Keys :
       /\ calls'[d].key = k
       /\ \/ ApproveStart(d, k) /\ calls'[d].pc \in {"verify", "deduct"}
          \/ RejectStart(d, k) /\ calls'[d].pc = "saveRejected"
          \/ CancelStart(d, k) /\ HasRequest(k, "APPROVED") /\ calls'[d].pc = "credit"
          \/ /\ CancelStart(d, k)
             /\ ~HasRequest(k, "APPROVED")
             /\ calls'[d].pc = "saveCancelled"
  \/ /\ calls'[d].key = calls[d].key
     /\ \/ ApproveVerify(d) /\ calls'[d].pc = "deduct"
        \/ /\ ApproveDeduct(d)
           /\ Covers(balance, Days[calls[d].key])
           /\ calls'[d].pc = "saveApproved"
        \/ CancelCredit(d) /\ balance # NoRow /\ calls'[d].pc = "saveCancelled"

\* The cases above are all there are.
LEMMA WhoDecides ==
  ASSUME TypeOK, [Next]_vars, NEW d \in Calls, calls'[d].pc \in DecisionPCs
  PROVE  Decides(d)
<1> DEFINE Goal == Decides(d)
<1>0. calls \in [Calls -> CallRecord]
  BY DEF TypeOK
<1>1. CASE UNCHANGED vars \/ CacheExpires \/ Crash
  BY <1>1 DEF vars, CacheExpires, Crash, Idle, Decides, DecisionPCs
<1>2. ASSUME NEW c \in Calls, SyncStep(c) PROVE Goal
  <2>1. CASE ForceSync(c)
    BY <1>0, <2>1, SlotMoves DEF ForceSync, Decides, DecisionPCs
  <2>2. CASE GetBalance(c)
    BY <1>0, <2>2, SlotMoves DEF GetBalance, Decides, DecisionPCs
  <2>3. CASE SyncReply(c)
    <3>1. calls'[d].pc \in {"upsert", "idle", "getBalance", "localCheck"} \/ calls'[d] = calls[d]
      BY <1>0, <2>3, SlotMoves DEF SyncReply, CallRecord, CallFields, Decides, DecisionPCs
    <3> QED BY <3>1 DEF Decides, DecisionPCs
  <2>4. CASE UpsertBalance(c)
    BY <1>0, <2>4, SlotMoves DEF UpsertBalance, Decides, DecisionPCs
  <2> QED BY <1>2, <2>1, <2>2, <2>3, <2>4 DEF SyncStep
<1>3. ASSUME NEW c \in Calls, CreateStep(c) PROVE Goal
  <2>1. ASSUME NEW k \in Keys, CreateUnseen(c, k) PROVE Goal
    BY <1>0, <2>1, SlotMoves DEF CreateUnseen, Decides, DecisionPCs
  <2>2. ASSUME NEW k \in Keys, CreateCached(c, k) PROVE Goal
    BY <1>0, <2>2, SlotMoves DEF CreateCached, Decides, DecisionPCs
  <2>3. ASSUME NEW k \in Keys, NEW s \in Calls, CreateStale(c, s, k) PROVE Goal
    BY <1>0, <2>3, SlotMoves DEF CreateStale, Decides, DecisionPCs
  <2>4. CASE CreateLocalCheck(c)
    BY <1>0, <2>4, SlotMoves DEF CreateLocalCheck, Decides, DecisionPCs
  <2>5. CASE CreateSave(c)
    BY <1>0, <2>5, SlotMoves DEF CreateSave, Decides, DecisionPCs
  <2> QED BY <1>3, <2>1, <2>2, <2>3, <2>4, <2>5 DEF CreateStep
<1>4. ASSUME NEW c \in Calls, ApproveStep(c) PROVE Goal
  <2>1. ASSUME NEW k \in Keys, ApproveStart(c, k) PROVE Goal
    <3>1. CASE d # c
      BY <1>0, <2>1, <3>1 DEF ApproveStart, Decides
    <3>2. CASE d = c
      <4>1. calls'[d].key = k /\ calls'[d].pc \in {"verify", "deduct"}
        BY <1>0, <2>1, <3>2, SlotMoves DEF ApproveStart
      <4> QED BY <2>1, <3>2, <4>1 DEF Decides
    <3> QED BY <3>1, <3>2
  <2>2. CASE ApproveVerify(c)
    BY <1>0, <2>2, SlotMoves DEF ApproveVerify, Decides, DecisionPCs
  <2>3. CASE ApproveDeduct(c)
    BY <1>0, <2>3, SlotMoves DEF ApproveDeduct, Decides, DecisionPCs
  <2>4. CASE ApproveSave(c)
    BY <1>0, <2>4, SlotMoves DEF ApproveSave, Decides, DecisionPCs
  <2> QED BY <1>4, <2>1, <2>2, <2>3, <2>4 DEF ApproveStep
<1>5. ASSUME NEW c \in Calls, RejectStep(c) PROVE Goal
  <2>1. ASSUME NEW k \in Keys, RejectStart(c, k) PROVE Goal
    <3>1. CASE d # c
      BY <1>0, <2>1, <3>1 DEF RejectStart, Decides
    <3>2. CASE d = c
      <4>1. calls'[d].key = k /\ calls'[d].pc = "saveRejected"
        BY <1>0, <2>1, <3>2, SlotMoves DEF RejectStart
      <4> QED BY <2>1, <3>2, <4>1 DEF Decides
    <3> QED BY <3>1, <3>2
  <2>2. CASE RejectSave(c)
    BY <1>0, <2>2, SlotMoves DEF RejectSave, Decides, DecisionPCs
  <2> QED BY <1>5, <2>1, <2>2 DEF RejectStep
<1>6. ASSUME NEW c \in Calls, CancelStep(c) PROVE Goal
  <2>1. ASSUME NEW k \in Keys, CancelStart(c, k) PROVE Goal
    <3>1. CASE d # c
      BY <1>0, <2>1, <3>1 DEF CancelStart, Decides
    <3>2. CASE d = c
      <4>1. calls'[d].key = k
        BY <1>0, <2>1, <3>2, SlotMoves DEF CancelStart
      <4>2. calls'[d].pc = IF HasRequest(k, "APPROVED") THEN "credit" ELSE "saveCancelled"
        BY <1>0, <2>1, <3>2, SlotMoves DEF CancelStart
      <4> QED BY <2>1, <3>2, <4>1, <4>2 DEF Decides
    <3> QED BY <3>1, <3>2
  <2>2. CASE CancelCredit(c)
    BY <1>0, <2>2, SlotMoves DEF CancelCredit, Decides, DecisionPCs
  <2>3. CASE CancelSave(c)
    BY <1>0, <2>3, SlotMoves DEF CancelSave, Decides, DecisionPCs
  <2> QED BY <1>6, <2>1, <2>2, <2>3 DEF CancelStep
<1> QED BY <1>1, <1>2, <1>3, <1>4, <1>5, <1>6 DEF Next, HandlerStep

\* Rows are only added to the outbox, by a transaction, at its end.
LEMMA OutboxGrows ==
  ASSUME TypeOK, [Next]_vars
  PROVE  \/ outbox' = outbox
         \/ \E c \in Calls :
              /\ calls[c].key \in Keys
              /\ ApproveDeduct(c)
              /\ Covers(balance, Days[calls[c].key])
              /\ outbox' = Append(outbox, OutboxEntry("BALANCE_DEBIT", calls[c].key, balance'))
         \/ \E c \in Calls :
              /\ calls[c].key \in Keys
              /\ CancelCredit(c)
              /\ balance # NoRow
              /\ outbox' = Append(outbox, OutboxEntry("BALANCE_CREDIT", calls[c].key, balance'))
<1>1. ASSUME NEW c \in Calls, ApproveDeduct(c)
      PROVE  \/ outbox' = outbox
             \/ /\ calls[c].key \in Keys
                /\ Covers(balance, Days[calls[c].key])
                /\ outbox' = Append(outbox, OutboxEntry("BALANCE_DEBIT", calls[c].key, balance'))
  BY <1>1 DEF ApproveDeduct, At, TypeOK, CallRecord
<1>2. ASSUME NEW c \in Calls, CancelCredit(c)
      PROVE  \/ outbox' = outbox
             \/ /\ calls[c].key \in Keys
                /\ balance # NoRow
                /\ outbox' = Append(outbox, OutboxEntry("BALANCE_CREDIT", calls[c].key, balance'))
  BY <1>2 DEF CancelCredit, At, TypeOK, CallRecord
<1> QED BY <1>1, <1>2, OutboxWriters

\* A row appended to the outbox leaves the rows before it in place and is a
\* debit or a credit of its own request only.
LEMMA AppendedRow ==
  ASSUME TypeOK, NEW type \in EventTypes, NEW k \in Keys, NEW row,
         outbox' = Append(outbox, OutboxEntry(type, k, row))
  PROVE  /\ DOMAIN outbox' = DOMAIN outbox \cup {Len(outbox) + 1}
         /\ \A i \in DOMAIN outbox : outbox'[i] = outbox[i] /\ i < Len(outbox) + 1
         /\ outbox'[Len(outbox) + 1] = OutboxEntry(type, k, row)
         /\ \A q \in Keys : Debits(q)' = IF type = "BALANCE_DEBIT" /\ q = k
                                         THEN Debits(q) \cup {Len(outbox) + 1} ELSE Debits(q)
         /\ \A q \in Keys : Credits(q)' = IF type = "BALANCE_CREDIT" /\ q = k
                                          THEN Credits(q) \cup {Len(outbox) + 1} ELSE Credits(q)
<1> DEFINE n == Len(outbox) + 1
           e == OutboxEntry(type, k, row)
<1>1. outbox \in Seq(OutboxRow(Keys)) /\ Len(outbox) \in Nat /\ DOMAIN outbox = 1..Len(outbox)
  BY DEF TypeOK
<1>2. /\ DOMAIN outbox' = 1..n
      /\ \A i \in 1..Len(outbox) : outbox'[i] = outbox[i]
      /\ outbox'[n] = e
  BY <1>1
<1>3. DOMAIN outbox' = DOMAIN outbox \cup {n} /\ n \notin DOMAIN outbox
  BY <1>1, <1>2
<1>4. \A i \in DOMAIN outbox : outbox'[i] = outbox[i] /\ i < n
  BY <1>1, <1>2
<1>5. outbox'[n].eventType = type /\ outbox'[n].requestId = k
  BY <1>2 DEF OutboxEntry
<1> HIDE DEF n, e
<1>6. \A q \in Keys : Debits(q)' = IF type = "BALANCE_DEBIT" /\ q = k
                                   THEN Debits(q) \cup {n} ELSE Debits(q)
  BY <1>3, <1>4, <1>5 DEF Debits
<1>7. \A q \in Keys : Credits(q)' = IF type = "BALANCE_CREDIT" /\ q = k
                                    THEN Credits(q) \cup {n} ELSE Credits(q)
  BY <1>3, <1>4, <1>5 DEF Credits
<1> QED BY <1>2, <1>3, <1>4, <1>6, <1>7 DEF n, e

\* No row of the outbox is ever lost.
LEMMA RowsKept ==
  ASSUME TypeOK, [Next]_vars
  PROVE  \A k \in Keys : Debits(k) \subseteq Debits(k)'
<1>1. CASE outbox' = outbox
  BY <1>1 DEF Debits
<1>2. ASSUME NEW c \in Calls, calls[c].key \in Keys,
             outbox' = Append(outbox, OutboxEntry("BALANCE_DEBIT", calls[c].key, balance'))
      PROVE  \A k \in Keys : Debits(k) \subseteq Debits(k)'
  BY <1>2, AppendedRow DEF EventTypes
<1>3. ASSUME NEW c \in Calls, calls[c].key \in Keys,
             outbox' = Append(outbox, OutboxEntry("BALANCE_CREDIT", calls[c].key, balance'))
      PROVE  \A k \in Keys : Debits(k) \subseteq Debits(k)'
  BY <1>3, AppendedRow DEF EventTypes
<1> QED BY <1>1, <1>2, <1>3, OutboxGrows

\* Every step preserves "APPROVED and crediting have a debit behind them".
LEMMA DecisionStep ==
  ASSUME TypeOK, DecisionInv, [Next]_vars
  PROVE  DecisionInv'
<1>1. ApprovedWasDebited'
  <2> SUFFICES ASSUME NEW k \in Keys, HasRequest(k, "APPROVED")' PROVE Debits(k)' # {}
    BY DEF ApprovedWasDebited
  <2>1. HasRequest(k, "APPROVED") => Debits(k)' # {}
    BY RowsKept DEF DecisionInv, ApprovedWasDebited
  <2>2. CASE requests'[k] = requests[k]
    BY <2>1, <2>2 DEF HasRequest
  <2>3. ASSUME NEW c \in Calls, ApproveSave(c) PROVE Debits(k)' # {}
    <3>1. Debits(calls[c].key) # {} /\ outbox' = outbox
      BY <2>3 DEF ApproveSave, At, DecisionInv, DebitBeforeSave
    <3>2. CASE k = calls[c].key
      BY <3>1, <3>2 DEF Debits
    <3>3. CASE k # calls[c].key
      BY <2>1, <2>3, <3>3 DEF ApproveSave, Save, HasRequest, TypeOK
    <3> QED BY <3>2, <3>3
  <2>4. ASSUME NEW c \in Calls, NEW f \in BOOLEAN,
               NEW s \in {"PENDING", "REJECTED", "CANCELLED"}, Save(calls[c].key, s, f)
        PROVE  requests'[k] = requests[k]
    <3>1. s \in Statuses /\ s # "APPROVED"
      BY DEF Statuses
    <3>2. requests'[k] = requests[k] \/ requests'[k].status = s
      BY <2>4, <3>1, SavedRow
    <3>3. requests'[k].status = "APPROVED"
      BY DEF HasRequest
    <3> QED BY <3>1, <3>2, <3>3
  <2> QED BY <2>2, <2>3, <2>4, RequestSaves
<1>2. DebitBeforeSave'
  <2> SUFFICES ASSUME NEW d \in Calls, calls'[d].pc \in {"saveApproved", "credit"}
               PROVE  (Debits(calls[d].key) # {})'
    BY DEF DebitBeforeSave
  <2>0. ASSUME NEW k \in Keys, calls'[d].key = k, Debits(k)' # {}
        PROVE  (Debits(calls[d].key) # {})'
    BY <2>0 DEF Debits
  <2>1. CASE calls'[d] = calls[d]
    <3>1. Debits(calls[d].key) # {} /\ calls[d].key \in Keys
      BY <2>1 DEF DecisionInv, DebitBeforeSave, TypeOK, CallRecord
    <3> DEFINE k == calls[d].key
    <3>2. k \in Keys /\ Debits(k) # {} /\ calls'[d].key = k
      BY <2>1, <3>1
    <3> HIDE DEF k
    <3> QED BY <2>0, <3>2, RowsKept
  <2>2. CASE /\ ApproveDeduct(d)
             /\ Covers(balance, Days[calls[d].key])
             /\ calls'[d].key = calls[d].key
    <3>1. PICK k \in Keys : k = calls[d].key
      BY <2>2 DEF ApproveDeduct, At, TypeOK, CallRecord
    <3>2. outbox' = Append(outbox, OutboxEntry("BALANCE_DEBIT", k, balance'))
      BY <2>2, <3>1 DEF ApproveDeduct
    <3>3. Debits(k)' = Debits(k) \cup {Len(outbox) + 1}
      BY <3>2, AppendedRow DEF EventTypes
    <3> QED BY <2>0, <2>2, <3>1, <3>3
  <2>3. ASSUME NEW k \in Keys, CancelStart(d, k), HasRequest(k, "APPROVED"),
               calls'[d].key = k
        PROVE  (Debits(calls[d].key) # {})'
    <3>1. Debits(k)' # {}
      BY <2>3, RowsKept DEF DecisionInv, ApprovedWasDebited
    <3> QED BY <2>0, <2>3, <3>1
  <2> QED BY <2>1, <2>2, <2>3, WhoDecides DEF Decides, DecisionPCs
<1>3. CreditFollowsDebit'
  <2>1. CASE outbox' = outbox
    BY <2>1 DEF DecisionInv, CreditFollowsDebit, Debits, Credits
  <2>2. ASSUME NEW c \in Calls, calls[c].key \in Keys,
               outbox' = Append(outbox, OutboxEntry("BALANCE_DEBIT", calls[c].key, balance'))
        PROVE  CreditFollowsDebit'
    <3>1. \A q \in Keys : Credits(q)' = Credits(q) /\ Debits(q) \subseteq Debits(q)'
      BY <2>2, AppendedRow, RowsKept DEF EventTypes
    <3> QED BY <3>1 DEF DecisionInv, CreditFollowsDebit
  <2>3. ASSUME NEW c \in Calls, calls[c].key \in Keys, CancelCredit(c),
               outbox' = Append(outbox, OutboxEntry("BALANCE_CREDIT", calls[c].key, balance'))
        PROVE  CreditFollowsDebit'
    <3>1. /\ \A q \in Keys : Credits(q)' = IF q = calls[c].key
                                         THEN Credits(q) \cup {Len(outbox) + 1} ELSE Credits(q)
          /\ \A q \in Keys : Debits(q)' = Debits(q)
          /\ \A i \in DOMAIN outbox : i < Len(outbox) + 1
      BY <2>3, AppendedRow DEF EventTypes
    <3>2. Debits(calls[c].key) # {} /\ Debits(calls[c].key) \subseteq DOMAIN outbox
      BY <2>3 DEF CancelCredit, At, DecisionInv, DebitBeforeSave, Debits
    <3> QED BY <3>1, <3>2 DEF DecisionInv, CreditFollowsDebit
  <2> QED BY <2>1, <2>2, <2>3, OutboxGrows
<1> QED BY <1>1, <1>2, <1>3 DEF DecisionInv

\* At the start nothing is approved and the outbox is empty.
LEMMA DecisionInit == Init => DecisionInv
  BY DEF Init, Idle, DecisionInv, ApprovedWasDebited, DebitBeforeSave, CreditFollowsDebit,
         HasRequest, Credits

LEMMA DecisionInvariance == Spec => []DecisionInv
<1>1. TypeOK /\ DecisionInv /\ [Next]_vars => DecisionInv'
  BY DecisionStep
<1> QED BY <1>1, DecisionInit, TypeCorrect, PTL DEF Spec

\* A request shown as APPROVED had its days taken, whatever stale entities
\* are saved.
THEOREM ApprovalsAreBacked == Spec => []ApprovedWasDebited
<1>1. DecisionInv => ApprovedWasDebited
  BY DEF DecisionInv
<1> QED BY <1>1, DecisionInvariance, PTL

\* Days are given back only after they were taken, however cancellations
\* overlap with each other and with approvals.
THEOREM CreditsAreBacked == Spec => []CreditFollowsDebit
<1>1. DecisionInv => CreditFollowsDebit
  BY DEF DecisionInv
<1> QED BY <1>1, DecisionInvariance, PTL

--------------------------------------------------------------------------------
(***************************************************************************)
(* A stored request stays stored and decided.                              *)
(***************************************************************************)
\* A repeated submission, or any stale save, never removes a request nor
\* puts a decided one back to PENDING.
LEMMA ReopenStep ==
  ASSUME TypeOK, [Next]_vars
  PROVE  \A k \in Keys : requests[k] # NoRow =>
           /\ requests'[k] # NoRow
           /\ HasRequest(k, "PENDING") \/ requests'[k].status # "PENDING"
<1> SUFFICES ASSUME NEW k \in Keys, requests[k] # NoRow
             PROVE  /\ requests'[k] # NoRow
                    /\ HasRequest(k, "PENDING") \/ requests'[k].status # "PENDING"
  OBVIOUS
<1>1. CASE requests'[k] = requests[k]
  BY <1>1 DEF HasRequest
<1>2. ASSUME NEW c \in Calls, NEW f \in BOOLEAN, requests[calls[c].key] = NoRow,
             Save(calls[c].key, "PENDING", f)
      PROVE  requests'[k] = requests[k]
  <2>1. k # calls[c].key
    BY <1>2
  <2> QED BY <1>2, <2>1 DEF Save
<1>3. ASSUME NEW c \in Calls, NEW f \in BOOLEAN,
             NEW s \in {"APPROVED", "REJECTED", "CANCELLED"}, Save(calls[c].key, s, f)
      PROVE  \/ requests'[k] = requests[k]
             \/ requests'[k] # NoRow /\ requests'[k].status # "PENDING"
  <2>1. s \in Statuses /\ s # "PENDING"
    BY DEF Statuses
  <2>2. \/ requests'[k] = requests[k]
        \/ requests'[k] # NoRow /\ requests'[k].status = s
    BY <1>3, <2>1, SavedRow
  <2> QED BY <2>1, <2>2
<1>4. ASSUME NEW c \in Calls, ApproveSave(c) PROVE Save(calls[c].key, "APPROVED", FALSE)
  BY <1>4 DEF ApproveSave
<1> QED BY <1>1, <1>2, <1>3, <1>4, RequestSaves

\* A submission repeated with the same key never replaces the request, and
\* no decided request becomes PENDING again.
THEOREM RequestsAreKept == Spec => NeverReopened
<1>1. TypeOK /\ [Next]_vars =>
        [\A k \in Keys : requests[k] # NoRow =>
           /\ requests'[k] # NoRow
           /\ HasRequest(k, "PENDING") \/ requests'[k].status # "PENDING"]_vars
  BY ReopenStep
<1> QED BY <1>1, TypeCorrect, PTL DEF Spec, NeverReopened
================================================================================
