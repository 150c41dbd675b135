----------------------- MODULE TimeOffRequests_refinement -----------------------
(***************************************************************************)
(* TimeOffRequests implements Ledger while no two decisions on one request *)
(* overlap and the process does not crash.                                 *)
(***************************************************************************)
EXTENDS TimeOffRequests_proofs, FiniteSetTheorems

\* What a slot that decides on a request relies on: the status it read.
Expected(pc) == IF pc = "credit" THEN {"APPROVED"}
                ELSE IF pc = "saveCancelled" THEN {"PENDING", "APPROVED"}
                ELSE {"PENDING"}

SlotAgrees(c) ==
  calls[c].pc \in DecisionPCs =>
    /\ requests[calls[c].key] # NoRow
    /\ requests[calls[c].key].status \in Expected(calls[c].pc)

\* The status a deciding slot read is still the one in the table.
Agreement == \A c \in Calls : SlotAgrees(c)

SerialInv == OneDecider /\ Agreement

SavePCs == {"saveApproved", "saveCancelled"}

\* Only slot c moves.
OnlyMoves(c) == \A d \in Calls \ {c} : calls'[d] = calls[d]

(***************************************************************************)
(* The serial invariant.                                                   *)
(***************************************************************************)
\* A save leaves a request that another slot decides on alone.
LEMMA SavesAreExclusive ==
  ASSUME TypeOK, SerialInv, [Next]_vars, NEW d \in Calls, calls[d].pc \in DecisionPCs
  PROVE  \/ requests'[calls[d].key] = requests[calls[d].key]
         \/ ApproveSave(d) \/ RejectSave(d) \/ CancelSave(d)
<1> DEFINE k == calls[d].key
<1>1. k \in Keys /\ requests[k] # NoRow
  BY DEF SerialInv, Agreement, SlotAgrees, TypeOK, CallRecord, DecisionPCs
<1>2. CASE requests' = requests
  BY <1>2
<1>3. ASSUME NEW c \in Calls, CreateSave(c) PROVE requests'[k] = requests[k]
  BY <1>1, <1>3 DEF CreateSave, Save, TypeOK
<1>4. ASSUME NEW c \in Calls, ApproveSave(c) \/ RejectSave(c) \/ CancelSave(c), c # d
      PROVE  requests'[k] = requests[k]
  <2>1. calls[c].pc \in DecisionPCs
    BY <1>4 DEF ApproveSave, RejectSave, CancelSave, At, DecisionPCs
  <2>2. calls[c].key # k
    BY <1>1, <1>4, <2>1 DEF SerialInv, OneDecider, Deciding
  <2> QED BY <1>1, <1>4, <2>2 DEF ApproveSave, RejectSave, CancelSave, Save, TypeOK
<1> QED BY <1>2, <1>3, <1>4, RequestWriters

\* After its save a slot is free.
LEMMA SaveEnds ==
  ASSUME TypeOK, NEW d \in Calls, ApproveSave(d) \/ RejectSave(d) \/ CancelSave(d)
  PROVE  calls'[d].pc = "idle"
<1>1. Return(d)
  BY DEF ApproveSave, RejectSave, CancelSave
<1> QED BY <1>1, SlotMoves DEF TypeOK

\* A slot that moves within a decision leaves the table alone.
LEMMA DecidingKeepsTable ==
  ASSUME NEW d \in Calls, NEW k,
         \/ ApproveStart(d, k) \/ RejectStart(d, k) \/ CancelStart(d, k)
         \/ ApproveVerify(d) \/ ApproveDeduct(d) \/ CancelCredit(d)
  PROVE  requests' = requests
  BY DEF ApproveStart, RejectStart, CancelStart, ApproveVerify, ApproveDeduct, CancelCredit

\* Without overlap, what a deciding slot read stays true until it is done.
LEMMA AgreementStep ==
  ASSUME TypeOK, SerialInv, [Next]_vars
  PROVE  Agreement'
<1> SUFFICES ASSUME NEW d \in Calls, calls'[d].pc \in DecisionPCs
             PROVE  /\ requests'[calls'[d].key] # NoRow
                    /\ requests'[calls'[d].key].status \in Expected(calls'[d].pc)
  BY DEF Agreement, SlotAgrees, Expected
<1>1. CASE calls'[d] = calls[d]
  <2>1. requests'[calls[d].key] = requests[calls[d].key]
    BY <1>1, SavesAreExclusive, SaveEnds DEF DecisionPCs
  <2> QED BY <1>1, <2>1 DEF SerialInv, Agreement, SlotAgrees
<1>2. ASSUME NEW k \in Keys, calls'[d].key = k,
             \/ ApproveStart(d, k) /\ calls'[d].pc \in {"verify", "deduct"}
             \/ RejectStart(d, k) /\ calls'[d].pc = "saveRejected"
             \/ CancelStart(d, k) /\ HasRequest(k, "APPROVED") /\ calls'[d].pc = "credit"
             \/ /\ CancelStart(d, k)
                /\ ~HasRequest(k, "APPROVED")
                /\ calls'[d].pc = "saveCancelled"
      PROVE  /\ requests'[k] # NoRow
             /\ requests'[k].status \in Expected(calls'[d].pc)
  <2>1. requests' = requests
    BY <1>2, DecidingKeepsTable
  <2> QED BY <1>2, <2>1
          DEF ApproveStart, RejectStart, CancelStart, HasRequest, Expected
<1>3. ASSUME calls'[d].key = calls[d].key,
             \/ ApproveVerify(d) /\ calls'[d].pc = "deduct"
             \/ /\ ApproveDeduct(d)
                /\ Covers(balance, Days[calls[d].key])
                /\ calls'[d].pc = "saveApproved"
             \/ CancelCredit(d) /\ balance # NoRow /\ calls'[d].pc = "saveCancelled"
      PROVE  /\ requests'[calls[d].key] # NoRow
             /\ requests'[calls[d].key].status \in Expected(calls'[d].pc)
  <2>1. requests' = requests
    BY <1>3, DecidingKeepsTable
  <2>2. SlotAgrees(d)
    BY DEF SerialInv, Agreement
  <2> QED BY <1>3, <2>1, <2>2
          DEF SlotAgrees, Expected, ApproveVerify, ApproveDeduct, CancelCredit, At, DecisionPCs
<1> QED BY <1>1, <1>2, <1>3, WhoDecides DEF Decides

\* Nobody decides at the start.
LEMMA SerialInit == Init => SerialInv
  BY DEF Init, Idle, SerialInv, OneDecider, Deciding, Agreement, SlotAgrees, DecisionPCs

\* SerialNext keeps decisions apart, and so the agreement.
LEMMA SerialStep == TypeOK /\ SerialInv /\ [SerialNext]_vars => SerialInv'
<1> SUFFICES ASSUME TypeOK, SerialInv, [SerialNext]_vars PROVE SerialInv'
  OBVIOUS
<1>1. [Next]_vars
  BY DEF SerialNext, Next
<1>2. OneDecider'
  BY DEF SerialNext, SerialInv, OneDecider, Deciding, vars
<1> QED BY <1>1, <1>2, AgreementStep DEF SerialInv

--------------------------------------------------------------------------------
(***************************************************************************)
(* The refinement mapping under a step.                                    *)
(***************************************************************************)
\* A slot leaves a save only by doing it.
LEMMA WhoLeavesSave ==
  ASSUME TypeOK, HandlerStep, NEW d \in Calls, calls[d].pc \in SavePCs
  PROVE  calls'[d] = calls[d] \/ ApproveSave(d) \/ CancelSave(d)
<1> DEFINE Goal == calls'[d] = calls[d] \/ ApproveSave(d) \/ CancelSave(d)
<1>0. calls \in [Calls -> CallRecord]
  BY DEF TypeOK
<1>1. CASE CacheExpires
  BY <1>1 DEF CacheExpires
<1>2. ASSUME NEW c \in Calls, SyncStep(c) PROVE Goal
  <2>1. CASE ForceSync(c)
    BY <1>0, <2>1 DEF ForceSync, At, SavePCs
  <2>2. CASE GetBalance(c)
    BY <1>0, <2>2 DEF GetBalance, At, SavePCs, Return
  <2>3. CASE SyncReply(c)
    BY <1>0, <2>3 DEF SyncReply, At, SavePCs, Continue
  <2>4. CASE UpsertBalance(c)
    BY <1>0, <2>4 DEF UpsertBalance, At, SavePCs, Continue, Return
  <2> QED BY <1>2, <2>1, <2>2, <2>3, <2>4 DEF SyncStep
<1>3. ASSUME NEW c \in Calls, CreateStep(c) PROVE Goal
  BY <1>0, <1>3 DEF CreateStep, CreateUnseen, CreateCached, CreateStale, CreateLocalCheck,
                    CreateSave, At, SavePCs, Return, Resume
<1>4. ASSUME NEW c \in Calls, ApproveStep(c) PROVE Goal
  BY <1>0, <1>4 DEF ApproveStep, ApproveStart, ApproveVerify, ApproveDeduct, ApproveSave,
                    At, SavePCs, Return, Resume
<1>5. ASSUME NEW c \in Calls, RejectStep(c) PROVE Goal
  BY <1>0, <1>5 DEF RejectStep, RejectStart, RejectSave, At, SavePCs, Return
<1>6. ASSUME NEW c \in Calls, CancelStep(c) PROVE Goal
  BY <1>0, <1>6 DEF CancelStep, CancelStart, CancelCredit, CancelSave,
                    At, SavePCs, Return, Resume
<1> QED BY <1>1, <1>2, <1>3, <1>4, <1>5, <1>6 DEF HandlerStep

\* A step of slot c for request k leaves the status of every other request.
LEMMA OtherRequests ==
  ASSUME NEW c \in Calls, NEW k, OnlyMoves(c),
         calls[c].pc \notin SavePCs \/ calls[c].key = k,
         calls'[c].pc \notin SavePCs \/ calls'[c].key = k,
         NEW q \in Keys, q # k, requests'[q] = requests[q]
  PROVE  DecidedStatus(q)' = DecidedStatus(q)
<1>1. \A pc \in SavePCs : Saving(pc, q)' <=> Saving(pc, q)
  BY DEF OnlyMoves, Saving, At
<1> QED BY <1>1 DEF SavePCs, DecidedStatus

\* If no slot enters or leaves a save and the row stays, so does the status.
LEMMA QuietRequests ==
  ASSUME \A d \in Calls : \/ calls'[d] = calls[d]
                          \/ calls[d].pc \notin SavePCs /\ calls'[d].pc \notin SavePCs,
         NEW q \in Keys, requests'[q] = requests[q]
  PROVE  DecidedStatus(q)' = DecidedStatus(q)
<1>1. \A pc \in SavePCs : Saving(pc, q)' <=> Saving(pc, q)
  BY DEF Saving, At
<1> QED BY <1>1 DEF SavePCs, DecidedStatus

\* The only decider of k fixes its status.
LEMMA SoleDecider ==
  ASSUME OneDecider, NEW c \in Calls, NEW k \in Keys, Deciding(c, k)
  PROVE  DecidedStatus(k) =
           IF calls[c].pc = "saveApproved" THEN "APPROVED"
           ELSE IF calls[c].pc = "saveCancelled" THEN "CANCELLED"
           ELSE IF requests[k] = NoRow THEN "NONE" ELSE requests[k].status
<1>1. \A pc \in SavePCs : Saving(pc, k) <=> calls[c].pc = pc
  BY DEF OneDecider, Deciding, Saving, At, SavePCs, DecisionPCs
<1> QED BY <1>1 DEF SavePCs, DecidedStatus

\* Without a decider the status is the one in the table.
LEMMA NoDecider ==
  ASSUME NEW k \in Keys, \A c \in Calls : ~Deciding(c, k)
  PROVE  DecidedStatus(k) = IF requests[k] = NoRow THEN "NONE" ELSE requests[k].status
<1>1. \A pc \in SavePCs : ~Saving(pc, k)
  BY DEF Deciding, Saving, At, SavePCs, DecisionPCs
<1> QED BY <1>1 DEF SavePCs, DecidedStatus

\* The ledger sees one request change, or none.
LEMMA StatusBecomes ==
  /\ \A k \in Keys : \A s :
       (\A q \in Keys \ {k} : DecidedStatus(q)' = DecidedStatus(q)) /\ DecidedStatus(k)' = s
         => LedgerStatus' = [LedgerStatus EXCEPT ![k] = s]
  /\ (\A q \in Keys : DecidedStatus(q)' = DecidedStatus(q)) => LedgerStatus' = LedgerStatus
  BY DEF LedgerStatus

\* A transaction, a save or a start moves its own slot only and, while it
\* lasts, that slot serves the same request.
LEMMA OwnSlot ==
  ASSUME TypeOK, NEW c \in Calls,
         \/ ApproveDeduct(c) \/ CancelCredit(c)
         \/ CreateSave(c) \/ ApproveSave(c) \/ RejectSave(c) \/ CancelSave(c)
  PROVE  /\ OnlyMoves(c)
         /\ calls[c].key \in Keys
         /\ calls'[c].pc \notin SavePCs \/ calls'[c].key = calls[c].key
<1>1. Return(c) \/ \E pc : Resume(c, pc)
  BY DEF ApproveDeduct, CancelCredit, CreateSave, ApproveSave, RejectSave, CancelSave
<1>2. calls[c].key \in Keys
  BY DEF ApproveDeduct, CancelCredit, CreateSave, ApproveSave, RejectSave, CancelSave, At,
         TypeOK, CallRecord
<1> QED BY <1>1, <1>2, SlotMoves DEF OnlyMoves, SavePCs, TypeOK

\* The transaction of deductBalance is the ledger's approval.
LEMMA DeductApproves ==
  ASSUME TypeOK, SerialInv, SerialInv', NEW c \in Calls, ApproveDeduct(c),
         Covers(balance, Days[calls[c].key])
  PROVE  \E k \in Keys : k = calls[c].key /\ L!Approve(k)
<1> DEFINE k == calls[c].key
<1>1. /\ OnlyMoves(c) /\ k \in Keys /\ requests' = requests
      /\ calls'[c].pc = "saveApproved" /\ calls'[c].key = k
  BY OwnSlot, SlotMoves DEF ApproveDeduct, TypeOK
<1>2. PICK q \in Keys : q = k
  BY <1>1
<1>3. Deciding(c, q) /\ Deciding(c, q)' /\ calls[c].pc = "deduct"
  BY <1>1, <1>2 DEF Deciding, DecisionPCs, ApproveDeduct, At
<1>4. DecidedStatus(q) = "PENDING"
  <2>1. requests[q] # NoRow /\ requests[q].status = "PENDING"
    BY <1>2, <1>3 DEF SerialInv, Agreement, SlotAgrees, Expected, DecisionPCs
  <2> QED BY <1>3, <2>1, SoleDecider DEF SerialInv
<1>5. DecidedStatus(q)' = "APPROVED"
  <2>1. Saving("saveApproved", q)'
    BY <1>1, <1>2 DEF Saving, At
  <2> QED BY <2>1 DEF DecidedStatus
<1>6. \A r \in Keys \ {q} : DecidedStatus(r)' = DecidedStatus(r)
  BY <1>1, <1>2, OtherRequests
<1>7. LedgerStatus' = [LedgerStatus EXCEPT ![q] = "APPROVED"] /\ LedgerStatus[q] = "PENDING"
  BY <1>4, <1>5, <1>6, StatusBecomes DEF LedgerStatus
<1>8. /\ LedgerAvailable # NoRow /\ LedgerAvailable >= Days[q]
      /\ LedgerAvailable' = LedgerAvailable - Days[q]
  <2>1. balance' = Deducted(balance, Days[q]) /\ balance # NoRow /\ balance.availableDays >= Days[q]
    BY <1>2 DEF ApproveDeduct, Covers
  <2>2. balance \in BalanceRow /\ Days[q] \in Nat
    BY <2>1, RequestsAssumption DEF TypeOK
  <2>3. balance' \in BalanceRow
    BY <2>1, <2>2, DeductedType
  <2>4. balance' # NoRow /\ balance.availableDays # NoRow
    BY <2>2, <2>3, NoRowAssumption, ReplyAssumption DEF BalanceRow
  <2> QED BY <2>1, <2>4 DEF LedgerAvailable, Deducted
<1> QED BY <1>2, <1>7, <1>8 DEF L!Approve, L!Become

\* The table status of a request is the ledger's while its slot has not moved days.
LEMMA TableStatus ==
  ASSUME SerialInv, NEW c \in Calls, NEW k \in Keys, Deciding(c, k),
         calls[c].pc \notin SavePCs
  PROVE  DecidedStatus(k) = requests[k].status /\ DecidedStatus(k) \in Expected(calls[c].pc)
<1>1. requests[k] # NoRow /\ requests[k].status \in Expected(calls[c].pc)
  BY DEF SerialInv, Agreement, SlotAgrees, Deciding
<1>2. DecidedStatus(k) = requests[k].status
  BY <1>1, SoleDecider DEF SerialInv, SavePCs
<1> QED BY <1>1, <1>2

\* The transaction of creditBalance is the ledger's cancellation.
LEMMA CreditCancels ==
  ASSUME TypeOK, SerialInv, SerialInv', NEW c \in Calls, CancelCredit(c), balance # NoRow
  PROVE  \E k \in Keys : k = calls[c].key /\ L!CancelApproved(k)
<1>1. PICK q \in Keys : q = calls[c].key
  BY OwnSlot
<1>2. /\ OnlyMoves(c) /\ requests' = requests
      /\ calls'[c].pc = "saveCancelled" /\ calls'[c].key = q
  BY <1>1, OwnSlot, SlotMoves DEF CancelCredit, TypeOK
<1>3. Deciding(c, q) /\ calls[c].pc = "credit"
  BY <1>1 DEF Deciding, DecisionPCs, CancelCredit, At
<1>4. DecidedStatus(q) = "APPROVED"
  BY <1>3, TableStatus DEF Expected, SavePCs
<1>5. DecidedStatus(q)' = "CANCELLED"
  <2>1. Deciding(c, q)' /\ OneDecider'
    BY <1>2 DEF Deciding, DecisionPCs, SerialInv
  <2>2. Saving("saveCancelled", q)' /\ ~Saving("saveApproved", q)'
    BY <1>2, <2>1 DEF Saving, At, OneDecider, Deciding, DecisionPCs
  <2> QED BY <2>2 DEF DecidedStatus
<1>6. \A r \in Keys \ {q} : DecidedStatus(r)' = DecidedStatus(r)
  BY <1>1, <1>2, <1>3, OtherRequests
<1>7. LedgerStatus' = [LedgerStatus EXCEPT ![q] = "CANCELLED"] /\ LedgerStatus[q] = "APPROVED"
  BY <1>4, <1>5, <1>6, StatusBecomes DEF LedgerStatus
<1>8. LedgerAvailable # NoRow /\ LedgerAvailable' = LedgerAvailable + Days[q]
  <2>1. balance' = Credited(balance, Days[q])
    BY <1>1 DEF CancelCredit
  <2>2. balance \in BalanceRow /\ Days[q] \in Nat
    BY RequestsAssumption DEF TypeOK
  <2>3. balance' \in BalanceRow
    BY <2>1, <2>2, CreditedType
  <2>4. balance' # NoRow /\ balance.availableDays # NoRow
    BY <2>2, <2>3, NoRowAssumption, ReplyAssumption DEF BalanceRow
  <2> QED BY <2>1, <2>4 DEF LedgerAvailable, Credited
<1> QED BY <1>1, <1>7, <1>8 DEF L!CancelApproved, L!Become

\* The save of rejected is the ledger's rejection.
LEMMA RejectSaveRejects ==
  ASSUME TypeOK, SerialInv, SerialInv', NEW c \in Calls, RejectSave(c)
  PROVE  \E k \in Keys : L!Reject(k)
<1>1. PICK q \in Keys : q = calls[c].key
  BY OwnSlot
<1>2. /\ OnlyMoves(c) /\ calls'[c].pc = "idle"
      /\ requests' = [requests EXCEPT ![q] =
           [status |-> "REJECTED", needsVerification |-> calls[c].needsVerification]]
  BY <1>1, OwnSlot, SaveEnds DEF RejectSave, Save
<1>3. Deciding(c, q) /\ calls[c].pc = "saveRejected"
  BY <1>1 DEF Deciding, DecisionPCs, RejectSave, At
<1>4. DecidedStatus(q) = "PENDING"
  BY <1>3, TableStatus DEF Expected, SavePCs
<1>5. DecidedStatus(q)' = "REJECTED"
  <2>1. \A d \in Calls : ~Deciding(d, q)'
    BY <1>2, <1>3 DEF SerialInv, OneDecider, Deciding, DecisionPCs, OnlyMoves
  <2>2. requests'[q].status = "REJECTED" /\ requests'[q] # NoRow
    <3>1. Save(q, "REJECTED", calls[c].needsVerification)
      BY <1>2 DEF Save
    <3>2. calls[c].needsVerification \in BOOLEAN /\ "REJECTED" \in Statuses
      BY DEF TypeOK, CallRecord, CallFields, Statuses
    <3> QED BY <3>1, <3>2, SavedRow
  <2>3. \A pc \in SavePCs : ~Saving(pc, q)'
    BY <2>1 DEF Deciding, Saving, At, SavePCs, DecisionPCs
  <2> QED BY <2>2, <2>3 DEF DecidedStatus, SavePCs
<1>6. \A r \in Keys \ {q} : DecidedStatus(r)' = DecidedStatus(r)
  <2> SUFFICES ASSUME NEW r \in Keys \ {q} PROVE DecidedStatus(r)' = DecidedStatus(r)
    OBVIOUS
  <2>1. requests'[r] = requests[r]
    BY <1>2 DEF TypeOK
  <2> QED BY <1>2, <1>3, <2>1, OtherRequests DEF SavePCs
<1>7. LedgerStatus' = [LedgerStatus EXCEPT ![q] = "REJECTED"] /\ LedgerStatus[q] = "PENDING"
  BY <1>4, <1>5, <1>6, StatusBecomes DEF LedgerStatus
<1>8. LedgerAvailable' = LedgerAvailable
  BY DEF RejectSave, LedgerAvailable
<1> QED BY <1>7, <1>8 DEF L!Reject, L!Become

\* A request that does not exist yet has no decider.
LEMMA UnseenIsUndecided ==
  ASSUME SerialInv, NEW k \in Keys, requests[k] = NoRow
  PROVE  \A c \in Calls : ~Deciding(c, k)
  BY DEF SerialInv, Agreement, SlotAgrees, Deciding

\* The insert of create is the ledger's submission; a refused one is a stutter.
LEMMA CreateSaveSubmits ==
  ASSUME TypeOK, SerialInv, SerialInv', NEW c \in Calls, CreateSave(c)
  PROVE  (\E k \in Keys : L!Submit(k)) \/ UNCHANGED L!vars
<1>1. PICK q \in Keys : q = calls[c].key
  BY OwnSlot
<1>2. OnlyMoves(c) /\ calls[c].pc = "hcmCheck" /\ calls'[c].pc = "idle" /\ balance' = balance
  BY OwnSlot, SlotMoves DEF CreateSave, At, TypeOK
<1>3. LedgerAvailable' = LedgerAvailable
  BY <1>2 DEF LedgerAvailable
<1>4. CASE requests' = requests
  <2>1. \A r \in Keys : DecidedStatus(r)' = DecidedStatus(r)
    BY <1>2, <1>4, QuietRequests DEF OnlyMoves, SavePCs
  <2> QED BY <1>3, <2>1, StatusBecomes DEF L!vars
<1>5. ASSUME NEW f \in BOOLEAN, requests[q] = NoRow, Save(q, "PENDING", f)
      PROVE  \E k \in Keys : L!Submit(k)
  <2>1. \A d \in Calls : ~Deciding(d, q)
    BY <1>5, UnseenIsUndecided
  <2>2. DecidedStatus(q) = "NONE"
    BY <1>5, <2>1, NoDecider
  <2>3. requests'[q] # NoRow /\ requests'[q].status = "PENDING"
    <3>1. "PENDING" \in Statuses
      BY DEF Statuses
    <3> QED BY <1>5, <3>1, SavedRow
  <2>4. \A pc \in SavePCs : ~Saving(pc, q)'
    BY <1>2, <2>1 DEF Deciding, OnlyMoves, Saving, At, SavePCs, DecisionPCs
  <2>5. DecidedStatus(q)' = "PENDING"
    BY <2>3, <2>4 DEF DecidedStatus, SavePCs
  <2>6. \A r \in Keys \ {q} : DecidedStatus(r)' = DecidedStatus(r)
    <3> SUFFICES ASSUME NEW r \in Keys \ {q} PROVE DecidedStatus(r)' = DecidedStatus(r)
      OBVIOUS
    <3>1. requests'[r] = requests[r]
      BY <1>5 DEF Save, TypeOK
    <3> QED BY <1>2, <3>1, OtherRequests DEF SavePCs
  <2>7. LedgerStatus' = [LedgerStatus EXCEPT ![q] = "PENDING"] /\ LedgerStatus[q] = "NONE"
    BY <2>2, <2>5, <2>6, StatusBecomes DEF LedgerStatus
  <2> QED BY <1>3, <2>7 DEF L!Submit, L!Become
<1>6. \/ requests' = requests
      \/ \E f \in BOOLEAN : requests[q] = NoRow /\ Save(q, "PENDING", f)
  <2>1. \A reply : (reply = Null) \in BOOLEAN
    OBVIOUS
  <2>2. \/ requests' = requests
        \/ \E f \in BOOLEAN :
             requests[calls[c].key] = NoRow /\ Save(calls[c].key, "PENDING", f)
    BY <2>1 DEF CreateSave
  <2> QED BY <1>1, <2>2
<1> QED BY <1>4, <1>5, <1>6

\* The saves of approved and cancelled write what the transaction decided.
LEMMA SavesStutter ==
  ASSUME TypeOK, SerialInv, SerialInv', NEW c \in Calls, ApproveSave(c) \/ CancelSave(c)
  PROVE  UNCHANGED L!vars
<1>1. PICK q \in Keys : q = calls[c].key
  BY OwnSlot
<1>2. PICK s \in {"APPROVED", "CANCELLED"} : \E f \in BOOLEAN :
        /\ s = "APPROVED" <=> calls[c].pc = "saveApproved"
        /\ s = "CANCELLED" <=> calls[c].pc = "saveCancelled"
        /\ Save(q, s, f)
  <2>1. calls[c].needsVerification \in BOOLEAN
    BY DEF TypeOK, CallRecord, CallFields
  <2>2. CASE ApproveSave(c)
    BY <1>1, <2>2 DEF ApproveSave, At
  <2>3. CASE CancelSave(c)
    BY <1>1, <2>1, <2>3 DEF CancelSave, At
  <2> QED BY <2>2, <2>3
<1>3. OnlyMoves(c) /\ calls'[c].pc = "idle" /\ balance' = balance /\ calls[c].pc \in SavePCs
  BY OwnSlot, SaveEnds DEF ApproveSave, CancelSave, At, SavePCs
<1>4. Deciding(c, q)
  BY <1>1, <1>3 DEF Deciding, SavePCs, DecisionPCs
<1>5. DecidedStatus(q) = s
  BY <1>2, <1>3, <1>4, SoleDecider DEF SerialInv, SavePCs
<1>6. DecidedStatus(q)' = s
  <2>1. requests'[q] # NoRow /\ requests'[q].status = s
    BY <1>2, SavedRow DEF Statuses
  <2>2. \A pc \in SavePCs : ~Saving(pc, q)'
    BY <1>3, <1>4 DEF SerialInv, OneDecider, Deciding, OnlyMoves, Saving, At, SavePCs,
                      DecisionPCs
  <2> QED BY <2>1, <2>2 DEF DecidedStatus, SavePCs
<1>7. \A r \in Keys \ {q} : DecidedStatus(r)' = DecidedStatus(r)
  <2> SUFFICES ASSUME NEW r \in Keys \ {q} PROVE DecidedStatus(r)' = DecidedStatus(r)
    OBVIOUS
  <2>1. requests'[r] = requests[r]
    BY <1>2 DEF Save, TypeOK
  <2> QED BY <1>1, <1>3, <2>1, OtherRequests DEF SavePCs
<1>8. LedgerStatus' = LedgerStatus
  BY <1>5, <1>6, <1>7, StatusBecomes
<1> QED BY <1>3, <1>8 DEF L!vars, LedgerAvailable

\* Cancelling a pending request is decided when it is read.
LEMMA CancelStartCancels ==
  ASSUME TypeOK, SerialInv, SerialInv', NEW c \in Calls, NEW q \in Keys, CancelStart(c, q),
         ~HasRequest(q, "APPROVED")
  PROVE  \E k \in Keys : L!CancelPending(k)
<1>1. /\ OnlyMoves(c) /\ calls[c].pc = "idle"
      /\ calls'[c].pc = "saveCancelled" /\ calls'[c].key = q
      /\ requests' = requests /\ balance' = balance
      /\ requests[q] # NoRow /\ requests[q].status = "PENDING"
  <2>1. /\ calls[c].pc = "idle" /\ requests' = requests /\ balance' = balance
        /\ requests[q] # NoRow /\ requests[q].status = "PENDING"
    BY DEF CancelStart, At, HasRequest
  <2>2. calls' = [calls EXCEPT ![c] =
          [Serving("saveCancelled", q) EXCEPT
             !.needsVerification = requests[q].needsVerification]]
    BY DEF CancelStart
  <2>3. calls \in [Calls -> CallRecord]
    BY DEF TypeOK
  <2>4. calls'[c].pc = "saveCancelled" /\ calls'[c].key = q
    BY <2>2, <2>3, SlotMoves
  <2> QED BY <2>1, <2>2, <2>3, <2>4 DEF OnlyMoves
<1>2. Deciding(c, q)' /\ ~Deciding(c, q)
  BY <1>1 DEF Deciding, DecisionPCs
<1>3. \A d \in Calls : ~Deciding(d, q)
  BY <1>1, <1>2 DEF SerialInv, OneDecider, Deciding, OnlyMoves
<1>4. DecidedStatus(q) = "PENDING"
  BY <1>1, <1>3, NoDecider
<1>5. DecidedStatus(q)' = "CANCELLED"
  <2>1. Saving("saveCancelled", q)' /\ ~Saving("saveApproved", q)'
    BY <1>1, <1>3 DEF Saving, At, Deciding, DecisionPCs, OnlyMoves
  <2> QED BY <2>1 DEF DecidedStatus
<1>6. \A r \in Keys \ {q} : DecidedStatus(r)' = DecidedStatus(r)
  BY <1>1, OtherRequests DEF SavePCs
<1>7. LedgerStatus' = [LedgerStatus EXCEPT ![q] = "CANCELLED"] /\ LedgerStatus[q] = "PENDING"
  BY <1>4, <1>5, <1>6, StatusBecomes DEF LedgerStatus
<1>8. LedgerAvailable' = LedgerAvailable
  BY <1>1 DEF LedgerAvailable
<1> QED BY <1>7, <1>8 DEF L!CancelPending, L!Become

\* The steps the ledger sees: those that decide, save or replace the balance.
LedgerStep(c) ==
  \/ UpsertBalance(c)
  \/ ApproveDeduct(c) /\ Covers(balance, Days[calls[c].key])
  \/ CancelCredit(c) /\ balance # NoRow
  \/ \E k \in Keys : CancelStart(c, k) /\ ~HasRequest(k, "APPROVED")
  \/ CreateSave(c) \/ ApproveSave(c) \/ RejectSave(c) \/ CancelSave(c)

\* Every other step of a handler is invisible to the ledger.
LEMMA OthersStutter ==
  ASSUME TypeOK, HandlerStep, \A c \in Calls : ~LedgerStep(c)
  PROVE  UNCHANGED L!vars
<1>1. [Next]_vars
  BY DEF Next
<1>2. requests' = requests
  BY <1>1, RequestWriters DEF LedgerStep
<1>3. LedgerAvailable' = LedgerAvailable
  <2>1. CASE balance' = balance
    BY <2>1 DEF LedgerAvailable
  <2>2. CASE CacheExpires
    <3>1. balance \in BalanceRow
      BY <2>2 DEF CacheExpires, TypeOK
    <3>2. balance' \in BalanceRow /\ balance'.availableDays = balance.availableDays
      BY <2>2, <3>1 DEF CacheExpires, BalanceRow
    <3> QED BY <3>1, <3>2, NoRowAssumption DEF LedgerAvailable
  <2>3. ASSUME NEW c \in Calls, ApproveDeduct(c) \/ CancelCredit(c) PROVE balance' = balance
    BY <2>3 DEF LedgerStep, ApproveDeduct, CancelCredit
  <2> QED BY <1>1, <2>1, <2>2, <2>3, BalanceWriters DEF LedgerStep, LedgerAvailable
<1>4. \A d \in Calls : \/ calls'[d] = calls[d]
                       \/ calls[d].pc \notin SavePCs /\ calls'[d].pc \notin SavePCs
  <2> SUFFICES ASSUME NEW d \in Calls, calls'[d] # calls[d]
               PROVE  calls[d].pc \notin SavePCs /\ calls'[d].pc \notin SavePCs
    OBVIOUS
  <2>1. calls[d].pc \notin SavePCs
    BY WhoLeavesSave DEF LedgerStep
  <2>2. ASSUME calls'[d].pc \in SavePCs PROVE FALSE
    <3>1. calls'[d].pc \in DecisionPCs
      BY <2>2 DEF SavePCs, DecisionPCs
    <3>2. Decides(d)
      BY <1>1, <3>1, WhoDecides
    <3> QED BY <2>2, <3>2 DEF Decides, LedgerStep, SavePCs
  <2> QED BY <2>1, <2>2
<1>5. \A k \in Keys : DecidedStatus(k)' = DecidedStatus(k)
  BY <1>2, <1>4, QuietRequests
<1> QED BY <1>3, <1>5, StatusBecomes DEF L!vars

\* upsertBalance writes an answer of HCM, or fails and changes nothing.
LEMMA UpsertAdjusts ==
  ASSUME TypeOK, NEW c \in Calls, UpsertBalance(c)
  PROVE  L!Adjust \/ UNCHANGED L!vars
<1>1. OnlyMoves(c) /\ calls[c].pc \notin SavePCs /\ calls'[c].pc \notin SavePCs
  BY SlotMoves DEF UpsertBalance, At, SavePCs, OnlyMoves, TypeOK
<1>2. \A k \in Keys : DecidedStatus(k)' = DecidedStatus(k)
  BY <1>1, QuietRequests DEF UpsertBalance, OnlyMoves
<1>3. LedgerStatus' = LedgerStatus
  BY <1>2, StatusBecomes
<1>4. CASE balance' = balance
  BY <1>3, <1>4 DEF L!vars, LedgerAvailable
<1>5. CASE balance' = Upserted(calls[c].hcm)
  <2>1. calls[c].hcm \in HcmDays /\ calls[c].hcm \in Nat
    BY DEF UpsertBalance, At, TypeOK, CallRecord, CallFields
  <2>2. balance' # NoRow /\ balance'.availableDays = calls[c].hcm
    BY <1>5, <2>1, UpsertedType, NoRowAssumption DEF Upserted
  <2> QED BY <1>3, <2>1, <2>2 DEF L!Adjust, LedgerAvailable
<1> QED BY <1>4, <1>5 DEF UpsertBalance

\* The handlers start where the ledger starts.
LEMMA LedgerInit == Init => L!Init
<1> SUFFICES ASSUME Init PROVE L!Init
  OBVIOUS
<1>1. \A k \in Keys : requests[k] = NoRow
  BY DEF Init
<1>2. \A k \in Keys : \A c \in Calls : ~Deciding(c, k)
  BY DEF Init, Idle, Deciding, DecisionPCs
<1>3. LedgerStatus = [k \in Keys |-> "NONE"]
  BY <1>1, <1>2, NoDecider DEF LedgerStatus
<1>4. LedgerAvailable \in {NoRow, InitialDays}
  BY DEF Init, LedgerAvailable
<1> QED BY <1>3, <1>4 DEF L!Init

\* Steps of the ledger that take no days and give none back.
LedgerKeepsDays ==
  \/ \E k \in Keys : L!Submit(k) \/ L!Reject(k) \/ L!CancelPending(k)
  \/ L!Adjust
  \/ UNCHANGED L!vars

\* Every serial step is a step of the ledger or a stutter, and it writes to
\* the outbox exactly if the ledger takes days or gives them back.
LEMMA LedgerSteps ==
  ASSUME TypeOK, SerialInv, SerialInv', [SerialNext]_vars
  PROVE  \/ outbox' = outbox /\ LedgerKeepsDays
         \/ \E k \in Keys :
              /\ outbox' = Append(outbox, OutboxEntry("BALANCE_DEBIT", k, balance'))
              /\ L!Approve(k)
         \/ \E k \in Keys :
              /\ outbox' = Append(outbox, OutboxEntry("BALANCE_CREDIT", k, balance'))
              /\ L!CancelApproved(k)
<1>1. CASE UNCHANGED vars
  <2>1. \A k \in Keys : DecidedStatus(k)' = DecidedStatus(k)
    BY <1>1, QuietRequests DEF vars
  <2>2. LedgerAvailable' = LedgerAvailable
    BY <1>1 DEF vars, LedgerAvailable
  <2> QED BY <1>1, <2>1, <2>2, StatusBecomes DEF L!vars, vars, LedgerKeepsDays
<1>2. ASSUME NEW c \in Calls, LedgerStep(c),
             ~(ApproveDeduct(c) /\ Covers(balance, Days[calls[c].key])),
             ~(CancelCredit(c) /\ balance # NoRow)
      PROVE  outbox' = outbox /\ LedgerKeepsDays
  <2>1. CASE UpsertBalance(c)
    BY <2>1, UpsertAdjusts DEF LedgerKeepsDays, UpsertBalance
  <2>2. CASE \E k \in Keys : CancelStart(c, k) /\ ~HasRequest(k, "APPROVED")
    BY <2>2, CancelStartCancels DEF LedgerKeepsDays, CancelStart
  <2>3. CASE CreateSave(c)
    BY <2>3, CreateSaveSubmits DEF LedgerKeepsDays, CreateSave
  <2>4. CASE RejectSave(c)
    BY <2>4, RejectSaveRejects DEF LedgerKeepsDays, RejectSave
  <2>5. CASE ApproveSave(c) \/ CancelSave(c)
    BY <2>5, SavesStutter DEF LedgerKeepsDays, ApproveSave, CancelSave
  <2> QED BY <1>2, <2>1, <2>2, <2>3, <2>4, <2>5 DEF LedgerStep
<1>3. CASE SerialNext /\ \A c \in Calls : ~LedgerStep(c)
  <2>1. [Next]_vars
    BY <1>3 DEF SerialNext, Next
  <2>2. outbox' = outbox
    BY <1>3, <2>1, OutboxGrows DEF LedgerStep
  <2> QED BY <1>3, <2>2, OthersStutter DEF SerialNext, LedgerKeepsDays
<1>4. ASSUME NEW c \in Calls, ApproveDeduct(c), Covers(balance, Days[calls[c].key])
      PROVE  \E k \in Keys :
               /\ outbox' = Append(outbox, OutboxEntry("BALANCE_DEBIT", k, balance'))
               /\ L!Approve(k)
  BY <1>4, DeductApproves DEF ApproveDeduct
<1>5. ASSUME NEW c \in Calls, CancelCredit(c), balance # NoRow
      PROVE  \E k \in Keys :
               /\ outbox' = Append(outbox, OutboxEntry("BALANCE_CREDIT", k, balance'))
               /\ L!CancelApproved(k)
  BY <1>5, CreditCancels DEF CancelCredit
<1> QED BY <1>1, <1>2, <1>3, <1>4, <1>5

LEMMA LedgerSimulates ==
  ASSUME TypeOK, SerialInv, SerialInv', [SerialNext]_vars
  PROVE  [L!Next]_(L!vars)
BY LedgerSteps DEF LedgerKeepsDays, L!Next

--------------------------------------------------------------------------------
\* TypeOK and SerialInv hold in every serial behaviour.
LEMMA SerialInvariance == SerialSpec => [](TypeOK /\ SerialInv)
<1>1. Init => TypeOK /\ SerialInv
  BY TypeInit, SerialInit
<1>2. TypeOK /\ SerialInv /\ [SerialNext]_vars => TypeOK' /\ SerialInv'
  <2>1. [SerialNext]_vars => [Next]_vars
    BY DEF SerialNext, Next
  <2> QED BY <2>1, TypeStep, SerialStep
<1> QED BY <1>1, <1>2, PTL DEF SerialSpec

\* While no two decisions on one request overlap and the process does not
\* crash, approve, reject and cancel are atomic: every behaviour of the
\* handlers is one of the ledger.
THEOREM HandlersImplementLedger == SerialSpec => ImplementsLedger
<1>1. TypeOK /\ SerialInv /\ (TypeOK /\ SerialInv)' /\ [SerialNext]_vars => [L!Next]_(L!vars)
  BY LedgerSimulates
<1> QED BY <1>1, LedgerInit, SerialInvariance, PTL DEF SerialSpec, ImplementsLedger, L!Spec

--------------------------------------------------------------------------------
(***************************************************************************)
(* The outbox and the statuses.                                            *)
(***************************************************************************)
\* The row appended next is no debit or credit yet, and those are finite.
LEMMA FiniteRows ==
  ASSUME TypeOK, NEW k \in Keys
  PROVE  /\ IsFiniteSet(Debits(k)) /\ Cardinality(Debits(k)) \in Nat
         /\ IsFiniteSet(Credits(k)) /\ Cardinality(Credits(k)) \in Nat
         /\ Len(outbox) + 1 \notin Debits(k) \cup Credits(k)
<1>1. DOMAIN outbox = 1..Len(outbox) /\ Len(outbox) \in Nat
  BY DEF TypeOK
<1>2. IsFiniteSet(DOMAIN outbox)
  BY <1>1, FS_Interval
<1>3. Debits(k) \subseteq DOMAIN outbox /\ Credits(k) \subseteq DOMAIN outbox
  BY DEF Debits, Credits
<1>4. IsFiniteSet(Debits(k)) /\ IsFiniteSet(Credits(k))
  BY <1>2, <1>3, FS_Subset
<1>5. Len(outbox) + 1 \notin DOMAIN outbox
  BY <1>1
<1> QED BY <1>3, <1>4, <1>5, FS_CardinalityType

Debited(k) == Cardinality(Debits(k))
Refunded(k) == Cardinality(Credits(k))

\* A row counts once, for its own request.
LEMMA RowCounts ==
  ASSUME TypeOK, NEW type \in EventTypes, NEW k \in Keys, NEW row,
         outbox' = Append(outbox, OutboxEntry(type, k, row)), NEW q \in Keys
  PROVE  /\ Debited(q)' = IF type = "BALANCE_DEBIT" /\ q = k THEN Debited(q) + 1 ELSE Debited(q)
         /\ Refunded(q)' = IF type = "BALANCE_CREDIT" /\ q = k
                           THEN Refunded(q) + 1 ELSE Refunded(q)
<1>1. Debits(q)' = IF type = "BALANCE_DEBIT" /\ q = k
                   THEN Debits(q) \cup {Len(outbox) + 1} ELSE Debits(q)
  BY AppendedRow
<1>2. Credits(q)' = IF type = "BALANCE_CREDIT" /\ q = k
                    THEN Credits(q) \cup {Len(outbox) + 1} ELSE Credits(q)
  BY AppendedRow
<1>3. /\ Cardinality(Debits(q) \cup {Len(outbox) + 1}) = Cardinality(Debits(q)) + 1
      /\ Cardinality(Credits(q) \cup {Len(outbox) + 1}) = Cardinality(Credits(q)) + 1
  BY FiniteRows, FS_AddElement
<1> QED BY <1>1, <1>2, <1>3 DEF Debited, Refunded

\* What the ledger owes: one debit for an approved request, none for another.
Owes(status) == IF status = "APPROVED" THEN 1 ELSE 0

LEMMA OwesNow ==
  LedgerMatchesStatus <=>
    \A k \in Keys : Debited(k) - Refunded(k) = Owes(LedgerStatus[k])
BY DEF LedgerMatchesStatus, Debited, Refunded, Owes, LedgerStatus

LEMMA OwesThen ==
  LedgerMatchesStatus' <=>
    \A k \in Keys : Debited(k)' - Refunded(k)' = Owes(LedgerStatus'[k])
BY DEF LedgerMatchesStatus, Debited, Refunded, Owes, LedgerStatus

\* A transaction counts for the status it decides.
LEMMA DecisionCounts ==
  ASSUME TypeOK, LedgerMatchesStatus, NEW type \in EventTypes, NEW k \in Keys, NEW row,
         outbox' = Append(outbox, OutboxEntry(type, k, row)), NEW status,
         LedgerStatus' = [LedgerStatus EXCEPT ![k] = status],
         \/ type = "BALANCE_DEBIT" /\ LedgerStatus[k] = "PENDING" /\ status = "APPROVED"
         \/ type = "BALANCE_CREDIT" /\ LedgerStatus[k] = "APPROVED" /\ status = "CANCELLED"
  PROVE  LedgerMatchesStatus'
<1> SUFFICES ASSUME NEW q \in Keys
             PROVE  Debited(q)' - Refunded(q)' = Owes(LedgerStatus'[q])
  BY OwesThen
<1>1. Debited(q) - Refunded(q) = Owes(LedgerStatus[q])
  BY OwesNow
<1>2. Debited(q) \in Nat /\ Refunded(q) \in Nat
  BY FiniteRows DEF Debited, Refunded
<1>3. /\ Debited(q)' = IF type = "BALANCE_DEBIT" /\ q = k THEN Debited(q) + 1 ELSE Debited(q)
      /\ Refunded(q)' = IF type = "BALANCE_CREDIT" /\ q = k
                        THEN Refunded(q) + 1 ELSE Refunded(q)
  BY RowCounts
<1>4. LedgerStatus'[q] = IF q = k THEN status ELSE LedgerStatus[q]
  BY DEF LedgerStatus
<1> QED BY <1>1, <1>2, <1>3, <1>4 DEF Owes

\* Without a row in the outbox no request is approved or stops being so.
LEMMA QuietCounts ==
  ASSUME LedgerMatchesStatus, outbox' = outbox, LedgerKeepsDays
  PROVE  LedgerMatchesStatus'
<1>1. \A q \in Keys : Owes(LedgerStatus'[q]) = Owes(LedgerStatus[q])
  BY DEF LedgerKeepsDays, L!Submit, L!Reject, L!CancelPending, L!Adjust, L!Become, L!vars,
         Owes, LedgerStatus
<1>2. \A q \in Keys : Debited(q)' = Debited(q) /\ Refunded(q)' = Refunded(q)
  BY DEF Debited, Refunded, Debits, Credits
<1> QED BY <1>1, <1>2, OwesNow, OwesThen

LEMMA CountsInit == Init => LedgerMatchesStatus
<1> SUFFICES ASSUME Init, NEW k \in Keys PROVE Debited(k) - Refunded(k) = Owes(LedgerStatus[k])
  BY OwesNow
<1>1. Debits(k) = {} /\ Credits(k) = {}
  BY DEF Init, Debits, Credits
<1>2. LedgerStatus[k] = "NONE"
  BY LedgerInit DEF L!Init
<1> QED BY <1>1, <1>2, FS_EmptySet DEF Debited, Refunded, Owes

\* While no two decisions on one request overlap and the process does not
\* crash, the days of a request are taken exactly once more than they are
\* given back if it is approved, and equally often if it is not (approve,
\* cancel, deductBalance and creditBalance).
THEOREM OutboxMatchesStatus == SerialSpec => []LedgerMatchesStatus
<1>1. /\ TypeOK /\ SerialInv /\ (TypeOK /\ SerialInv)' /\ [SerialNext]_vars
      /\ LedgerMatchesStatus
      => LedgerMatchesStatus'
  BY LedgerSteps, QuietCounts, DecisionCounts
     DEF EventTypes, L!Approve, L!CancelApproved, L!Become
<1> QED BY <1>1, CountsInit, SerialInvariance, PTL DEF SerialSpec

\* A request on which nobody decided for it has had no days taken.
UndecidedIsFree ==
  \A k \in Keys : LedgerStatus[k] \in {"NONE", "PENDING", "REJECTED"} => Debited(k) = 0

TakenOnce == UndecidedIsFree /\ DebitedAtMostOnce

\* An approval takes the days of a request that had none taken.
LEMMA ApprovalTakesOnce ==
  ASSUME TypeOK, TakenOnce, NEW k \in Keys, NEW row, L!Approve(k),
         outbox' = Append(outbox, OutboxEntry("BALANCE_DEBIT", k, row))
  PROVE  TakenOnce'
<1>1. \A q \in Keys : /\ Debited(q) \in Nat /\ Debited(q) <= 1
                      /\ Debited(q)' = IF q = k THEN Debited(q) + 1 ELSE Debited(q)
  BY FiniteRows, RowCounts DEF Debited, EventTypes, TakenOnce, DebitedAtMostOnce
<1>2. /\ LedgerStatus[k] = "PENDING"
      /\ \A q \in Keys : LedgerStatus'[q] = IF q = k THEN "APPROVED" ELSE LedgerStatus[q]
  BY DEF L!Approve, L!Become, LedgerStatus
<1>3. Debited(k) = 0
  BY <1>2 DEF TakenOnce, UndecidedIsFree
<1>4. \A q \in Keys : Debited(q)' <= 1
  BY <1>1, <1>3
<1>5. UndecidedIsFree'
  BY <1>1, <1>2 DEF TakenOnce, UndecidedIsFree
<1> QED BY <1>4, <1>5 DEF TakenOnce, DebitedAtMostOnce, Debited

\* A cancellation gives days back and takes none.
LEMMA CreditTakesNothing ==
  ASSUME TypeOK, TakenOnce, NEW k \in Keys, NEW row, L!CancelApproved(k),
         outbox' = Append(outbox, OutboxEntry("BALANCE_CREDIT", k, row))
  PROVE  TakenOnce'
<1>1. \A q \in Keys : Debited(q)' = Debited(q)
  BY RowCounts DEF EventTypes
<1>2. \A q \in Keys : LedgerStatus'[q] = IF q = k THEN "CANCELLED" ELSE LedgerStatus[q]
  BY DEF L!CancelApproved, L!Become, LedgerStatus
<1>3. UndecidedIsFree'
  BY <1>1, <1>2 DEF TakenOnce, UndecidedIsFree
<1> QED BY <1>1, <1>3 DEF TakenOnce, DebitedAtMostOnce, Debited

\* Steps that take no days leave no request undecided that was decided.
LEMMA QuietTakesNothing ==
  ASSUME TakenOnce, outbox' = outbox, LedgerKeepsDays
  PROVE  TakenOnce'
<1> DEFINE Free == {"NONE", "PENDING", "REJECTED"}
<1>1. \A q \in Keys : LedgerStatus'[q] \in Free => LedgerStatus[q] \in Free
  BY DEF LedgerKeepsDays, L!Submit, L!Reject, L!CancelPending, L!Adjust, L!Become, L!vars,
         LedgerStatus
<1>2. \A q \in Keys : Debited(q)' = Debited(q)
  BY DEF Debited, Debits
<1> QED BY <1>1, <1>2 DEF TakenOnce, UndecidedIsFree, DebitedAtMostOnce, Debited

LEMMA TakenInit == Init => TakenOnce
<1> SUFFICES ASSUME Init, NEW k \in Keys PROVE Debited(k) = 0
  BY DEF TakenOnce, UndecidedIsFree, DebitedAtMostOnce, Debited
<1>1. Debits(k) = {}
  BY DEF Init, Debits
<1> QED BY <1>1, FS_EmptySet DEF Debited

\* While no two decisions on one request overlap and the process does not
\* crash, the days of a request are taken once at most: a second approval is
\* refused, before and after the request was cancelled.
THEOREM DaysTakenOnce == SerialSpec => []DebitedAtMostOnce
<1>1. TypeOK /\ SerialInv /\ (TypeOK /\ SerialInv)' /\ [SerialNext]_vars /\ TakenOnce => TakenOnce'
  BY LedgerSteps, ApprovalTakesOnce, CreditTakesNothing, QuietTakesNothing
<1>2. TakenOnce => DebitedAtMostOnce
  BY DEF TakenOnce
<1> QED BY <1>1, <1>2, TakenInit, SerialInvariance, PTL DEF SerialSpec
=================================================================================
