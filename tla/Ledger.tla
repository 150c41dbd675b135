-------------------------------- MODULE Ledger --------------------------------
(***************************************************************************)
(* What the time-off service promises about one balance: a request is      *)
(* submitted, decided once and its days are taken and given back in the    *)
(* same instant as its status changes.  No handlers, no cache, no outbox.  *)
(* TimeOffRequests implements it while no two decisions on one request     *)
(* overlap.                                                                *)
(***************************************************************************)
EXTENDS Integers

CONSTANTS
    Keys,      \* the requests that can ever be submitted
    Days,      \* Days[k]: the work days request k asks for
    HcmDays,   \* the balances HCM may report
    InitialDays,
    NoRow

VARIABLES
    status,    \* status[k] of each request
    available  \* the days left, or NoRow before the first balance is known

vars == <<status, available>>

Init ==
    /\ status = [k \in Keys |-> "NONE"]
    /\ available \in {NoRow, InitialDays}

Become(k, s) == status' = [status EXCEPT ![k] = s]

Submit(k) ==
    /\ status[k] = "NONE"
    /\ Become(k, "PENDING")
    /\ UNCHANGED available

Approve(k) ==
    /\ status[k] = "PENDING"
    /\ available # NoRow
    /\ available >= Days[k]
    /\ Become(k, "APPROVED")
    /\ available' = available - Days[k]

Reject(k) ==
    /\ status[k] = "PENDING"
    /\ Become(k, "REJECTED")
    /\ UNCHANGED available

CancelPending(k) ==
    /\ status[k] = "PENDING"
    /\ Become(k, "CANCELLED")
    /\ UNCHANGED available

CancelApproved(k) ==
    /\ status[k] = "APPROVED"
    /\ available # NoRow
    /\ Become(k, "CANCELLED")
    /\ available' = available + Days[k]

\* HCM is the source of truth: a sync replaces the balance.
Adjust ==
    /\ available' \in HcmDays
    /\ UNCHANGED status

Next ==
    \/ \E k \in Keys : Submit(k) \/ Approve(k) \/ Reject(k)
                       \/ CancelPending(k) \/ CancelApproved(k)
    \/ Adjust

Spec == Init /\ [][Next]_vars
===============================================================================
