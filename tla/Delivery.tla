-------------------------------- MODULE Delivery --------------------------------
(***************************************************************************)
(* What the outbox promises the rest of the system, without worker,        *)
(* batches, retries or crashes: HCM may store the balance an event         *)
(* announces any number of times and at any later time, an event is        *)
(* confirmed only once HCM has stored it, and an event that is confirmed   *)
(* or given up stays so.  Nothing orders the events, and HCM's balances    *)
(* change by themselves too.                                               *)
(***************************************************************************)
EXTENDS Integers, Sequences

CONSTANTS
    Rows,      \* the balances in HCM's store
    NoRow      \* HCM has no such balance

VARIABLES
    outbox,    \* the events in the order of the transactions that wrote them
    hcm,       \* hcm[r]: availableDays of row r in HCM's store
    posted     \* PENDING events HCM has stored at least once

vars == <<outbox, hcm, posted>>

Event == [row : Rows, newBalance : Int, status : {"PENDING", "SENT", "FAILED"}]

Balances == [Rows -> Int \cup {NoRow}]

Init ==
    /\ outbox = <<>>
    /\ hcm \in Balances
    /\ posted = {}

\* A transaction announces a balance.
Enqueue ==
    /\ Len(outbox') = Len(outbox) + 1
    /\ LET e == outbox'[Len(outbox')] IN
         /\ e \in Event
         /\ e.status = "PENDING"
         /\ outbox' = Append(outbox, e)
    /\ UNCHANGED <<hcm, posted>>

\* HCM stores what an event announces, unless that is negative.
Deliver(i) ==
    /\ outbox[i].newBalance >= 0
    /\ hcm' = [hcm EXCEPT ![outbox[i].row] = outbox[i].newBalance]
    /\ posted' = IF outbox[i].status = "PENDING" THEN posted \cup {i} ELSE posted
    /\ UNCHANGED outbox

SettleAs(i, status) ==
    /\ outbox[i].status = "PENDING"
    /\ outbox' = [outbox EXCEPT ![i].status = status]
    /\ posted' = posted \ {i}
    /\ UNCHANGED hcm

Confirm(i) == i \in posted /\ SettleAs(i, "SENT")

GiveUp(i) == SettleAs(i, "FAILED")

HcmChanges ==
    /\ hcm' \in Balances
    /\ UNCHANGED <<outbox, posted>>

Next ==
    \/ Enqueue
    \/ \E i \in DOMAIN outbox : Deliver(i) \/ Confirm(i) \/ GiveUp(i)
    \/ HcmChanges

Spec == Init /\ [][Next]_vars
===============================================================================
