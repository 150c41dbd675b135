---------------------------- MODULE BalanceService ----------------------------
(***************************************************************************)
(* One row of the balances table and the rows of the outbox_events table,  *)
(* with what each method of BalanceService writes in them.  A balance row  *)
(* belongs to one (employee, location, leave type); every module that uses *)
(* this one fixes that triple.  Of the row, usedDays and pendingDays are    *)
(* left out: they are written and shown, and nothing decides on them.      *)
(* There are no variables here: a module that models handlers applies      *)
(* these operators in its actions.                                         *)
(***************************************************************************)
EXTENDS Integers, Sequences

CONSTANTS
    NoRow      \* what findOne returns when there is no row

EventTypes == {"BALANCE_DEBIT", "BALANCE_CREDIT"}

OutboxStatuses == {"PENDING", "SENT", "FAILED"}

\* "fresh" stands for lastHcmSync being within the cache TTL.
BalanceRow == [availableDays : Int, fresh : BOOLEAN]

\* createdAt is the position in the sequence that holds the rows.
OutboxRow(Ids) ==
    [eventType : EventTypes, requestId : Ids, newBalance : Int,
     status : OutboxStatuses, attempts : Nat]

ASSUME NoRowAssumption == NoRow \notin BalanceRow

\* Variant for mutation: the 422 of deductBalance is forgotten.
CoversAnything(row, days) == row # NoRow

\* deductBalance commits only if there is a row and it covers the request.
Covers(row, days) == row # NoRow /\ row.availableDays >= days

Deducted(row, days) == [row EXCEPT !.availableDays = @ - days]

Credited(row, days) == [row EXCEPT !.availableDays = @ + days]

\* The outbox row the same transaction writes: the new absolute balance.
OutboxEntry(type, id, row) ==
    [eventType |-> type, requestId |-> id, newBalance |-> row.availableDays,
     status |-> "PENDING", attempts |-> 0]

\* The entity upsertBalance saves: what it found with HCM's balance, or a new
\* one.
Upserted(hcmDays) == [availableDays |-> hcmDays, fresh |-> TRUE]
===============================================================================
