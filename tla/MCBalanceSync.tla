----------------------------- MODULE MCBalanceSync -----------------------------
EXTENDS BalanceSync, TLC

CONSTANTS vacation, sick, r1, r2

MCStore == <<vacation, sick>>

MCVacation == <<vacation>>

\* Requests that compete for the vacation days.
MCLeaveType == [r \in Requests |-> vacation]

MCDays == [r \in Requests |-> 1]

\* HR takes the vacation days away, adds one, or changes nothing.
MCTaken == [t \in LeaveTypes |-> IF t = vacation THEN {0} ELSE {}]

MCAdded == [t \in LeaveTypes |-> IF t = vacation THEN {3} ELSE {}]

MCKept == [t \in LeaveTypes |-> {}]

\* An anniversary that takes a day off: nobody checks bonusDays.
MCMalus == -1

\* A new year brings back the vacation days of the last, or no year begins.
MCYearDays == [t \in {vacation} |-> InitialDays]

MCNoYear == <<>>
===============================================================================
