-------------------------------- MODULE WorkDays --------------------------------
(***************************************************************************)
(* The dates of a request: create checks them and calculateWorkDays counts *)
(* the work days between them.                                             *)
(*                                                                         *)
(* startDate and endDate are calendar dates, which JavaScript reads as     *)
(* midnight UTC, or timestamps, while getDay, setDate and setHours work in *)
(* the time zone of the server.  Time is in hours; day 0 is a Sunday.  A   *)
(* zone has an offset to UTC, which changes once in the time considered    *)
(* (DST).                                                                  *)
(***************************************************************************)
EXTENDS Integers, FiniteSets

CONSTANTS
    Zones,      \* time zones the server may run in
    Dates,      \* bound: days on which a request may start or end
    Hours,      \* bound: the hours (UTC) it may give, 0 with a mere date
    Nows        \* bound: hours at which create may be called

VARIABLES
    pc,         \* what create does next
    zone,       \* the time zone of the server
    now,        \* when create is called
    start,
    end,
    current,    \* the date the loop is at
    count       \* work days counted so far

vars == <<pc, zone, now, start, end, current, count>>

Moments == {24 * d + h : d \in Dates, h \in Hours}

Zone == [change : Int, before : -23..23, after : -23..23]

\* Clocks that go forward skip less than a day, and do not skip, nor move
\* what they skip, past midnight.
ASSUME DatesAssumption ==
    /\ Dates \subseteq Int
    /\ Hours \subseteq 0..23
    /\ Nows \subseteq Int
    /\ Zones \subseteq Zone
    /\ \A z \in Zones :
         /\ z.before - z.after \in -23..23
         /\ z.before < z.after =>
              (z.change + z.before) \div 24 =
                (z.change + z.after + (z.after - z.before) - 1) \div 24

TypeOK ==
    /\ pc \in {"create", "count", "done", "refused"}
    /\ zone \in Zones
    /\ now \in Nows
    /\ {start, end} \subseteq Moments
    /\ current \in Int
    /\ pc \in {"count", "done"} => current \in start..(end + 47)
    /\ count \in Nat

Init ==
    /\ pc = "create"
    /\ zone \in Zones
    /\ now \in Nows
    /\ start \in Moments
    /\ end \in Moments
    /\ current = start
    /\ count = 0

-------------------------------------------------------------------------------
Offset(t) == IF t < zone.change THEN zone.before ELSE zone.after

\* The date a server's clock shows at t.
LocalDay(t) == (t + Offset(t)) \div 24

\* The instant of a local time.  One that occurs twice is the first of the
\* two, and one that is skipped is read with the offset from before.
Instant(local) ==
    IF local - zone.before < zone.change \/ local - zone.after < zone.change
    THEN local - zone.before
    ELSE local - zone.after

\* setHours(0, 0, 0, 0).
StartOfDay(t) == Instant(24 * LocalDay(t))

\* Variant for mutation: the date is counted down.
PreviousDay(t) == Instant(t + Offset(t) - 24)

\* setDate(getDate() + 1): the same time on the next day.
NextDay(t) == Instant(t + Offset(t) + 24)

\* getDay is neither 0 nor 6.
IsWorkDay(d) == d % 7 \notin {0, 6}

\* Variant for mutation: the dates are not compared with each other.
ValidateStart ==
    /\ pc = "create"
    /\ pc' = IF end < StartOfDay(now) THEN "refused" ELSE "count"
    /\ UNCHANGED <<zone, now, start, end, current, count>>

\* create refuses a request in the past or upside down.
Validate ==
    /\ pc = "create"
    /\ pc' = IF start < StartOfDay(now) \/ end < start THEN "refused" ELSE "count"
    /\ UNCHANGED <<zone, now, start, end, current, count>>

\* Variant for mutation: a Saturday is a work day.
CountSaturdays ==
    /\ pc = "count"
    /\ current <= end
    /\ count' = IF LocalDay(current) % 7 # 0 THEN count + 1 ELSE count
    /\ current' = NextDay(current)
    /\ UNCHANGED <<pc, zone, now, start, end>>

\* Variant for mutation: a day is taken to have 24 hours.
CountByHours ==
    /\ pc = "count"
    /\ current <= end
    /\ count' = IF IsWorkDay(LocalDay(current)) THEN count + 1 ELSE count
    /\ current' = current + 24
    /\ UNCHANGED <<pc, zone, now, start, end>>

\* Variant for mutation: the loop does not go on past a weekend.
CountStuck ==
    /\ pc = "count"
    /\ current <= end
    /\ IsWorkDay(LocalDay(current))
    /\ count' = count + 1
    /\ current' = NextDay(current)
    /\ UNCHANGED <<pc, zone, now, start, end>>

\* The body of the loop of calculateWorkDays.
CountDay ==
    /\ pc = "count"
    /\ current <= end
    /\ count' = IF IsWorkDay(LocalDay(current)) THEN count + 1 ELSE count
    /\ current' = NextDay(current)
    /\ UNCHANGED <<pc, zone, now, start, end>>

\* The count becomes totalDays of the request.
ReturnDays ==
    /\ pc = "count"
    /\ current > end
    /\ pc' = "done"
    /\ UNCHANGED <<zone, now, start, end, current, count>>

Next == Validate \/ CountDay \/ ReturnDays

\* create runs on without waiting for anybody.
Spec == Init /\ [][Next]_vars /\ WF_vars(Next)

-------------------------------------------------------------------------------
(* Properties                                                              *)

WorkDaysIn(first, last) == Cardinality({d \in first..last : IsWorkDay(d)})

\* startDate and endDate say no time of day.
CalendarDates == start % 24 = 0 /\ end % 24 = 0

\* Calendar dates are the same dates on the server's clock.
EastOfGreenwich == zone.before \in 0..23 /\ zone.after \in 0..23

\* The clocks do not change during the request.
ClocksStay == start >= zone.change \/ end < zone.change

\* Clocks went back after the start of the request and not after its end.
ClocksGoBack == zone.after < zone.before /\ ~ClocksStay

\* A request is charged the work days from its first date to its last, on a
\* server at or east of Greenwich, unless the clocks go back meanwhile.
ChargesWorkDays ==
    (pc = "done" /\ CalendarDates /\ EastOfGreenwich /\ ~ClocksGoBack) =>
        count = WorkDaysIn(start \div 24, end \div 24)

\* In every zone: the days counted are those the server's clock shows at the
\* time of day of startDate, as many as there are full days to endDate and
\* one more.  Of calendar dates they are a day early west of Greenwich, and
\* the last one is left out if the clocks go back meanwhile.
ChargesLocalDays ==
    (pc = "done" /\ (CalendarDates \/ ClocksStay)) =>
        LET days == (end - start) \div 24 IN
        count = WorkDaysIn(LocalDay(start),
                           LocalDay(start) + (IF ClocksGoBack THEN days - 1 ELSE days))

\* No request for a date before today (on the server's clock) is accepted;
\* at and east of Greenwich one that starts today or later is.
OnlyThePastIsRefused ==
    /\ pc \in {"count", "done"} =>
         (CalendarDates => LocalDay(now) <= start \div 24) /\ start <= end
    /\ pc = "refused" /\ EastOfGreenwich => start \div 24 < LocalDay(now) \/ end < start

\* create gets an answer about its dates: the loop reaches the last one,
\* although a step of setDate may take 23 or 25 hours.
Answers == <>(pc \in {"done", "refused"})
===============================================================================
