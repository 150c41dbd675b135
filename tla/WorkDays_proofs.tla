----------------------------- MODULE WorkDays_proofs ----------------------------
(***************************************************************************)
(* Proofs of the safety properties of WorkDays, for all time zones and     *)
(* dates.  The loop invariant (Position) says where the loop is after it   *)
(* counted some days, from which side the change of the clocks matters,    *)
(* and how far the loop can still go.                                      *)
(***************************************************************************)
EXTENDS WorkDays, FiniteSetTheorems, TLAPS

\* Days counted so far.
Counted == LocalDay(current) - LocalDay(start)

\* The days of the request, as many as the loop will count.
Last == (end - start) \div 24 - (IF ClocksGoBack THEN 1 ELSE 0)

\* Where the loop is after n days: the clocks do not change while it runs,
\* or not yet, or it met the hour they skipped and lost it, or it is on the
\* same local time with the new offset.
Position(n, t) ==
    \/ /\ t = start + 24 * n
       /\ start >= zone.change \/ t < zone.change
    \/ /\ t = start + 24 * n
       /\ start < zone.change /\ zone.change <= t
       /\ zone.before < zone.after
       /\ (start + zone.before) \div 24 = (start + zone.after) \div 24
    \/ /\ t = start + 24 * n + zone.before - zone.after
       /\ start < zone.change /\ zone.change <= t
       /\ zone.change <= start + 24 * n

LoopInv ==
    pc \in {"count", "done"} =>
        /\ start <= end
        /\ Counted \in Nat
        /\ Position(Counted, current)
        /\ CalendarDates \/ ClocksStay => Counted <= Last + 1
        /\ count = WorkDaysIn(LocalDay(start), LocalDay(start) + Counted - 1)
        /\ pc = "done" => current > end

AtCreate == pc = "create" => current = start /\ count = 0

\* What Validate decided.
Validated ==
    /\ pc \in {"count", "done"} => StartOfDay(now) <= start /\ start <= end
    /\ pc = "refused" => start < StartOfDay(now) \/ end < start

IInv == TypeOK /\ AtCreate /\ Validated /\ LoopInv

-------------------------------------------------------------------------------
(* Time                                                                    *)

\* What the type invariant says of the times.
LEMMA Times ==
    ASSUME TypeOK
    PROVE  /\ start \in Int /\ end \in Int /\ current \in Int /\ now \in Int
           /\ zone.change \in Int /\ zone.before \in Int /\ zone.after \in Int
           /\ zone.before - zone.after \in -23..23
<1>1. zone \in Zone /\ now \in Int
  BY DatesAssumption DEF TypeOK
<1>2. Moments \subseteq Int
  BY DatesAssumption DEF Moments
<1>3. start \in Int /\ end \in Int
  BY <1>2 DEF TypeOK
<1>4. QED
  BY <1>1, <1>3, DatesAssumption DEF Zone, TypeOK

\* A local time that is a number of days after another is on the day that
\* many days after its day.
LEMMA DaysLater ==
    \A x, y, n \in Int : (x + y + 24 * n) \div 24 = ((x + y) \div 24) + n
OBVIOUS

\* The hour that is skipped is within one day, ...
LEMMA SkippedHour ==
    ASSUME NEW change \in Int, NEW before \in Int, NEW after \in Int, NEW t \in Int,
           before < after, change <= t, t + before - after < change,
           (change + before) \div 24 = (change + after + (after - before) - 1) \div 24
    PROVE  (t + before) \div 24 = (t + after) \div 24
OBVIOUS

\* ... on whichever day it is.
LEMMA SameHour ==
    ASSUME NEW x \in Int, NEW before \in Int, NEW after \in Int, NEW n \in Int,
           (x + 24 * n + before) \div 24 = (x + 24 * n + after) \div 24
    PROVE  (x + before) \div 24 = (x + after) \div 24
<1>1. (x + before + 24 * n) \div 24 = (x + before) \div 24 + n
  BY DaysLater
<1>2. (x + after + 24 * n) \div 24 = (x + after) \div 24 + n
  BY DaysLater
<1>3. /\ x + 24 * n + before = x + before + 24 * n
      /\ x + 24 * n + after = x + after + 24 * n
  OBVIOUS
<1>4. (x + before) \div 24 \in Int /\ (x + after) \div 24 \in Int
  OBVIOUS
<1>5. QED
  BY <1>1, <1>2, <1>3, <1>4

\* The next day of the loop is one step further in the same, or a later,
\* disjunct of Position.
LEMMA NextPosition ==
    ASSUME TypeOK, NEW n \in Nat, NEW t \in Int, Position(n, t)
    PROVE  Position(n + 1, NextDay(t)) /\ NextDay(t) \in Int
<1> DEFINE g == zone.before - zone.after
<1>0. /\ start \in Int /\ zone.change \in Int
      /\ zone.before \in Int /\ zone.after \in Int /\ g \in -23..23
  BY Times
<1>1. CASE t >= zone.change
  <2>1. NextDay(t) = t + 24
    BY <1>0, <1>1 DEF NextDay, Instant, Offset
  <2>2. QED
    BY <1>0, <1>1, <2>1 DEF Position
<1>2. CASE t < zone.change /\ t + 24 < zone.change
  <2>1. NextDay(t) = t + 24
    BY <1>0, <1>2 DEF NextDay, Instant, Offset
  <2>2. QED
    BY <1>0, <1>2, <2>1 DEF Position
<1>3. CASE t < zone.change /\ t + 24 >= zone.change /\ t + 24 + g < zone.change
  <2>1. NextDay(t) = t + 24
    BY <1>0, <1>3 DEF NextDay, Instant, Offset
  <2>2. zone.before < zone.after
    BY <1>0, <1>3
  <2>3. (zone.change + zone.before) \div 24 =
          (zone.change + zone.after + (zone.after - zone.before) - 1) \div 24
    BY <2>2, DatesAssumption DEF TypeOK
  <2>4. t + 24 = start + 24 * (n + 1)
    BY <1>0, <1>3 DEF Position
  <2>5. (t + 24 + zone.before) \div 24 = (t + 24 + zone.after) \div 24
    <3>1. t + 24 \in Int /\ zone.change <= t + 24 /\ t + 24 + zone.before - zone.after < zone.change
      BY <1>0, <1>3
    <3>2. QED
      BY <1>0, <2>2, <2>3, <3>1, SkippedHour
  <2>6. (start + zone.before) \div 24 = (start + zone.after) \div 24
    <3>1. n + 1 \in Int
      OBVIOUS
    <3>2. (start + 24 * (n + 1) + zone.before) \div 24 = (start + 24 * (n + 1) + zone.after) \div 24
      BY <2>4, <2>5
    <3>3. QED
      BY <1>0, <3>1, <3>2, SameHour
  <2>7. start < zone.change
    BY <1>0, <1>3, <2>4
  <2>8. QED
    BY <1>0, <1>3, <2>1, <2>2, <2>4, <2>6, <2>7 DEF Position
<1>4. CASE t < zone.change /\ t + 24 >= zone.change /\ t + 24 + g >= zone.change
  <2>1. NextDay(t) = t + 24 + g
    BY <1>0, <1>4 DEF NextDay, Instant, Offset
  <2>2. t + 24 = start + 24 * (n + 1) /\ start < zone.change
    BY <1>0, <1>4 DEF Position
  <2>3. QED
    BY <1>0, <1>4, <2>1, <2>2 DEF Position
<1>5. QED
  BY <1>0, <1>1, <1>2, <1>3, <1>4

\* Every step of the loop is a step to the next local day.
LEMMA PositionDay ==
    ASSUME TypeOK, NEW n \in Nat, NEW t \in Int, Position(n, t)
    PROVE  LocalDay(t) = LocalDay(start) + n
<1>0. /\ start \in Int /\ zone.change \in Int
      /\ zone.before \in Int /\ zone.after \in Int
  BY Times
<1>1. (start + zone.before + 24 * n) \div 24 = (start + zone.before) \div 24 + n
  BY <1>0, DaysLater
<1>2. (start + zone.after + 24 * n) \div 24 = (start + zone.after) \div 24 + n
  BY <1>0, DaysLater
<1>3. CASE t = start + 24 * n /\ start >= zone.change
  BY <1>0, <1>2, <1>3 DEF LocalDay, Offset
<1>4. CASE t = start + 24 * n /\ t < zone.change
  BY <1>0, <1>1, <1>4 DEF LocalDay, Offset
<1>5. CASE /\ t = start + 24 * n
           /\ start < zone.change /\ zone.change <= t
           /\ (start + zone.before) \div 24 = (start + zone.after) \div 24
  BY <1>0, <1>2, <1>5 DEF LocalDay, Offset
<1>6. CASE /\ t = start + 24 * n + zone.before - zone.after
           /\ start < zone.change /\ zone.change <= t
  BY <1>0, <1>1, <1>6 DEF LocalDay, Offset
<1>7. QED
  BY <1>3, <1>4, <1>5, <1>6 DEF Position

\* A step of the loop takes an hour at least and less than two days.
LEMMA NextDayBounds ==
    ASSUME TypeOK, NEW t \in Int
    PROVE  NextDay(t) \in (t + 1)..(t + 47)
BY Times DEF NextDay, Instant, Offset

\* While the loop goes on the days of the request are not all counted, ...
LEMMA NotPastLast ==
    ASSUME TypeOK, start <= end, CalendarDates \/ ClocksStay,
           NEW n \in Nat, Position(n, current), current <= end
    PROVE  n <= Last
<1>0. /\ start \in Int /\ current \in Int /\ zone.change \in Int /\ end \in Int
      /\ zone.before \in Int /\ zone.after \in Int
      /\ zone.before - zone.after \in -23..23
  BY Times
<1>1. CASE ClocksStay
  <2>1. Last = (end - start) \div 24
    BY <1>0, <1>1 DEF Last, ClocksGoBack
  <2>2. QED
    BY <1>0, <1>1, <2>1 DEF Position, ClocksStay
<1>2. CASE CalendarDates /\ ~ClocksStay
  <2>1. PICK m \in Nat : end = start + 24 * m /\ (end - start) \div 24 = m
    BY <1>0, <1>2 DEF CalendarDates
  <2>2. QED
    BY <1>0, <1>2, <2>1 DEF Position, Last, ClocksGoBack, ClocksStay
<1>3. QED
  BY <1>1, <1>2

\* ... and when it ends they are.
LEMMA PastLast ==
    ASSUME TypeOK, start <= end, CalendarDates \/ ClocksStay,
           NEW n \in Nat, Position(n, current), current > end
    PROVE  n > Last
<1>0. /\ start \in Int /\ current \in Int /\ zone.change \in Int /\ end \in Int
      /\ zone.before \in Int /\ zone.after \in Int
      /\ zone.before - zone.after \in -23..23
  BY Times
<1>1. CASE ClocksStay
  <2>1. Last = (end - start) \div 24
    BY <1>0, <1>1 DEF Last, ClocksGoBack
  <2>2. QED
    BY <1>0, <1>1, <2>1 DEF Position, ClocksStay
<1>2. CASE CalendarDates /\ ~ClocksStay
  <2>1. PICK m \in Nat : end = start + 24 * m /\ (end - start) \div 24 = m
    BY <1>0, <1>2 DEF CalendarDates
  <2>2. QED
    BY <1>0, <1>2, <2>1 DEF Position, Last, ClocksGoBack, ClocksStay
<1>3. QED
  BY <1>1, <1>2
-------------------------------------------------------------------------------
(* Counting                                                                *)

\* Another day counts if it is a work day.
LEMMA OneMoreDay ==
    ASSUME NEW a \in Int, NEW n \in Nat
    PROVE  /\ WorkDaysIn(a, a + n - 1) \in Nat
           /\ WorkDaysIn(a, a + n) = WorkDaysIn(a, a + n - 1) + (IF IsWorkDay(a + n) THEN 1 ELSE 0)
<1> DEFINE S == {d \in a..(a + n - 1) : IsWorkDay(d)}
<1>1. IsFiniteSet(S)
  <2>1. IsFiniteSet(a..(a + n - 1)) /\ S \subseteq a..(a + n - 1)
    BY FS_Interval
  <2>2. QED
    BY <2>1, FS_Subset
<1>2. Cardinality(S) \in Nat
  BY <1>1, FS_CardinalityType
<1>3. a + n \notin S
  OBVIOUS
<1>4. CASE IsWorkDay(a + n)
  <2>1. {d \in a..(a + n) : IsWorkDay(d)} = S \cup {a + n}
    BY <1>4
  <2>2. Cardinality(S \cup {a + n}) = Cardinality(S) + 1
    BY <1>1, <1>3, FS_AddElement
  <2>3. QED
    BY <1>2, <1>4, <2>1, <2>2 DEF WorkDaysIn
<1>5. CASE ~IsWorkDay(a + n)
  <2>1. {d \in a..(a + n) : IsWorkDay(d)} = S
    BY <1>5
  <2>2. QED
    BY <1>2, <1>5, <2>1 DEF WorkDaysIn
<1>6. QED
  BY <1>4, <1>5

LEMMA NoDays == \A a \in Int : WorkDaysIn(a, a - 1) = 0
<1> SUFFICES ASSUME NEW a \in Int PROVE WorkDaysIn(a, a - 1) = 0
  OBVIOUS
<1>1. {d \in a..(a - 1) : IsWorkDay(d)} = {}
  OBVIOUS
<1>2. QED
  BY <1>1, FS_EmptySet DEF WorkDaysIn

LEMMA LocalDayType == TypeOK => LocalDay(start) \in Int /\ LocalDay(current) \in Int
BY Times DEF LocalDay, Offset

-------------------------------------------------------------------------------
(* The inductive invariant                                                 *)

LEMMA StartOfDayType == TypeOK => StartOfDay(now) \in Int
BY Times DEF StartOfDay, Instant, LocalDay, Offset

LEMMA InitIInv == Init => IInv
<1> SUFFICES ASSUME Init PROVE IInv
  OBVIOUS
<1>1. start \in Int
  BY DatesAssumption DEF Init, Moments
<1>2. QED
  BY <1>1 DEF Init, IInv, TypeOK, AtCreate, Validated, LoopInv

LEMMA ValidateKeeps ==
    ASSUME IInv, Validate
    PROVE  IInv'
<1>0. TypeOK
  BY DEF IInv
<1>1. current = start /\ count = 0
  BY DEF IInv, AtCreate, Validate
<1>2. UNCHANGED <<zone, now, start, end, current, count>> /\ pc' \in {"count", "refused"}
  BY DEF Validate
<1>3. pc' = "count" => start <= end
  BY <1>0, Times DEF Validate
<1>4. Counted' = 0
  BY <1>0, <1>1, <1>2, LocalDayType DEF Counted, LocalDay, Offset
<1>5. Position(0, current)'
  BY <1>0, <1>1, <1>2, Times DEF Position
<1>6. TypeOK'
  BY <1>0, <1>1, <1>2, <1>3, Times DEF TypeOK
<1>7. pc' = "count" => 0 <= Last' + 1
  BY <1>0, <1>2, <1>3, Times DEF Last, ClocksGoBack, ClocksStay
<1>8. count' = WorkDaysIn(LocalDay(start), LocalDay(start) + 0 - 1)'
  <2>1. LocalDay(start)' = LocalDay(start) /\ LocalDay(start) \in Int
    BY <1>0, <1>2, LocalDayType DEF LocalDay, Offset
  <2>2. LocalDay(start)' + 0 - 1 = LocalDay(start)' - 1
    BY <2>1
  <2>3. QED
    BY <1>1, <1>2, <2>1, <2>2, NoDays DEF WorkDaysIn
<1>9. LoopInv'
  BY <1>2, <1>3, <1>4, <1>5, <1>7, <1>8 DEF LoopInv
<1>10. Validated'
  <2>1. StartOfDay(now)' = StartOfDay(now)
    BY <1>2 DEF StartOfDay, Instant, LocalDay, Offset
  <2>2. StartOfDay(now) \in Int /\ start \in Int /\ end \in Int
    BY <1>0, StartOfDayType, Times
  <2>3. QED
    BY <1>2, <2>1, <2>2 DEF Validated, Validate
<1>11. QED
  BY <1>2, <1>6, <1>9, <1>10 DEF IInv, AtCreate

LEMMA CountDayKeeps ==
    ASSUME IInv, CountDay
    PROVE  IInv'
<1>p. PICK n \in Nat : n = Counted
  BY DEF IInv, LoopInv, CountDay
<1>0. /\ TypeOK /\ pc = "count" /\ start <= end /\ current <= end
      /\ Position(n, current)
      /\ count = WorkDaysIn(LocalDay(start), LocalDay(start) + n - 1)
  BY <1>p DEF IInv, LoopInv, CountDay
<1>1. /\ current' = NextDay(current)
      /\ UNCHANGED <<pc, zone, now, start, end>>
      /\ count' = IF IsWorkDay(LocalDay(current)) THEN count + 1 ELSE count
  BY DEF CountDay
<1>a. Position(n + 1, current') /\ current' \in Int
  BY <1>0, <1>1, NextPosition, Times
<1>2. Position(n + 1, current)'
  BY <1>1, <1>a DEF Position
<1>3. /\ CalendarDates \/ ClocksStay => n <= Last
      /\ Last' = Last
      /\ CalendarDates' = CalendarDates /\ ClocksStay' = ClocksStay
  BY <1>0, <1>1, NotPastLast DEF Last, ClocksGoBack, ClocksStay, CalendarDates
<1>4. LocalDay(start) \in Int /\ LocalDay(current) = LocalDay(start) + n
  BY <1>0, LocalDayType, PositionDay, Times
<1>5. LocalDay(start)' = LocalDay(start)
  BY <1>1 DEF LocalDay, Offset
<1>6. count' = WorkDaysIn(LocalDay(start), LocalDay(start) + n) /\ count' \in Nat
  BY <1>0, <1>1, <1>4, OneMoreDay
<1>7. current' \in start..(end + 47)
  <2>1. current \in start..(end + 47)
    BY <1>0 DEF TypeOK
  <2>2. current' \in (current + 1)..(current + 47)
    <3>1. current \in Int
      BY <1>0, Times
    <3>2. QED
      BY <1>0, <1>1, <3>1, NextDayBounds
  <2>3. start \in Int /\ end \in Int /\ current \in Int
    BY <1>0, Times
  <2>4. QED
    BY <1>0, <2>1, <2>2, <2>3
<1>8. TypeOK' /\ AtCreate'
  BY <1>0, <1>1, <1>a, <1>6, <1>7 DEF TypeOK, AtCreate
<1>9. LocalDay(current)' = LocalDay(start) + n + 1
  <2>1. n + 1 \in Nat
    BY <1>0
  <2>2. LocalDay(current') = LocalDay(start) + (n + 1)
    BY <1>0, <1>a, <2>1, PositionDay
  <2>3. LocalDay(current)' = LocalDay(current')
    BY <1>1 DEF LocalDay, Offset
  <2>4. QED
    BY <1>0, <1>4, <2>2, <2>3
<1>10. Counted' = n + 1
  BY <1>0, <1>4, <1>5, <1>9 DEF Counted
<1>11. LoopInv'
  <2>1. Counted' \in Nat /\ (CalendarDates' \/ ClocksStay' => Counted' <= Last' + 1)
    <3>1. Last \in Int
      BY <1>0, Times DEF Last
    <3>2. QED
      BY <1>3, <1>10, <3>1
  <2>2. Position(Counted, current)'
    BY <1>2, <1>10 DEF Position
  <2>3. LocalDay(start)' + Counted' - 1 = LocalDay(start) + n
    BY <1>4, <1>5, <1>10
  <2>4. count' = WorkDaysIn(LocalDay(start)', LocalDay(start)' + Counted' - 1)
    BY <1>5, <1>6, <2>3
  <2>5. pc' = "count" /\ start' <= end'
    BY <1>0, <1>1
  <2>6. WorkDaysIn(LocalDay(start), LocalDay(start) + Counted - 1)' =
          WorkDaysIn(LocalDay(start)', LocalDay(start)' + Counted' - 1)
    BY DEF WorkDaysIn
  <2>7. QED
    BY <2>1, <2>2, <2>4, <2>5, <2>6 DEF LoopInv
<1>12. Validated'
  BY <1>0, <1>1 DEF IInv, Validated, StartOfDay, Instant, LocalDay, Offset
<1>13. QED
  BY <1>8, <1>11, <1>12 DEF IInv
LEMMA ReturnDaysKeeps ==
    ASSUME IInv, ReturnDays
    PROVE  IInv'
<1>1. UNCHANGED <<zone, now, start, end, current, count>>
  BY DEF ReturnDays
<1>2. TypeOK'
  BY <1>1 DEF IInv, TypeOK, ReturnDays
<1>3. Counted' = Counted /\ LocalDay(start)' = LocalDay(start) /\ Last' = Last
  BY <1>1 DEF Counted, LocalDay, Offset, Last, ClocksGoBack, ClocksStay
<1>4. LoopInv'
  BY <1>1, <1>3 DEF IInv, LoopInv, Position, WorkDaysIn, ReturnDays, CalendarDates, ClocksStay
<1>5. Validated'
  BY <1>1 DEF IInv, Validated, StartOfDay, Instant, LocalDay, Offset, ReturnDays
<1>6. QED
  BY <1>2, <1>4, <1>5 DEF IInv, AtCreate, ReturnDays

LEMMA NextIInv == IInv /\ [Next]_vars => IInv'
<1>1. ASSUME IInv, UNCHANGED vars
      PROVE  IInv'
  BY <1>1 DEF vars, IInv, TypeOK, AtCreate, Validated, LoopInv, Counted, Last, ClocksGoBack,
              ClocksStay, CalendarDates, Position, WorkDaysIn, LocalDay, Offset, StartOfDay, Instant
<1>2. QED
  BY <1>1, ValidateKeeps, CountDayKeeps, ReturnDaysKeeps DEF Next

LEMMA AlwaysIInv == Spec => []IInv
BY InitIInv, NextIInv, PTL DEF Spec

-------------------------------------------------------------------------------
(* Theorems                                                                *)

\* The loop stays between the first date and two days past the last one.
THEOREM TypeCorrect == Spec => []TypeOK
<1>1. IInv => TypeOK
  BY DEF IInv
<1>2. QED
  BY <1>1, AlwaysIInv, PTL

LEMMA DoneCount ==
    ASSUME IInv, pc = "done", CalendarDates \/ ClocksStay
    PROVE  count = WorkDaysIn(LocalDay(start), LocalDay(start) + Last)
<1>1. Counted > Last /\ Counted <= Last + 1 /\ Counted \in Nat
  BY PastLast DEF IInv, LoopInv
<1>2. Last \in Int /\ LocalDay(start) \in Int
  BY Times, LocalDayType DEF IInv, Last
<1>3. LocalDay(start) + Counted - 1 = LocalDay(start) + Last
  BY <1>1, <1>2
<1>4. QED
  BY <1>3 DEF IInv, LoopInv

\* What calculateWorkDays returns, in every time zone, for calendar dates and
\* while the clocks stay as they are: the local days it visits, less the one
\* it leaves out when the clocks go back.
THEOREM LocalDaysAreCharged == Spec => []ChargesLocalDays
<1>1. ASSUME IInv, pc = "done", CalendarDates \/ ClocksStay
      PROVE  LET days == (end - start) \div 24 IN
             count = WorkDaysIn(LocalDay(start),
                                LocalDay(start) + (IF ClocksGoBack THEN days - 1 ELSE days))
  <2>1. Last = IF ClocksGoBack THEN (end - start) \div 24 - 1 ELSE (end - start) \div 24
    BY <1>1, Times DEF Last, IInv
  <2>2. QED
    BY <1>1, <2>1, DoneCount
<1>2. IInv => ChargesLocalDays
  BY <1>1 DEF ChargesLocalDays
<1>3. QED
  BY <1>2, AlwaysIInv, PTL

\* At and east of Greenwich calendar dates are charged the work days
\* from startDate to endDate.
THEOREM WorkDaysAreCharged == Spec => []ChargesWorkDays
<1>1. ASSUME IInv, pc = "done", CalendarDates, EastOfGreenwich, ~ClocksGoBack
      PROVE  count = WorkDaysIn(start \div 24, end \div 24)
  <2>0. /\ start \in Int /\ end \in Int /\ start % 24 = 0 /\ end % 24 = 0
        /\ zone.before \in 0..23 /\ zone.after \in 0..23
    BY <1>1, Times DEF IInv, EastOfGreenwich, CalendarDates
  <2>1. LocalDay(start) = start \div 24
    BY <2>0 DEF LocalDay, Offset
  <2>2. LocalDay(start) + Last = end \div 24
    BY <1>1, <2>0, <2>1 DEF Last
  <2>3. QED
    BY <1>1, <2>1, <2>2, DoneCount
<1>2. IInv => ChargesWorkDays
  BY <1>1 DEF ChargesWorkDays
<1>3. QED
  BY <1>2, AlwaysIInv, PTL

\* create never accepts a date before today, and refuses no later one at and
\* east of Greenwich.
THEOREM PastIsRefused == Spec => []OnlyThePastIsRefused
<1>1. ASSUME IInv
      PROVE  OnlyThePastIsRefused
  <2>0. PICK d \in Int, s \in Int, o \in -23..23 :
          /\ start \div 24 = s /\ (CalendarDates => start = 24 * s)
          /\ start \in Int /\ 24 * s <= start
          /\ LocalDay(now) = d
          /\ StartOfDay(now) = 24 * d - o
          /\ EastOfGreenwich => o >= 0
    <3>1. start \in Int /\ LocalDay(now) \in Int
      BY <1>1, Times DEF IInv, LocalDay, Offset
    <3>2. zone.before \in -23..23 /\ zone.after \in -23..23
      BY <1>1, DatesAssumption DEF IInv, TypeOK, Zone
    <3>3. StartOfDay(now) \in {24 * LocalDay(now) - zone.before, 24 * LocalDay(now) - zone.after}
      BY DEF StartOfDay, Instant
    <3>4. /\ start \div 24 \in Int /\ 24 * (start \div 24) <= start
          /\ CalendarDates => start = 24 * (start \div 24)
      BY <3>1 DEF CalendarDates
    <3>5. PICK o \in {zone.before, zone.after} : StartOfDay(now) = 24 * LocalDay(now) - o
      BY <3>3
    <3>6. o \in -23..23 /\ (EastOfGreenwich => o >= 0)
      BY <3>2, <3>5 DEF EastOfGreenwich
    <3>7. QED
      BY <3>1, <3>4, <3>5, <3>6
  <2>1. pc \in {"count", "done"} => (CalendarDates => d <= s) /\ start <= end
    BY <1>1, <2>0 DEF IInv, Validated
  <2>2. pc = "refused" /\ EastOfGreenwich => s < d \/ end < start
    BY <1>1, <2>0 DEF IInv, Validated
  <2>3. QED
    BY <2>0, <2>1, <2>2 DEF OnlyThePastIsRefused
<1>2. QED
  BY <1>1, AlwaysIInv, PTL
===============================================================================
