------------------------------- MODULE MCWorkDays -------------------------------
EXTENDS WorkDays

\* Days 0 and 7 are Sundays; a change is given by its day and UTC hour.
Change(day, hour, before, after) ==
    [change |-> 24 * day + hour, before |-> before, after |-> after]

\* In order: UTC; Berlin in spring and autumn; Jerusalem, which skips the
\* hour of midnight UTC; Cairo, which skips local midnight; Auckland; New
\* York in spring and autumn.
MCZones ==
    {Change(7, 0, 0, 0), Change(7, 1, 1, 2), Change(7, 1, 2, 1),
     Change(5, 0, 2, 3), Change(4, 22, 2, 3), Change(6, 14, 13, 12),
     Change(7, 7, -5, -4), Change(7, 6, -4, -5)}

MCDates == 0..12

\* A mere date; in the morning; in the evening.
MCHours == {0, 7, 22}

\* Some hours of day 3, and the hours around the midnight Cairo skips.
MCNows == {72, 79, 90, 95, 117, 118, 119}
===============================================================================
