-------------------------------- MODULE Cron --------------------------------
(***************************************************************************)
(* When a schedule fires next: the fields of a cron expression, the walk over *)
(* wall-clock time in its zone, and the slot each node keeps of it            *)
(* (src/waterpump/cron.py, the loop of tasks.py).                             *)
(*                                                                            *)
(* Time is in ticks, of which an hour has Ticks; a day has Hours, a month      *)
(* Days, a year Months and a week Weekdays.  A zone changes its clocks once,    *)
(* at a moment `at`, by `by` ticks: forwards over a gap, or back over a fold.    *)
(***************************************************************************)
EXTENDS Integers, FiniteSets

CONSTANTS
    Ticks, Hours, Days, Months, Weekdays,
    Zones,     \* records [at, by]
    MaxTime    \* bound: how far the clock goes

VARIABLES
    schedule,  \* the five fields, as written
    zone,      \* the schedule's zone
    now,       \* what the node's clock says
    slot       \* the next slot a node keeps, or Never: it has not looked

cronVars == <<schedule, zone, now, slot>>

Never == -1

-----------------------------------------------------------------------------
(* _parse_field(): the values of a term.  "a/n" goes on to the end of the field. *)

Star == [from |-> Never, to |-> Never, step |-> 1]
Every(n) == [Star EXCEPT !.step = n]
One(a) == [from |-> a, to |-> a, step |-> 1]
Span(a, b, n) == [from |-> a, to |-> b, step |-> n]
From(a, n) == [from |-> a, to |-> Never, step |-> n]

Values(term, low, high) ==
    LET first == IF term.from = Never THEN low ELSE term.from
        last == IF term.to = Never THEN high ELSE term.to
    IN  {v \in first .. last : (v - first) % term.step = 0}

Schedules ==
    [minute : {Star, One(1)}, hour : {Star, One(1), From(1, 1), Every(2)},
     day : {Star, One(2)}, month : {Star, One(2)}, weekday : {Star, One(0), Span(1, 2, 1)}]

Minutes == Values(schedule.minute, 0, Ticks - 1)
InHours == Values(schedule.hour, 0, Hours - 1)
InDays == Values(schedule.day, 1, Days)
InMonths == Values(schedule.month, 1, Months)
InWeek == {v % Weekdays : v \in Values(schedule.weekday, 0, Weekdays)}

-----------------------------------------------------------------------------
(* Wall-clock time, in ticks since its first day; and the moments it stands for. *)

DayTicks == Ticks * Hours
MonthTicks == DayTicks * Days
YearTicks == MonthTicks * Months

Minute(l) == l % Ticks
Hour(l) == (l \div Ticks) % Hours
Day(l) == ((l \div DayTicks) % Days) + 1
Month(l) == ((l \div MonthTicks) % Months) + 1
Weekday(l) == (l \div DayTicks) % Weekdays

\* What the clocks of the zone show at a moment.
Wall(t) == IF t < zone.at THEN t ELSE t + zone.by

\* The moment of a wall time: of two, the first; one in the gap, by the clocks before it.
Moment(l) ==
    IF l < zone.at + (IF zone.by > 0 THEN zone.by ELSE 0) THEN l ELSE l - zone.by

(* Schedule._day_matches(): a field that begins with `*` counts as any. *)
DayMatches(l) ==
    LET inMonth == Day(l) \in InDays
        inWeek == Weekday(l) \in InWeek
    IN  IF schedule.day.from = Never
        THEN schedule.weekday.from = Never \/ inWeek
        ELSE IF schedule.weekday.from = Never THEN inMonth ELSE inMonth \/ inWeek

\* The mutant: the next day at the same hour.
SameTimeNextDay(l) == l + DayTicks

NextMidnight(l) == (l \div DayTicks + 1) * DayTicks

\* Far enough: what has not matched by then never will.
Limit(l) == (l \div YearTicks + 3) * YearTicks

(* Schedule.next_after(): month, then day, then hour, then minute; Never for never. *)
NextAfter(t) ==
    LET start == Wall(t) + 1
        Walk[l \in start .. Limit(start) + YearTicks] ==
            IF l >= Limit(start) THEN Never
            ELSE IF Month(l) \notin InMonths THEN Walk[(l \div MonthTicks + 1) * MonthTicks]
            ELSE IF ~DayMatches(l) THEN Walk[NextMidnight(l)]
            ELSE IF Hour(l) \notin InHours THEN Walk[(l \div Ticks + 1) * Ticks]
            ELSE IF Minute(l) \notin Minutes THEN Walk[l + 1]
            ELSE IF Moment(l) > t THEN Moment(l) ELSE Walk[l + 1]
    IN  Walk[start]

-----------------------------------------------------------------------------
(* TaskService._loop(): starting, or after an edit, the slot is the first from now;   *)
(* one that has come is contended for, and the next is the first after it.              *)

Init ==
    /\ schedule \in Schedules /\ zone \in Zones
    /\ now = 0 /\ slot = Never

Looks ==
    /\ slot = Never \/ now >= slot
    /\ slot' = NextAfter(now)
    /\ UNCHANGED <<schedule, zone, now>>

TimePasses ==
    /\ now < MaxTime /\ now' = now + 1
    /\ UNCHANGED <<schedule, zone, slot>>

\* `serve` starts anew, or the schedule was edited and edited back.
Restarts ==
    /\ slot # Never /\ slot' = Never
    /\ UNCHANGED <<schedule, zone, now>>

Next == Looks \/ TimePasses \/ Restarts

Spec == Init /\ [][Next]_cronVars

-----------------------------------------------------------------------------
(* The wall times that the expression names, read off the fields, and the first moment *)
(* after t that one of them stands for: a wall time that happens twice fires once, the   *)
(* first time.                                                                           *)
Named(l) ==
    /\ Minute(l) \in Minutes /\ Hour(l) \in InHours /\ Month(l) \in InMonths
    /\ LET free == {Star, Every(2)} IN
       IF schedule.day \notin free /\ schedule.weekday \notin free
       THEN Day(l) \in InDays \/ Weekday(l) \in InWeek
       ELSE Day(l) \in InDays /\ Weekday(l) \in InWeek

Firings(t) == {Moment(l) : l \in {k \in 0 .. Limit(Wall(t) + 1) - 1 : Named(k)}}

First(t) ==
    LET later == {u \in Firings(t) : u > t} IN
    IF later = {} THEN Never ELSE CHOOSE u \in later : \A v \in later : u <= v

\* The moments at which the clocks show a time an hour's change has brought forward.
InChange(t) == zone.by > 0 /\ t >= zone.at /\ t < zone.at + zone.by

(* The walk over months, days, hours and minutes finds the first firing there is, never *)
(* one that is over, and none twice, at any moment but those just after the clocks went   *)
(* forward (next_after()).                                                                *)
NextIsFirst == slot = Never /\ ~InChange(now) => NextAfter(now) = First(now)

(* cron.py: "What it needs from this is a single answer every node agrees on": the slot    *)
(* one node keeps is the one that another, which starts now, will keep.  It fails: a time    *)
(* the clocks skip is walked over by a node that starts after they went forward.             *)
SingleAnswer == slot > now => slot = NextAfter(now)
=============================================================================
