---------------------------- MODULE Recurrence ----------------------------
(***************************************************************************)
(* When a schedule of Actual falls due: the calendar of chrono, the        *)
(* translation of a schedule as the bridge answers it                      *)
(* (services/actual/income_schedule_adapter.rs) and its expansion into     *)
(* dates (domain models/recurrence.rs).                                    *)
(*                                                                         *)
(* A list is a family over the positions its elements have where they come *)
(* from: to leave elements out leaves the others their positions.          *)
(*                                                                         *)
(* A date is the number of days since 1970-01-01, a month the number of    *)
(* months since year 0.  A date that cannot be parsed is None.             *)
(***************************************************************************)
EXTENDS Integers, Sequences, FiniteSets, FiniteSetsExt, Functions

CONSTANTS
    None,        \* an optional field that is not there
    MaxPeriods   \* the periods a recurrence is followed for (20 000 in the code)

ASSUME PeriodsAssumption == MaxPeriods \in Nat

----------------------------------------------------------------------------
(* The Gregorian calendar.                                                 *)

Month(year, month) == 12 * year + month - 1
YearOf(month) == month \div 12

\* Years that begin in March have their leap day last.
FirstOf(month) ==
    LET year == (month - 2) \div 12
        inYear == (month - 2) % 12
    IN  365 * year + year \div 4 - year \div 100 + year \div 400
        + (153 * inYear + 2) \div 5 - 719468
LastOf(month) == FirstOf(month + 1) - 1
DaysIn(month) == FirstOf(month + 1) - FirstOf(month)

Weekdays == [mo |-> 0, tu |-> 1, we |-> 2, th |-> 3, fr |-> 4, sa |-> 5, su |-> 6]
Weekday(date) == (date + 3) % 7
IsSaturday(date) == Weekday(date) = Weekdays.sa
IsSunday(date) == Weekday(date) = Weekdays.su

ClampDay(month, day) == FirstOf(month) - 1 + Max({1, Min({day, DaysIn(month)})})

NthWeekday(month, weekday, nth) ==
    LET toFirst == (7 + weekday - Weekday(FirstOf(month))) % 7
        date == FirstOf(month) + toFirst + 7 * (nth - 1)
    IN  {d \in {date} : d <= LastOf(month)}

----------------------------------------------------------------------------
(* A schedule as Actual has it, and what is kept of it.                    *)

\* A pattern that is out of range is left out.
InRange(p) == p.value \in IF p.type = "day" THEN 1 .. 31 ELSE 1 .. 5

Else(option, default) == IF option = None THEN default ELSE option

ToRecurring(config) ==
    [config EXCEPT
        !.interval = Else(@, 1),
        !.patterns = RestrictValues(@, InRange),
        !.skipWeekend = Else(@, FALSE),
        !.solve = Else(@, "after"),
        !.endMode = IF config.end = None THEN "never" ELSE @]

\* The amount of an isbetween schedule; i64 division rounds toward zero.
Midpoint(amount) ==
    LET sum == amount.low + amount.high
    IN  IF sum >= 0 THEN sum \div 2 ELSE -((-sum) \div 2)

ToIncomeSchedule(s) ==
    [payee |-> s.payee, amount |-> Midpoint(s.amount),
     timing |-> IF s.date.frequency = "once" THEN s.date ELSE ToRecurring(s.date)]

\* A schedule without a payee or with an unparseable date is ignored.
ToIncomeSchedules(schedules) ==
    LET usable == RestrictValues(schedules,
                      LAMBDA s : s.payee # None /\ s.date.month # None)
    IN  [i \in DOMAIN usable |-> ToIncomeSchedule(usable[i])]

----------------------------------------------------------------------------
(* Its dates.                                                              *)

Recurring(timing) == timing.frequency # "once"

PatternDates(p, month) ==
    IF p.type = "day" THEN {ClampDay(month, p.value)}
    ELSE NthWeekday(month, Weekdays[p.type], p.value)

\* The dates of the k-th period, before weekends are looked at.
RawDates(c, k) ==
    LET step == k * Max({c.interval, 1})
        start == ClampDay(c.month, c.day)
    IN  CASE c.frequency = "daily"   -> {start + step}
          [] c.frequency = "weekly"  -> {start + 7 * step}
          [] c.frequency = "monthly" ->
               IF DOMAIN c.patterns = {} THEN {ClampDay(c.month + step, c.day)}
               ELSE UNION {PatternDates(c.patterns[i], c.month + step) :
                             i \in DOMAIN c.patterns}
          [] c.frequency = "yearly"  -> {ClampDay(c.month + 12 * step, c.day)}

\* How far past the range a date can be that a weekend moves back into it.
\* Variant: not at all.
NoMargin == 0
Margin == 3

\* Periods come in order: to stop at the first late one is to leave out all
\* late ones.
Walked(c, to) ==
    {k \in 0 .. MaxPeriods : \E d \in RawDates(c, k) : d <= to + Margin}

BeforeEnd(c, dates) ==
    CASE c.endMode = "never" -> dates
      [] c.endMode = "on_date" -> {d \in dates : d <= c.end}
      [] c.endMode = "after_n_occurrences" ->
           {d \in dates : Cardinality({e \in dates : e <= d}) <= c.end}

Adjust(c, date) ==
    IF ~c.skipWeekend THEN date
    ELSE IF IsSaturday(date) THEN IF c.solve = "before" THEN date - 1 ELSE date + 2
    ELSE IF IsSunday(date) THEN IF c.solve = "before" THEN date - 2 ELSE date + 1
    ELSE date

ExpandRecurring(c, to) ==
    {Adjust(c, d) : d \in BeforeEnd(c, UNION {RawDates(c, k) : k \in Walked(c, to)})}

\* expand_occurrences
Expand(timing, from, to) ==
    LET dates == IF Recurring(timing) THEN ExpandRecurring(timing, to)
                 ELSE {ClampDay(timing.month, timing.day)}
    IN  {d \in dates : from <= d /\ d <= to}
=============================================================================
