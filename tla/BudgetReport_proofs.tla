------------------------ MODULE BudgetReport_proofs ------------------------
(***************************************************************************)
(* What BudgetReport guarantees for any household: any persons, schedules, *)
(* categories, amounts and months.                                         *)
(***************************************************************************)
EXTENDS BudgetReport, Sums

----------------------------------------------------------------------------
(* The calendar.                                                           *)

\* Months follow each other.
LEMMA FirstOfGrows ==
    ASSUME NEW month \in Int
    PROVE  FirstOf(month) \in Int /\ FirstOf(month) < FirstOf(month + 1)
<1> DEFINE year == (month - 2) \div 12
           inYear == (month - 2) % 12
<1>1. /\ year \in Int /\ inYear \in 0 .. 11
      /\ month - 2 = 12 * year + inYear
    OBVIOUS
<1>2. CASE inYear < 11
    <2>1. (month + 1 - 2) \div 12 = year /\ (month + 1 - 2) % 12 = inYear + 1
        BY <1>1, <1>2
    <2> HIDE DEF year, inYear
    <2> QED BY <1>1, <1>2, <2>1 DEF FirstOf
<1>3. CASE inYear = 11
    <2>1. (month + 1 - 2) \div 12 = year + 1 /\ (month + 1 - 2) % 12 = 0
        BY <1>1, <1>3
    <2> QED BY <1>1, <1>3, <2>1 DEF FirstOf
<1> QED BY <1>1, <1>2, <1>3

\* A day beyond the end of a month is taken for one of its days.
LEMMA ClampDayType ==
    ASSUME NEW month \in Int, NEW day \in Int
    PROVE  ClampDay(month, day) \in Int
<1> DEFINE least == Min({day, DaysIn(month)})
           most == Max({1, least})
<1>1. DaysIn(month) \in Int /\ FirstOf(month) \in Int
    BY FirstOfGrows DEF DaysIn
<1>2. least \in {day, DaysIn(month)}
    <2>1. \E x \in {day, DaysIn(month)} : \A y \in {day, DaysIn(month)} : x =< y
        BY <1>1
    <2> QED BY <2>1 DEF Min
<1>3. most \in {1, least}
    <2>1. \E x \in {1, least} : \A y \in {1, least} : x >= y
        BY <1>1, <1>2
    <2> HIDE DEF least
    <2> QED BY <2>1 DEF Max
<1> HIDE DEF least
<1>4. least \in Int
    BY <1>1, <1>2
<1>5. most \in Int
    BY <1>3, <1>4
<1> QED BY <1>1, <1>5 DEF ClampDay, least

\* What is kept of the date of a schedule.
IsTiming(t) ==
    /\ t.month \in Int /\ t.day \in Int
    /\ Recurring(t) =>
         /\ t.frequency \in DOMAIN Yearly
         /\ t.interval \in Int
         /\ IsFiniteSet(DOMAIN t.patterns)
         /\ \A i \in DOMAIN t.patterns :
               t.patterns[i] \in Patterns /\ InRange(t.patterns[i])
         /\ t.endMode \in {"never", "on_date", "after_n_occurrences"}
         /\ t.endMode # "never" => t.end \in Int

\* The dates of a period are dates.
LEMMA RawDatesType ==
    ASSUME NEW c, IsTiming(c), Recurring(c), NEW k \in Int
    PROVE  RawDates(c, k) \subseteq Int
<1> DEFINE step == k * Max({c.interval, 1})
<1>1. step \in Int
    <2>1. Max({c.interval, 1}) \in {c.interval, 1}
        <3>1. \E x \in {c.interval, 1} : \A y \in {c.interval, 1} : x >= y
            BY DEF IsTiming
        <3> QED BY <3>1 DEF Max
    <2>2. Max({c.interval, 1}) \in Int
        BY <2>1 DEF IsTiming
    <2> QED BY <2>2
<1>2. c.frequency \in {"daily", "weekly", "monthly", "yearly"}
    BY DEF IsTiming, Yearly
<1>3. /\ c.month \in Int /\ c.day \in Int
      /\ ClampDay(c.month, c.day) \in Int
      /\ ClampDay(c.month + step, c.day) \in Int
      /\ ClampDay(c.month + 12 * step, c.day) \in Int
    <2> HIDE DEF step
    <2>1. c.month \in Int /\ c.day \in Int
        BY DEF IsTiming
    <2>2. c.month + step \in Int /\ c.month + 12 * step \in Int
        BY <1>1, <2>1
    <2> QED BY <2>1, <2>2, ClampDayType
<1>4. ASSUME NEW i \in DOMAIN c.patterns, c.frequency = "monthly"
      PROVE  PatternDates(c.patterns[i], c.month + step) \subseteq Int
    <2> DEFINE p == c.patterns[i]
               month == c.month + step
    <2> SUFFICES PatternDates(p, month) \subseteq Int
        OBVIOUS
    <2>1. p.value \in Int /\ month \in Int /\ p.type \in {"day"} \cup DOMAIN Weekdays
        BY <1>1, <1>3, <1>4 DEF IsTiming, Patterns
    <2>2. CASE p.type = "day"
        <3> HIDE DEF p, month
        <3> QED BY <2>1, <2>2, ClampDayType DEF PatternDates
    <2>3. CASE p.type # "day"
        <3>1. Weekdays[p.type] \in Int
            <4> HIDE DEF p
            <4> QED BY <2>1, <2>3 DEF Weekdays
        <3>2. FirstOf(month) \in Int
            <4> HIDE DEF month
            <4> QED BY <2>1, FirstOfGrows
        <3>3. NthWeekday(month, Weekdays[p.type], p.value) \subseteq Int
            <4> HIDE DEF p, month
            <4> QED BY <2>1, <3>1, <3>2 DEF NthWeekday, Weekday
        <3> HIDE DEF p, month
        <3> QED BY <2>3, <3>3 DEF PatternDates
    <2> QED BY <2>2, <2>3
<1>5. CASE c.frequency = "daily"
    <2>1. RawDates(c, k) = {ClampDay(c.month, c.day) + step}
        BY <1>5 DEF RawDates
    <2> HIDE DEF step
    <2> QED BY <1>1, <1>3, <2>1
<1>6. CASE c.frequency = "weekly"
    <2>1. RawDates(c, k) = {ClampDay(c.month, c.day) + 7 * step}
        BY <1>6 DEF RawDates
    <2> HIDE DEF step
    <2> QED BY <1>1, <1>3, <2>1
<1>7. CASE c.frequency = "monthly"
    <2>1. \/ RawDates(c, k) = {ClampDay(c.month + step, c.day)}
          \/ RawDates(c, k) = UNION {PatternDates(c.patterns[i], c.month + step) :
                                      i \in DOMAIN c.patterns}
        BY <1>7 DEF RawDates
    <2> HIDE DEF step
    <2> QED BY <1>3, <1>4, <1>7, <2>1
<1>8. CASE c.frequency = "yearly"
    <2>1. RawDates(c, k) = {ClampDay(c.month + 12 * step, c.day)}
        BY <1>8 DEF RawDates
    <2> HIDE DEF step
    <2> QED BY <1>3, <2>1
<1> QED BY <1>2, <1>5, <1>6, <1>7, <1>8

\* A weekend moves a date by less than the margin.
LEMMA AdjustMovesLittle ==
    ASSUME NEW c, NEW date \in Int
    PROVE  Adjust(c, date) \in Int /\ date < Adjust(c, date) + Margin
BY DEF Adjust, Margin

\* The dates and the paydays of a schedule, wherever one stops to look.
AllDates(c) == UNION {RawDates(c, k) : k \in 0 .. MaxPeriods}
Paydays(c) == {Adjust(c, d) : d \in BeforeEnd(c, AllDates(c))}

LEMMA AllDatesType ==
    ASSUME NEW c, IsTiming(c), Recurring(c)
    PROVE  AllDates(c) \subseteq Int
BY RawDatesType DEF AllDates

\* The end of a schedule looks at earlier dates only: to know fewer of the
\* later dates makes no difference to a date.
LEMMA EndLooksBack ==
    ASSUME NEW c, IsTiming(c), Recurring(c), NEW all \in SUBSET Int,
           NEW dates \in SUBSET all, NEW last \in Int,
           \A d \in all : d =< last => d \in dates,
           NEW d \in Int, d =< last
    PROVE  d \in BeforeEnd(c, dates) <=> d \in BeforeEnd(c, all)
<1>1. d \in dates <=> d \in all
    OBVIOUS
<1>2. {e \in dates : e =< d} = {e \in all : e =< d}
    <2>1. ASSUME NEW e \in all, e =< d PROVE e \in dates
        <3>1. e \in Int /\ e =< last
            BY <2>1
        <3> QED BY <3>1
    <2> QED BY <2>1
<1>3. c.endMode \in {"never", "on_date", "after_n_occurrences"}
    BY DEF IsTiming
<1>4. CASE c.endMode = "never"
    BY <1>1, <1>4 DEF BeforeEnd
<1>5. CASE c.endMode = "on_date"
    BY <1>1, <1>5 DEF BeforeEnd
<1>6. CASE c.endMode = "after_n_occurrences"
    BY <1>1, <1>2, <1>6 DEF BeforeEnd
<1> QED BY <1>3, <1>4, <1>5, <1>6

\* To expand a schedule up to a date loses no payday up to that date.
LEMMA ExpandIsRange ==
    ASSUME NEW c, IsTiming(c), Recurring(c), NEW from \in Int, NEW to \in Int
    PROVE  Expand(c, from, to) = {d \in Paydays(c) : from =< d /\ d =< to}
<1> DEFINE known == UNION {RawDates(c, k) : k \in Walked(c, to)}
<1>1. AllDates(c) \subseteq Int
    BY AllDatesType
<1>2. known \subseteq AllDates(c)
    BY DEF Walked, AllDates
<1>3. \A d \in AllDates(c) : d =< to + Margin => d \in known
    BY DEF Walked, AllDates
<1>4. to + Margin \in Int /\ Margin \in Int
    BY DEF Margin
<1>5. BeforeEnd(c, known) \subseteq known /\ BeforeEnd(c, AllDates(c)) \subseteq AllDates(c)
    <2>1. c.endMode \in {"never", "on_date", "after_n_occurrences"}
        BY DEF IsTiming
    <2> HIDE DEF known
    <2> QED BY <2>1 DEF BeforeEnd
<1>6. ASSUME NEW d \in Int, d =< to + Margin
      PROVE  d \in BeforeEnd(c, known) <=> d \in BeforeEnd(c, AllDates(c))
    <2> HIDE DEF known
    <2> QED BY <1>1, <1>2, <1>3, <1>4, <1>6, EndLooksBack
<1>7. Expand(c, from, to) =
        {d \in {Adjust(c, e) : e \in BeforeEnd(c, known)} : from =< d /\ d =< to}
    BY DEF Expand, ExpandRecurring
<1>8. ASSUME NEW e \in AllDates(c), Adjust(c, e) =< to
      PROVE  e \in BeforeEnd(c, known) <=> e \in BeforeEnd(c, AllDates(c))
    <2>1. e \in Int /\ Adjust(c, e) \in Int /\ e < Adjust(c, e) + Margin
        BY <1>1, AdjustMovesLittle
    <2>2. e =< to + Margin
        BY <1>4, <1>8, <2>1
    <2> HIDE DEF known
    <2> QED BY <1>6, <2>1, <2>2
<1> HIDE DEF known
<1> QED BY <1>2, <1>5, <1>7, <1>8 DEF Paydays

\* The dates found are in the range asked for, and finitely many.
LEMMA ExpandType ==
    ASSUME NEW t, IsTiming(t), NEW from \in Int, NEW to \in Int
    PROVE  /\ Expand(t, from, to) \subseteq from .. to
           /\ Cardinality(Expand(t, from, to)) \in Nat
<1>1. Expand(t, from, to) \subseteq from .. to
    <2>1. CASE Recurring(t)
        <3>1. Paydays(t) \subseteq Int
            <4>1. BeforeEnd(t, AllDates(t)) \subseteq AllDates(t)
                BY <2>1 DEF BeforeEnd, IsTiming
            <4> QED BY <2>1, <4>1, AllDatesType, AdjustMovesLittle DEF Paydays
        <3> QED BY <2>1, <3>1, ExpandIsRange
    <2>2. CASE ~Recurring(t)
        <3>1. ClampDay(t.month, t.day) \in Int
            BY ClampDayType DEF IsTiming
        <3> QED BY <2>2, <3>1 DEF Expand
    <2> QED BY <2>1, <2>2
<1>2. IsFiniteSet(from .. to)
    BY FS_Interval
<1> QED BY <1>1, <1>2, FS_Subset, FS_CardinalityType

\* Days before a year, and before a month within it.
DaysTo(y) == 365 * y + y \div 4 - y \div 100 + y \div 400
DaysPast(i) == (153 * i + 2) \div 5

LEMMA YearsGrow ==
    ASSUME NEW y \in Int, NEW z \in Int
    PROVE  /\ DaysTo(y) \in Int /\ DaysTo(z) \in Int
           /\ y < z => DaysTo(y) + 365 =< DaysTo(z)
<1>1. y < z => /\ y \div 4 - y \div 100 =< z \div 4 - z \div 100
               /\ y \div 400 =< z \div 400
    OBVIOUS
<1> QED BY <1>1 DEF DaysTo

LEMMA MonthsGrow ==
    ASSUME NEW i \in 0 .. 11, NEW j \in 0 .. 11
    PROVE  /\ DaysPast(i) \in 0 .. 337 /\ DaysPast(j) \in 0 .. 337
           /\ i =< j => DaysPast(i) =< DaysPast(j)
BY DEF DaysPast

\* Later months begin later.
LEMMA FirstOfMonotone ==
    ASSUME NEW m \in Int, NEW n \in Int, m =< n
    PROVE  FirstOf(m) =< FirstOf(n)
<1> DEFINE y == (m - 2) \div 12
           z == (n - 2) \div 12
           i == (m - 2) % 12
           j == (n - 2) % 12
           shift == 719468
<1>1. /\ y \in Int /\ z \in Int /\ i \in 0 .. 11 /\ j \in 0 .. 11
      /\ y < z \/ (y = z /\ i =< j)
    OBVIOUS
<1>2. shift \in Int
    BY SMT
<1>3. /\ FirstOf(m) = DaysTo(y) + DaysPast(i) - shift
      /\ FirstOf(n) = DaysTo(z) + DaysPast(j) - shift
    BY SMT DEF FirstOf, DaysTo, DaysPast
<1> HIDE DEF y, z, i, j, shift
<1>4. /\ DaysTo(y) \in Int /\ DaysTo(z) \in Int
      /\ y < z => DaysTo(y) + 365 =< DaysTo(z)
    BY <1>1, YearsGrow
<1>5. /\ DaysPast(i) \in 0 .. 337 /\ DaysPast(j) \in 0 .. 337
      /\ i =< j => DaysPast(i) =< DaysPast(j)
    BY <1>1, MonthsGrow
<1>6. \/ DaysTo(y) + 365 =< DaysTo(z)
      \/ DaysTo(y) = DaysTo(z) /\ DaysPast(i) =< DaysPast(j)
    BY <1>1, <1>4, <1>5
<1> DEFINE dy == DaysTo(y)
           dz == DaysTo(z)
           di == DaysPast(i)
           dj == DaysPast(j)
<1>7. dy + di - shift =< dz + dj - shift
    <2> HIDE DEF dy, dz, di, dj
    <2>1. dy \in Int /\ dz \in Int /\ di \in 0 .. 337 /\ dj \in 0 .. 337
        BY <1>4, <1>5 DEF dy, dz, di, dj
    <2>2. dy + 365 =< dz \/ (dy = dz /\ di =< dj)
        BY <1>6 DEF dy, dz, di, dj
    <2> QED BY <1>2, <2>1, <2>2
<1> QED BY <1>3, <1>7

\* Every day of a year is in one of its months.
LEMMA MonthOfDay ==
    ASSUME NEW january \in Int, NEW d \in Int,
           FirstOf(january) =< d, d < FirstOf(january + 12)
    PROVE  \E m \in january .. january + 11 : FirstOf(m) =< d /\ d =< LastOf(m)
<1> DEFINE first(i) == FirstOf(january + i)
<1>1. \A i \in Int : first(i) \in Int
    BY FirstOfGrows
<1> SUFFICES ASSUME \A i \in 0 .. 11 : first(i) =< d => first(i + 1) =< d
             PROVE  FALSE
    <2>1. PICK i \in 0 .. 11 : first(i) =< d /\ ~(first(i + 1) =< d)
        OBVIOUS
    <2>2. LastOf(january + i) = first(i + 1) - 1
        <3>1. (january + i) + 1 = january + (i + 1)
            OBVIOUS
        <3> QED BY <3>1 DEF LastOf
    <2>3. d =< LastOf(january + i)
        <3> HIDE DEF first
        <3> QED BY <1>1, <2>1, <2>2
    <2>4. january + i \in january .. january + 11
        OBVIOUS
    <2> QED BY <2>1, <2>3, <2>4
<1>2. first(0) =< d /\ ~(first(12) =< d)
    BY <1>1
<1> HIDE DEF first
<1> QED BY <1>2

\* The months of a year are the year.
LEMMA MonthsOfYear ==
    ASSUME NEW s, IsTiming(s.timing), Recurring(s.timing), NEW month \in Int
    PROVE  LET january == Month(YearOf(month), 1)
           IN  Year(s.timing, month) =
                 UNION {ActualMonthFragment(s, m).dates : m \in january .. january + 11}
<1> DEFINE january == Month(YearOf(month), 1)
           last == LastOf(january + 11)
           InMonth(m) == ActualMonthFragment(s, m).dates
           all == Paydays(s.timing)
<1>1. january \in Int
    BY DEF Month, YearOf
<1>2. \A m \in Int : FirstOf(m) \in Int /\ LastOf(m) \in Int
    BY FirstOfGrows DEF LastOf
<1>3. last = FirstOf(january + 12) - 1
    <2> HIDE DEF january
    <2>1. (january + 11) + 1 = january + 12
        BY <1>1
    <2> QED BY <2>1 DEF LastOf
<1>4. Year(s.timing, month) = {d \in all : FirstOf(january) =< d /\ d =< last}
    <2>1. Year(s.timing, month) = Expand(s.timing, FirstOf(january), last)
        BY DEF Year
    <2>2. FirstOf(january) \in Int /\ last \in Int
        <3> HIDE DEF january
        <3> QED BY <1>1, <1>2
    <2> HIDE DEF january, last, all
    <2> QED BY <2>1, <2>2, ExpandIsRange DEF all
<1>5. \A m \in Int : InMonth(m) = {d \in all : FirstOf(m) =< d /\ d =< LastOf(m)}
    BY <1>2, ExpandIsRange DEF ActualMonthFragment, Fragment
<1>6. all \subseteq Int
    BY AllDatesType, AdjustMovesLittle DEF Paydays, BeforeEnd, IsTiming
<1>7. \A m \in january .. january + 11 : FirstOf(january) =< FirstOf(m) /\ LastOf(m) =< last
    <2> HIDE DEF january
    <2> TAKE m \in january .. january + 11
    <2>1. m \in Int /\ january =< m /\ m + 1 =< january + 12
        BY <1>1
    <2>2. FirstOf(january) =< FirstOf(m) /\ FirstOf(m + 1) =< FirstOf(january + 12)
        BY <1>1, <2>1, FirstOfMonotone
    <2>3. FirstOf(m + 1) \in Int /\ FirstOf(january + 12) \in Int
        BY <1>1, <1>2, <2>1
    <2> HIDE DEF last
    <2> QED BY <1>3, <2>2, <2>3 DEF LastOf
<1>8. Year(s.timing, month) \subseteq UNION {InMonth(m) : m \in january .. january + 11}
    <2> SUFFICES ASSUME NEW d \in all, FirstOf(january) =< d, d =< last
                 PROVE  \E m \in january .. january + 11 : d \in InMonth(m)
        BY <1>4
    <2>1. d < FirstOf(january + 12)
        <3> HIDE DEF january, last
        <3> QED BY <1>1, <1>2, <1>3, <1>6
    <2>2. PICK m \in january .. january + 11 : FirstOf(m) =< d /\ d =< LastOf(m)
        <3> HIDE DEF january, all
        <3> QED BY <1>1, <1>6, <2>1, MonthOfDay
    <2> HIDE DEF january, all, InMonth
    <2> QED BY <1>1, <1>5, <2>2
<1>9. UNION {InMonth(m) : m \in january .. january + 11} \subseteq Year(s.timing, month)
    <2> SUFFICES ASSUME NEW m \in january .. january + 11, NEW d \in InMonth(m)
                 PROVE  FirstOf(january) =< d /\ d =< last /\ d \in all
        BY <1>4
    <2> HIDE DEF january, all, InMonth, last
    <2>1. m \in Int
        BY <1>1
    <2>2. d \in all /\ FirstOf(m) =< d /\ d =< LastOf(m)
        BY <1>5, <2>1
    <2>3. d \in Int
        BY <1>6, <2>2
    <2>4. last \in Int /\ FirstOf(january) \in Int
        BY <1>1, <1>2, <1>3
    <2> QED BY <1>2, <1>7, <2>1, <2>2, <2>3, <2>4
<1> QED BY <1>8, <1>9

----------------------------------------------------------------------------
(* The types of schedules and incomes.                                     *)

\* A schedule that is kept has an amount and dates.
IsIncomeSchedule(s) == s.amount \in Int /\ IsTiming(s.timing)

LEMMA ListType ==
    ASSUME NEW s, IsList(s)
    PROVE  IsFiniteSet(DOMAIN s)
<1>1. DOMAIN s = 1 .. Len(s) /\ Len(s) \in Nat
    BY DEF IsList
<1> QED BY <1>1, FS_Interval

LEMMA MidpointType ==
    ASSUME NEW amount \in [low : Int, high : Int]
    PROVE  Midpoint(amount) \in Int
<1> DEFINE sum == amount.low + amount.high
<1>1. sum \in Int
    OBVIOUS
<1> HIDE DEF sum
<1>2. sum \div 2 \in Int /\ -((-sum) \div 2) \in Int
    BY <1>1
<1> QED BY <1>2 DEF Midpoint, sum

LEMMA TimingType ==
    ASSUME NEW s, IsSchedule(s), s.date.month # None
    PROVE  IsIncomeSchedule(ToIncomeSchedule(s))
<1> DEFINE t == ToIncomeSchedule(s).timing
<1>1. ToIncomeSchedule(s).amount \in Int
    BY MidpointType DEF ToIncomeSchedule, IsSchedule
<1>2. CASE s.date \in OnceDates
    <2>1. t = s.date
        BY <1>2 DEF ToIncomeSchedule, OnceDates
    <2> QED BY <1>1, <1>2, <2>1
            DEF IsIncomeSchedule, IsTiming, Recurring, OnceDates, Optional
<1>3. CASE s.date \in RecurringDates
    <2> DEFINE d == s.date
               kept == {i \in DOMAIN d.patterns : InRange(d.patterns[i])}
    <2>1. t = ToRecurring(d)
        BY <1>3 DEF ToIncomeSchedule, RecurringDates, Yearly
    <2>2. /\ t.frequency = d.frequency /\ t.month = d.month /\ t.day = d.day
          /\ t.interval = Else(d.interval, 1)
          /\ t.patterns = [i \in kept |-> d.patterns[i]]
          /\ t.endMode = (IF d.end = None THEN "never" ELSE d.endMode)
          /\ t.end = d.end
        <3> HIDE DEF t
        <3> QED BY <1>3, <2>1 DEF ToRecurring, RecurringDates, RestrictValues, Restrict
    <2>3. d.patterns \in Seq(Patterns) /\ IsFiniteSet(DOMAIN d.patterns)
        <3>1. d.patterns \in Seq(Patterns)
            BY <1>3 DEF RecurringDates
        <3>2. DOMAIN d.patterns = 1 .. Len(d.patterns) /\ Len(d.patterns) \in Nat
            BY <3>1
        <3>3. IsFiniteSet(1 .. Len(d.patterns))
            <4> DEFINE n == Len(d.patterns)
            <4>1. n \in Int
                BY <3>2
            <4> HIDE DEF n
            <4>2. IsFiniteSet(1 .. n)
                BY <4>1, FS_Interval
            <4> QED BY <4>2 DEF n
        <3> QED BY <3>1, <3>2, <3>3
    <2>4. IsFiniteSet(kept)
        BY <2>3, FS_Subset
    <2>5. /\ DOMAIN t.patterns = kept
          /\ \A i \in kept : t.patterns[i] \in Patterns /\ InRange(t.patterns[i])
        <3> HIDE DEF t
        <3>1. \A i \in DOMAIN d.patterns : d.patterns[i] \in Patterns
            BY <2>3
        <3> QED BY <2>2, <3>1
    <2>6. /\ d.frequency \in DOMAIN Yearly /\ d.month \in Int /\ d.day \in Int
          /\ d.interval \in Optional(Int) /\ d.end \in Optional(Int)
          /\ d.endMode \in {"never", "on_date", "after_n_occurrences"}
        BY <1>3 DEF RecurringDates, Optional
    <2>7. IsTiming(t)
        <3> HIDE DEF t, kept
        <3> QED BY <2>2, <2>4, <2>5, <2>6 DEF IsTiming, Optional, Else
    <2> QED BY <1>1, <2>7 DEF IsIncomeSchedule
<1> QED BY <1>2, <1>3 DEF IsSchedule

LEMMA IncomeSchedulesType ==
    ASSUME NEW w \in Worlds
    PROVE  LET found == ToIncomeSchedules(w.schedules)
           IN  /\ IsFiniteSet(DOMAIN found)
               /\ \A i \in DOMAIN found : IsIncomeSchedule(found[i])
<1> DEFINE all == w.schedules
           kept == {i \in DOMAIN all : all[i].payee # None /\ all[i].date.month # None}
<1>1. IsList(all) /\ \A i \in DOMAIN all : IsSchedule(all[i])
    BY WorldsAssumption
<1>2. ToIncomeSchedules(all) = [i \in kept |-> ToIncomeSchedule(all[i])]
    BY DEF ToIncomeSchedules, RestrictValues, Restrict
<1>3. IsFiniteSet(kept)
    BY <1>1, ListType, FS_Subset
<1>4. \A i \in kept : IsIncomeSchedule(ToIncomeSchedule(all[i]))
    BY <1>1, TimingType
<1> HIDE DEF kept
<1> QED BY <1>2, <1>3, <1>4

\* Income in fragments, finitely many, of whole cents.
IsIncome(b) ==
    /\ IsFiniteSet(DOMAIN b.fragments)
    /\ \A x \in DOMAIN b.fragments :
          b.fragments[x].total \in Int /\ b.fragments[x].each \in Int

LEMMA SalaryMonthType ==
    ASSUME NEW b, IsIncome(b)
    PROVE  SalaryMonth(b) \in Int
<1> DEFINE f == [x \in DOMAIN b.fragments |-> b.fragments[x].total]
<1>1. SalaryMonth(b) = SumFunctionOnSet(f, DOMAIN f)
    BY DEF SalaryMonth, Total, SumFunction
<1>2. IsFiniteSet(DOMAIN f) /\ \A x \in DOMAIN f : f[x] \in Int
    BY DEF IsIncome
<1> HIDE DEF f
<1> QED BY <1>1, <1>2, SumType

\* Dividing rounds to an integer.
LEMMA RoundType ==
    ASSUME NEW n \in Int, NEW d \in Int, d # 0
    PROVE  Round(n, d) \in Int
<1> DEFINE size == (2 * Magnitude(n) + Magnitude(d)) \div (2 * Magnitude(d))
<1>1. Magnitude(n) \in Int /\ Magnitude(d) \in Int /\ Magnitude(d) > 0
    BY DEF Magnitude
<1>2. size \in Int
    BY <1>1
<1> HIDE DEF size
<1>3. -size \in Int
    BY <1>2
<1> QED BY <1>2, <1>3 DEF Round, size

LEMMA AnnualizedType ==
    ASSUME NEW amount \in Int, NEW c, IsTiming(c), Recurring(c)
    PROVE  Annualized(amount, c) \in Int
<1>1. Yearly[c.frequency] \in Int
    BY DEF IsTiming, Yearly
<1>2. DatesPerPeriod(c) \in Int
    <2> DEFINE n == Cardinality(DOMAIN c.patterns)
    <2>1. n \in Nat
        BY FS_CardinalityType DEF IsTiming
    <2>2. Max({n, 1}) \in {n, 1}
        <3>1. \E x \in {n, 1} : \A y \in {n, 1} : x >= y
            BY <2>1
        <3> HIDE DEF n
        <3> QED BY <3>1 DEF Max
    <2>3. DatesPerPeriod(c) \in {Max({n, 1}), 1}
        BY DEF DatesPerPeriod
    <2> HIDE DEF n
    <2> QED BY <2>1, <2>2, <2>3
<1>3. Max({c.interval, 1}) \in {c.interval, 1} /\ Max({c.interval, 1}) >= 1
    <2>1. \E x \in {c.interval, 1} : \A y \in {c.interval, 1} : x >= y
        BY DEF IsTiming
    <2> QED BY <2>1 DEF Max
<1> DEFINE interval == Max({c.interval, 1})
           n == amount * Yearly[c.frequency] * DatesPerPeriod(c)
<1>4. interval \in Int /\ interval >= 1
    BY <1>3 DEF IsTiming
<1>5. amount * Yearly[c.frequency] \in Int
    BY <1>1
<1>6. n \in Int
    BY <1>2, <1>5
<1>7. Annualized(amount, c) = Round(n, 12 * interval)
    BY DEF Annualized
<1> HIDE DEF interval, n
<1>8. 12 * interval \in Int /\ 12 * interval # 0
    BY <1>4
<1> QED BY <1>6, <1>7, <1>8, RoundType

LEMMA ScheduleFragmentType ==
    ASSUME NEW s, IsIncomeSchedule(s), NEW month \in Int, NEW mode
    PROVE  LET f == ScheduleFragment(s, month, mode)
           IN  f.total \in Int /\ f.each \in Int
<1>1. FirstOf(month) \in Int /\ LastOf(month) \in Int
    BY FirstOfGrows DEF LastOf
<1>2. ActualMonthFragment(s, month).each = s.amount /\ ActualMonthFragment(s, month).total \in Int
    <2> DEFINE n == Cardinality(Expand(s.timing, FirstOf(month), LastOf(month)))
    <2>1. n \in Nat
        BY <1>1, ExpandType DEF IsIncomeSchedule
    <2>2. ActualMonthFragment(s, month).total = s.amount * n
        BY DEF ActualMonthFragment, Fragment
    <2>3. s.amount * n \in Int
        <3> HIDE DEF n
        <3> QED BY <2>1 DEF IsIncomeSchedule
    <2> QED BY <2>2, <2>3 DEF ActualMonthFragment, Fragment
<1>3. Recurring(s.timing) =>
        /\ AnnualizedFragment(s, month).each = s.amount
        /\ AnnualizedFragment(s, month).total \in Int
    BY AnnualizedType DEF AnnualizedFragment, Fragment, IsIncomeSchedule
<1> QED BY <1>2, <1>3 DEF ScheduleFragment, IsIncomeSchedule

LEMMA PayeeFragmentsType ==
    ASSUME NEW payee, NEW list, IsFiniteSet(DOMAIN list),
           \A i \in DOMAIN list : IsIncomeSchedule(list[i]),
           NEW paid, \A p \in DOMAIN paid : paid[p] \in Int,
           NEW month \in Int, NEW mode
    PROVE  LET fragments == PayeeFragments(payee, list, paid, month, mode)
           IN  /\ IsFiniteSet(DOMAIN fragments)
               /\ \A x \in DOMAIN fragments :
                     fragments[x].total \in Int /\ fragments[x].each \in Int
<1> DEFINE fragments == PayeeFragments(payee, list, paid, month, mode)
           own == SchedulesOf(list, payee)
           each == [i \in DOMAIN own |-> ScheduleFragment(own[i], month, mode)]
           kept == {i \in DOMAIN own : each[i].dates # {}}
<1> SUFFICES /\ IsFiniteSet(DOMAIN fragments)
             /\ \A x \in DOMAIN fragments :
                  fragments[x].total \in Int /\ fragments[x].each \in Int
    OBVIOUS
<1>1. /\ DOMAIN own \subseteq DOMAIN list
      /\ \A i \in DOMAIN own : own[i] = list[i]
    BY DEF SchedulesOf, RestrictValues, Restrict
<1>2. CASE DOMAIN own # {}
    <2>1. fragments = [i \in kept |-> each[i]]
        BY <1>2 DEF PayeeFragments, RestrictValues, Restrict
    <2>2. kept \subseteq DOMAIN own /\ \A i \in kept : each[i] = ScheduleFragment(own[i], month, mode)
        OBVIOUS
    <2>3. IsFiniteSet(kept)
        <3> HIDE DEF own, kept
        <3> QED BY <1>1, <2>2, FS_Subset
    <2>4. \A i \in kept : each[i].total \in Int /\ each[i].each \in Int
        <3> HIDE DEF own, each, kept
        <3> QED BY <1>1, <2>2, ScheduleFragmentType
    <2> HIDE DEF fragments, kept, each
    <2> QED BY <2>1, <2>3, <2>4
<1>3. CASE DOMAIN own = {} /\ payee \notin DOMAIN paid
    <2>1. fragments = <<>>
        BY <1>3 DEF PayeeFragments
    <2>2. DOMAIN fragments = {}
        <3> HIDE DEF fragments
        <3> QED BY <2>1
    <2> QED BY <2>2, FS_EmptySet
<1>4. CASE DOMAIN own = {} /\ payee \in DOMAIN paid
    <2> DEFINE f == [payee |-> payee, dates |-> {}, each |-> paid[payee],
                     total |-> paid[payee], source |-> "history"]
    <2>1. fragments = <<f>>
        BY <1>4 DEF PayeeFragments
    <2>2. DOMAIN fragments = {1} /\ fragments[1] = f
        <3> HIDE DEF fragments, f
        <3> QED BY <2>1
    <2>3. f.total \in Int /\ f.each \in Int
        BY <1>4
    <2>4. IsFiniteSet({1})
        BY FS_Singleton
    <2> HIDE DEF fragments, f
    <2> QED BY <2>2, <2>3, <2>4
<1> QED BY <1>2, <1>3, <1>4

\* A list of finitely many finite lists is a finite list.
LEMMA FlattenType ==
    ASSUME NEW parts, IsFiniteSet(DOMAIN parts),
           \A i \in DOMAIN parts : IsFiniteSet(DOMAIN parts[i])
    PROVE  /\ IsFiniteSet(DOMAIN Flatten(parts))
           /\ \A x \in DOMAIN Flatten(parts) :
                \E i \in DOMAIN parts : \E j \in DOMAIN parts[i] :
                    Flatten(parts)[x] = parts[i][j]
<1> DEFINE all == {{i} \X DOMAIN parts[i] : i \in DOMAIN parts}
<1>1. DOMAIN Flatten(parts) = UNION all
    BY DEF Flatten
<1>2. \A T \in all : IsFiniteSet(T)
    <2> TAKE T \in all
    <2>1. PICK i \in DOMAIN parts : T = {i} \X DOMAIN parts[i]
        OBVIOUS
    <2>2. IsFiniteSet({i})
        BY FS_Singleton
    <2>3. IsFiniteSet({i} \X DOMAIN parts[i])
        BY <2>2, FS_Product
    <2> QED BY <2>1, <2>3
<1>3. IsFiniteSet(all)
    <2> DEFINE f == [i \in DOMAIN parts |-> {i} \X DOMAIN parts[i]]
    <2>1. f \in Surjection(DOMAIN parts, all)
        BY DEF Surjection
    <2> HIDE DEF f, all
    <2> QED BY <2>1, FS_Surjection
<1>4. IsFiniteSet(UNION all)
    <2> HIDE DEF all
    <2> QED BY <1>2, <1>3, FS_UNION
<1>5. ASSUME NEW x \in UNION all
      PROVE  \E i \in DOMAIN parts : \E j \in DOMAIN parts[i] :
                 Flatten(parts)[x] = parts[i][j]
    <2>1. PICK i \in DOMAIN parts : x \in {i} \X DOMAIN parts[i]
        OBVIOUS
    <2>2. x[1] = i /\ x[2] \in DOMAIN parts[i]
        BY <2>1
    <2>3. Flatten(parts)[x] = parts[x[1]][x[2]]
        BY DEF Flatten
    <2> QED BY <2>2, <2>3
<1> QED BY <1>1, <1>4, <1>5

LEMMA IncomeType ==
    ASSUME NEW person, IsList(person.allocations),
           NEW list, IsFiniteSet(DOMAIN list),
           \A i \in DOMAIN list : IsIncomeSchedule(list[i]),
           NEW paid, \A p \in DOMAIN paid : paid[p] \in Int,
           NEW month \in Int, NEW mode
    PROVE  IsIncome(ComputeSalary(person, list, paid, month, mode))
<1> DEFINE payees == AllPayees(person)
           parts == [i \in DOMAIN payees |->
                        PayeeFragments(payees[i], list, paid, month, mode)]
<1>1. ComputeSalary(person, list, paid, month, mode).fragments = Flatten(parts)
    BY DEF ComputeSalary
<1>2. IsFiniteSet(DOMAIN payees)
    <2>1. \E S : person.salary \in S /\ person.allocations \in Seq(S)
        <3>1. person.allocations \in Seq(Range(person.allocations) \cup {person.salary})
            BY DEF IsList
        <3> QED BY <3>1
    <2>2. PICK S : person.salary \in S /\ person.allocations \in Seq(S)
        BY <2>1
    <2>3. payees \in Seq(S)
        BY <2>2 DEF AllPayees
    <2>4. DOMAIN payees = 1 .. Len(payees) /\ Len(payees) \in Nat
        <3> HIDE DEF payees
        <3> QED BY <2>3
    <2>5. IsFiniteSet(1 .. Len(payees))
        BY <2>4, FS_Interval
    <2> QED BY <2>4, <2>5
<1>3. \A i \in DOMAIN parts :
        /\ IsFiniteSet(DOMAIN parts[i])
        /\ \A x \in DOMAIN parts[i] :
             parts[i][x].total \in Int /\ parts[i][x].each \in Int
    <2> HIDE DEF payees
    <2> QED BY PayeeFragmentsType
<1>4. IsFiniteSet(DOMAIN parts)
    BY <1>2
<1> HIDE DEF parts
<1> QED BY <1>1, <1>3, <1>4, FlattenType DEF IsIncome

----------------------------------------------------------------------------
(* The inductive invariant.                                                *)

\* The persons, once they are read, are as many as those of the world; their
\* schedules are finitely many, of their types.
PersonsInv ==
    /\ DOMAIN persons \in {{}, DOMAIN world.persons}
    /\ \A i \in DOMAIN persons : IsList(persons[i].allocations)

SchedulesInv ==
    /\ IsFiniteSet(DOMAIN schedules)
    /\ \A i \in DOMAIN schedules : IsIncomeSchedule(schedules[i])

TotalsInv == \A p \in DOMAIN totals : p \in DOMAIN world.totals /\ totals[p] \in Int

BudgetersInv == \A i \in DOMAIN budgeters : IsIncome(budgeters[i])

\* As long as no request has been fatal, only refusals leave a category with
\* another amount than that of its goal.
Missed ==
    {i \in DOMAIN categories :
        LET c == world.categories[i] IN categories[i].amount # AmountOf(c, c.goal)}

MissedInv == ~poisoned => Cardinality(Missed) <= failed

\* Only a projection poisons a session that goes on.  Only a report on all
\* categories comes to success, and a close does not hide that the session was
\* poisoned.
SuccessInv ==
    /\ poisoned => stage \in {"project", "closing", "ended"}
    /\ exit = "ok" =>
         /\ stage \in {"closing", "ended"} /\ Unresolved = {}
         /\ stage = "ended" => ~poisoned

ReportInv ==
    /\ TypeOK /\ PersonsInv /\ SchedulesInv /\ TotalsInv /\ BudgetersInv
    /\ MissedInv /\ SuccessInv

LEMMA InitReportInv == Init => ReportInv
<1> SUFFICES ASSUME Init PROVE ReportInv
    OBVIOUS
<1>1. /\ DOMAIN persons = {} /\ DOMAIN schedules = {} /\ DOMAIN totals = {}
      /\ DOMAIN categories = {} /\ DOMAIN budgeters = {}
    BY DEF Init
<1>2. IsFiniteSet({}) /\ Cardinality({}) = 0
    BY FS_EmptySet
<1>3. TypeOK
    <2>1. failed \in 0 .. Cardinality(DOMAIN categories)
        <3>1. Cardinality(DOMAIN categories) = 0 /\ failed = 0
            BY <1>1, <1>2 DEF Init
        <3> QED BY <3>1
    <2>2. /\ world \in Worlds /\ stage = "open" /\ poisoned = FALSE
          /\ printed = FALSE /\ exit = "none"
        BY DEF Init
    <2> QED BY <1>1, <2>1, <2>2 DEF TypeOK
<1>4. Missed = {}
    BY <1>1 DEF Missed
<1> QED BY <1>1, <1>2, <1>3, <1>4
        DEF ReportInv, PersonsInv, SchedulesInv, TotalsInv, BudgetersInv, MissedInv,
            SuccessInv, Init

\* What depends on the world alone does not change with the rest.
LEMMA WorldStays ==
    ASSUME world' = world
    PROVE  /\ Shown' = Shown
           /\ \A c, p : AmountOf(c, p)' = AmountOf(c, p)
BY DEF Shown, Reportable, IsAddback, AmountOf

\* Categories are finitely many.
LEMMA ShownType ==
    ASSUME world \in Worlds
    PROVE  /\ IsFiniteSet(Shown)
           /\ \A i \in Shown : IsCategory(world.categories[i])
<1>1. /\ IsList(world.categories)
      /\ \A i \in DOMAIN world.categories : IsCategory(world.categories[i])
    BY WorldsAssumption
<1>2. Shown \subseteq DOMAIN world.categories
    BY DEF Shown
<1> QED BY <1>1, <1>2, ListType, FS_Subset

\* The steps between which no category is resolved.
LEMMA QuietStep ==
    ASSUME ReportInv, UNCHANGED <<world, categories, failed>>,
           stage' \in Requests \cup {"open", "closing", "ended"},
           exit' \in {"none", "ok", "error"},
           poisoned' \in BOOLEAN, printed' \in BOOLEAN, poisoned => poisoned',
           DOMAIN budgeters' \in {{}, DOMAIN world.persons},
           PersonsInv', SchedulesInv', TotalsInv', BudgetersInv', SuccessInv'
    PROVE  ReportInv'
<1>1. Shown' = Shown /\ \A c, p : AmountOf(c, p)' = AmountOf(c, p)
    BY WorldStays
<1>2. MissedInv'
    <2>1. Missed' = Missed
        BY <1>1 DEF Missed
    <2> QED BY <2>1 DEF ReportInv, MissedInv
<1>3. \A i \in DOMAIN budgeters' : SalaryMonth(budgeters'[i]) \in Int
    BY SalaryMonthType DEF BudgetersInv
<1>4. TypeOK'
    <2>1. DOMAIN totals' \subseteq DOMAIN world.totals
        BY DEF TotalsInv
    <2> QED BY <1>1, <1>3, <2>1 DEF ReportInv, TypeOK, Amount
<1> QED BY <1>2, <1>4 DEF ReportInv

\* The parts of the invariant that speak of what a step leaves alone.
LEMMA PartsStay ==
    ASSUME ReportInv, world' = world
    PROVE  /\ persons' = persons => PersonsInv'
           /\ schedules' = schedules => SchedulesInv'
           /\ totals' = totals => TotalsInv'
           /\ budgeters' = budgeters =>
                BudgetersInv' /\ DOMAIN budgeters' \in {{}, DOMAIN world.persons}
           /\ UNCHANGED <<categories, stage, exit, poisoned>> => SuccessInv'
<1>1. Shown' = Shown
    BY WorldStays
<1> QED BY <1>1
        DEF ReportInv, TypeOK, PersonsInv, SchedulesInv, TotalsInv, BudgetersInv,
            SuccessInv, Unresolved

LEMMA OpenKeepsInv == ReportInv /\ Open => ReportInv'
<1> SUFFICES ASSUME ReportInv, Open PROVE ReportInv'
    OBVIOUS
<1>1. PersonsInv' /\ SchedulesInv' /\ TotalsInv' /\ BudgetersInv'
    BY PartsStay DEF Open
<1>2. SuccessInv'
    BY DEF Open, Goto, ReportInv, SuccessInv
<1> QED BY <1>1, <1>2, QuietStep DEF Open, Goto, Requests, ReportInv, TypeOK

LEMMA GetPayeesKeepsInv == ReportInv /\ GetPayees => ReportInv'
<1> SUFFICES ASSUME ReportInv, GetPayees PROVE ReportInv'
    OBVIOUS
<1>1. SchedulesInv' /\ TotalsInv' /\ BudgetersInv'
    BY PartsStay DEF GetPayees
<1>2. SuccessInv'
    BY DEF GetPayees, Goto, Return, ReportInv, SuccessInv
<1>3. PersonsInv'
    <2>1. CASE persons' = persons
        BY <2>1, PartsStay DEF GetPayees
    <2>2. CASE persons' = [i \in DOMAIN world.persons |-> WithIds(world.persons[i])]
        <3>1. ASSUME NEW i \in DOMAIN world.persons
              PROVE  IsList(WithIds(world.persons[i]).allocations)
            <4> DEFINE names == world.persons[i].allocations
                       ids == [j \in DOMAIN names |-> PayeeId(names[j])]
            <4>1. IsList(names)
                BY WorldsAssumption DEF ReportInv, TypeOK
            <4>2. DOMAIN names = 1 .. Len(names) /\ Len(names) \in Nat
                BY <4>1 DEF IsList
            <4>3. \A j \in DOMAIN ids : ids[j] \in Range(ids)
                BY DEF Range
            <4>4. ids \in Seq(Range(ids))
                <5>1. ids = [j \in 1 .. Len(names) |-> ids[j]]
                    BY <4>2
                <5>2. \A j \in 1 .. Len(names) : ids[j] \in Range(ids)
                    BY <4>2, <4>3
                <5> HIDE DEF ids, names
                <5> QED BY <4>2, <5>1, <5>2
            <4>5. WithIds(world.persons[i]).allocations = ids
                BY DEF WithIds
            <4> QED BY <4>4, <4>5 DEF IsList
        <3>2. world' = world
            BY DEF GetPayees
        <3> QED BY <2>2, <3>1, <3>2 DEF PersonsInv
    <2> QED BY <2>1, <2>2 DEF GetPayees
<1> QED BY <1>1, <1>2, <1>3, QuietStep, PartsStay
        DEF GetPayees, Goto, Return, Requests, ReportInv, TypeOK

LEMMA GetSchedulesKeepsInv == ReportInv /\ GetSchedules => ReportInv'
<1> SUFFICES ASSUME ReportInv, GetSchedules PROVE ReportInv'
    OBVIOUS
<1>1. PersonsInv' /\ TotalsInv' /\ BudgetersInv'
    BY PartsStay DEF GetSchedules
<1>2. SuccessInv'
    BY DEF GetSchedules, Goto, ReportInv, SuccessInv
<1>3. schedules' = ToIncomeSchedules(world.schedules) /\ world \in Worlds
    BY DEF GetSchedules, ReportInv, TypeOK
<1>4. SchedulesInv'
    BY <1>3, IncomeSchedulesType DEF SchedulesInv
<1> QED BY <1>1, <1>2, <1>4, QuietStep, PartsStay
        DEF GetSchedules, Goto, Requests, ReportInv, TypeOK

LEMMA GetPayeeTotalsKeepsInv == ReportInv /\ GetPayeeTotals => ReportInv'
<1> SUFFICES ASSUME ReportInv, GetPayeeTotals PROVE ReportInv'
    OBVIOUS
<1>1. PersonsInv' /\ SchedulesInv' /\ BudgetersInv'
    BY PartsStay DEF GetPayeeTotals
<1>2. SuccessInv'
    BY DEF GetPayeeTotals, Goto, ReportInv, SuccessInv
<1>3. \A p \in DOMAIN world.totals : world.totals[p] \in Int
    BY WorldsAssumption DEF ReportInv, TypeOK
<1>4. TotalsInv'
    BY <1>3 DEF GetPayeeTotals, TotalsInv
<1> QED BY <1>1, <1>2, <1>4, QuietStep, PartsStay
        DEF GetPayeeTotals, Goto, Requests, ReportInv, TypeOK

LEMMA GetBudgetMonthKeepsInv == ReportInv /\ GetBudgetMonth => ReportInv'
<1> SUFFICES ASSUME ReportInv, GetBudgetMonth PROVE ReportInv'
    OBVIOUS
<1>1. PersonsInv' /\ SchedulesInv' /\ TotalsInv' /\ BudgetersInv'
    BY PartsStay DEF GetBudgetMonth
<1>2. SuccessInv'
    BY DEF GetBudgetMonth, Goto, ReportInv, SuccessInv
<1> QED BY <1>1, <1>2, QuietStep, PartsStay
        DEF GetBudgetMonth, Goto, Requests, ReportInv, TypeOK

LEMMA PrintReportKeepsInv == ReportInv /\ PrintReport => ReportInv'
<1> SUFFICES ASSUME ReportInv, PrintReport PROVE ReportInv'
    OBVIOUS
<1>1. PersonsInv' /\ SchedulesInv' /\ TotalsInv'
    BY PartsStay DEF PrintReport
<1>2. SuccessInv'
    <2>1. Unresolved' = Unresolved
        BY WorldStays DEF PrintReport, Unresolved
    <2> QED BY <2>1 DEF PrintReport, Return, ReportInv, SuccessInv
<1>3. BudgetersInv' /\ DOMAIN budgeters' \in {{}, DOMAIN world.persons}
    <2>1. budgeters' = [i \in DOMAIN persons |->
            ComputeSalary(persons[i], schedules, totals, world.month, world.mode)]
        BY DEF PrintReport
    <2>2. world.month \in Int
        BY WorldsAssumption DEF ReportInv, TypeOK
    <2>3. \A i \in DOMAIN persons :
            IsIncome(ComputeSalary(persons[i], schedules, totals, world.month, world.mode))
        BY <2>2, IncomeType DEF ReportInv, PersonsInv, SchedulesInv, TotalsInv
    <2> QED BY <2>1, <2>3 DEF BudgetersInv, ReportInv, PersonsInv
<1> QED BY <1>1, <1>2, <1>3, QuietStep DEF PrintReport, Return, ReportInv, TypeOK

LEMMA RequestFailsKeepsInv == ReportInv /\ RequestFails => ReportInv'
<1> SUFFICES ASSUME ReportInv, RequestFails PROVE ReportInv'
    OBVIOUS
<1>1. PersonsInv' /\ SchedulesInv' /\ TotalsInv' /\ BudgetersInv'
    BY PartsStay DEF RequestFails
<1>2. SuccessInv'
    BY DEF RequestFails, Return, SuccessInv
<1>3. ~poisoned
    BY DEF RequestFails, Requests, ReportInv, SuccessInv
<1> QED BY <1>1, <1>2, <1>3, QuietStep, PartsStay
        DEF RequestFails, Return, ReportInv, TypeOK

LEMMA CloseKeepsInv == ReportInv /\ Close => ReportInv'
<1> SUFFICES ASSUME ReportInv, Close PROVE ReportInv'
    OBVIOUS
<1>1. PersonsInv' /\ SchedulesInv' /\ TotalsInv' /\ BudgetersInv'
    BY PartsStay DEF Close
<1>2. SuccessInv'
    <2>1. Unresolved' = Unresolved
        BY WorldStays DEF Close, Unresolved
    <2> QED BY <2>1 DEF Close, ReportInv, SuccessInv
<1> QED BY <1>1, <1>2, QuietStep, PartsStay DEF Close, ReportInv, TypeOK

\* What a category comes to is an amount.
LEMMA AmountOfType ==
    ASSUME NEW c, IsCategory(c), NEW p \in Optional(Int)
    PROVE  AmountOf(c, p) \in Int
BY DEF AmountOf, IsCategory, Optional, Else

LEMMA GetProjectionKeepsInv == ReportInv /\ GetProjection => ReportInv'
<1> SUFFICES ASSUME ReportInv, GetProjection PROVE ReportInv'
    OBVIOUS
<1>1. PICK i \in NextCategory :
        \/ /\ ~poisoned /\ Resolve(i, world.categories[i].goal)
           /\ UNCHANGED <<poisoned, failed>>
        \/ ~poisoned /\ Resolve(i, None) /\ failed' = failed + 1 /\ UNCHANGED poisoned
        \/ Resolve(i, None) /\ poisoned' = TRUE /\ UNCHANGED failed
    BY DEF GetProjection
<1>2. /\ UNCHANGED <<world, stage, persons, schedules, totals, budgeters, printed, exit>>
      /\ stage = "project"
    BY DEF GetProjection
<1> DEFINE c == world.categories[i]
<1>3. /\ Shown' = Shown /\ \A d, p : AmountOf(d, p)' = AmountOf(d, p)
      /\ IsFiniteSet(Shown) /\ IsCategory(c)
      /\ i \in Shown /\ i \notin DOMAIN categories
      /\ DOMAIN categories \subseteq Shown
    BY <1>2, WorldStays, ShownType DEF NextCategory, Unresolved, ReportInv, TypeOK
<1>4. PICK p \in {c.goal, None} :
        categories' = [j \in DOMAIN categories \cup {i} |->
                         IF j = i THEN Resolved(c, p) ELSE categories[j]]
    BY <1>1 DEF Resolve
<1>5. /\ DOMAIN categories' = DOMAIN categories \cup {i}
      /\ categories'[i].amount = AmountOf(c, p)
      /\ \A j \in DOMAIN categories : categories'[j] = categories[j]
    BY <1>3, <1>4 DEF Resolved
<1>6. AmountOf(c, p) \in Int
    BY <1>3, AmountOfType DEF IsCategory, Optional
<1>7. /\ IsFiniteSet(DOMAIN categories)
      /\ Cardinality(DOMAIN categories') = Cardinality(DOMAIN categories) + 1
      /\ Cardinality(DOMAIN categories) \in Nat
    BY <1>3, <1>5, FS_Subset, FS_AddElement, FS_CardinalityType
<1>8. failed \in 0 .. Cardinality(DOMAIN categories) /\ failed' \in {failed, failed + 1}
    BY <1>1 DEF ReportInv, TypeOK
<1>9. TypeOK'
    <2>1. failed' \in 0 .. Cardinality(DOMAIN categories')
        BY <1>7, <1>8
    <2>2. \A j \in DOMAIN categories' : categories'[j].amount \in Int
        BY <1>5, <1>6 DEF ReportInv, TypeOK, Amount
    <2>3. DOMAIN categories' \subseteq Shown'
        BY <1>3, <1>5
    <2>4. poisoned' \in BOOLEAN
        BY <1>1 DEF ReportInv, TypeOK
    <2>5. /\ world' \in Worlds /\ stage' \in Requests \cup {"open", "closing", "ended"}
          /\ printed' \in BOOLEAN /\ exit' \in {"none", "ok", "error"}
          /\ DOMAIN budgeters' \in {{}, DOMAIN world'.persons}
          /\ \A j \in DOMAIN budgeters' : SalaryMonth(budgeters'[j]) \in Int
          /\ DOMAIN totals' \subseteq DOMAIN world'.totals
        BY <1>2 DEF ReportInv, TypeOK
    <2> QED BY <2>1, <2>2, <2>3, <2>4, <2>5 DEF TypeOK, Amount
<1>10. MissedInv'
    <2>1. Missed \subseteq DOMAIN categories /\ IsFiniteSet(Missed)
        BY <1>7, FS_Subset DEF Missed
    <2>2. Missed' \subseteq Missed \cup {i}
        BY <1>2, <1>3, <1>5 DEF Missed
    <2>3. CASE ~poisoned /\ failed' = failed + 1
        <3>1. /\ IsFiniteSet(Missed \cup {i})
              /\ Cardinality(Missed \cup {i}) =< Cardinality(Missed) + 1
            <4>1. i \notin Missed
                BY <1>3, <2>1
            <4>2. Cardinality(Missed) \in Nat
                BY <2>1, FS_CardinalityType
            <4>3. /\ IsFiniteSet(Missed \cup {i})
                  /\ Cardinality(Missed \cup {i}) = Cardinality(Missed) + 1
                BY <2>1, <4>1, FS_AddElement
            <4> QED BY <4>2, <4>3
        <3>2. Cardinality(Missed') =< Cardinality(Missed \cup {i})
            BY <2>2, <3>1, FS_Subset
        <3>3. /\ Cardinality(Missed') \in Nat /\ Cardinality(Missed) \in Nat
              /\ Cardinality(Missed \cup {i}) \in Nat
            BY <2>1, <2>2, <3>1, FS_Subset, FS_CardinalityType
        <3>4. Cardinality(Missed) =< failed
            BY <2>3 DEF ReportInv, MissedInv
        <3> QED BY <1>8, <2>3, <3>1, <3>2, <3>3, <3>4 DEF MissedInv
    <2>4. CASE ~poisoned /\ Resolve(i, c.goal) /\ failed' = failed
        <3>1. i \notin Missed'
            <4>1. categories'[i].amount = AmountOf(c, c.goal)
                BY <2>4 DEF Resolve, Resolved
            <4> QED BY <1>2, <1>3, <4>1 DEF Missed
        <3>2. Missed' \subseteq Missed
            BY <2>2, <3>1
        <3>3. Cardinality(Missed') =< Cardinality(Missed)
            BY <2>1, <3>2, FS_Subset
        <3>4. Cardinality(Missed') \in Nat /\ Cardinality(Missed) \in Nat
            BY <2>1, <3>2, FS_Subset, FS_CardinalityType
        <3>5. Cardinality(Missed) =< failed
            BY <2>4 DEF ReportInv, MissedInv
        <3> QED BY <1>8, <2>4, <3>3, <3>4, <3>5 DEF MissedInv
    <2>5. CASE poisoned' = TRUE
        BY <2>5 DEF MissedInv
    <2> QED BY <1>1, <2>3, <2>4, <2>5
<1>11. SuccessInv'
    BY <1>2 DEF ReportInv, SuccessInv
<1>12. PersonsInv' /\ SchedulesInv' /\ TotalsInv' /\ BudgetersInv'
    BY <1>2, PartsStay
<1> QED BY <1>9, <1>10, <1>11, <1>12 DEF ReportInv

LEMMA NextReportInv == ReportInv /\ [Next]_vars => ReportInv'
<1> SUFFICES ASSUME ReportInv, [Next]_vars PROVE ReportInv'
    OBVIOUS
<1>1. CASE UNCHANGED vars
    <2>1. UNCHANGED <<world, stage, poisoned, persons, schedules, totals, categories,
                      failed, budgeters, printed, exit>>
        BY <1>1 DEF vars
    <2> QED BY <2>1, QuietStep, PartsStay DEF ReportInv, TypeOK
<1> QED BY <1>1, OpenKeepsInv, GetPayeesKeepsInv, GetSchedulesKeepsInv,
           GetPayeeTotalsKeepsInv, GetBudgetMonthKeepsInv, GetProjectionKeepsInv,
           PrintReportKeepsInv, RequestFailsKeepsInv, CloseKeepsInv DEF Next

LEMMA ReportInvHolds == Spec => []ReportInv
BY InitReportInv, NextReportInv, PTL DEF Spec

----------------------------------------------------------------------------
(* The properties.                                                         *)

\* The report is well typed: categories are among those shown, and amounts and
\* incomes are whole cents, for any household.
THEOREM TypeCorrect == Spec => []TypeOK
<1>1. ReportInv => TypeOK
    BY DEF ReportInv
<1> QED BY <1>1, ReportInvHolds, PTL

\* When the command succeeds each category that is shown has been resolved, and
\* at most as many as were refused have another amount than that of their
\* goal or its fallback, for any categories.
THEOREM SuccessIsResolved == Spec => []SuccessMeansResolved
<1>1. ReportInv => SuccessMeansResolved
    <2> SUFFICES ASSUME ReportInv, exit = "ok", stage = "ended"
                 PROVE  /\ DOMAIN categories = Shown
                        /\ Cardinality({i \in Shown : LET c == world.categories[i] IN
                               categories[i].amount # AmountOf(c, c.goal)}) =< failed
        BY DEF SuccessMeansResolved
    <2>1. DOMAIN categories = Shown
        BY DEF ReportInv, TypeOK, SuccessInv, Unresolved
    <2>2. Cardinality(Missed) =< failed
        BY DEF ReportInv, MissedInv, SuccessInv
    <2> QED BY <2>1, <2>2 DEF Missed
<1> QED BY <1>1, ReportInvHolds, PTL

\* The months of any schedule make up its year, wherever a weekend moves a
\* payday.
THEOREM NoPaydayIsLost == Spec => []MonthsMakeTheYear
<1>1. ReportInv => MonthsMakeTheYear
    <2> SUFFICES ASSUME ReportInv, NEW i \in DOMAIN schedules,
                        Recurring(schedules[i].timing)
                 PROVE  LET s == schedules[i]
                            january == Month(YearOf(world.month), 1)
                        IN  Year(s.timing, world.month) =
                              UNION {ActualMonthFragment(s, m).dates :
                                       m \in january .. january + 11}
        BY DEF MonthsMakeTheYear
    <2>1. world.month \in Int
        BY WorldsAssumption DEF ReportInv, TypeOK
    <2>2. IsTiming(schedules[i].timing)
        BY DEF ReportInv, SchedulesInv, IsIncomeSchedule
    <2> QED BY <2>1, <2>2, MonthsOfYear
<1> QED BY <1>1, ReportInvHolds, PTL

----------------------------------------------------------------------------
(* What categories cost.                                                   *)

\* Categories with their amounts.
AreCategories(list) ==
    ArePositions(DOMAIN list) /\ \A i \in DOMAIN list : list[i].amount \in Int

Amounts(list) == [i \in DOMAIN list |-> list[i].amount]

LEMMA SpentIsSum ==
    ASSUME NEW list, AreCategories(list)
    PROVE  /\ Spent(list) = SumFunctionOnSet(Amounts(list), DOMAIN list)
           /\ Spent(list) \in Int
<1>1. Spent(list) = SumFunctionOnSet(Amounts(list), DOMAIN Amounts(list))
    BY DEF Spent, Total, SumFunction, Amounts
<1>2. DOMAIN Amounts(list) = DOMAIN list
    BY DEF Amounts
<1>3. /\ IsFiniteSet(DOMAIN list)
      /\ \A i \in DOMAIN list : Amounts(list)[i] \in Int
    BY DEF AreCategories, ArePositions, Amounts
<1> QED BY <1>1, <1>2, <1>3, SumType

\* Some of the categories.
LEMMA SpentOfSome ==
    ASSUME NEW list, AreCategories(list), NEW S, S \subseteq DOMAIN list
    PROVE  /\ AreCategories(Restrict(list, S))
           /\ DOMAIN Restrict(list, S) = S
           /\ Spent(Restrict(list, S)) = SumFunctionOnSet(Amounts(list), S)
           /\ Spent(Restrict(list, S)) \in Int
<1> DEFINE some == Restrict(list, S)
<1>1. DOMAIN some = S /\ \A i \in S : some[i] = list[i]
    BY DEF Restrict
<1>2. AreCategories(some) /\ IsFiniteSet(S)
    <2>1. IsFiniteSet(S)
        BY FS_Subset DEF AreCategories, ArePositions
    <2> HIDE DEF some
    <2> QED BY <1>1, <2>1 DEF AreCategories, ArePositions
<1> HIDE DEF some
<1>3. Spent(some) = SumFunctionOnSet(Amounts(some), S) /\ Spent(some) \in Int
    BY <1>1, <1>2, SpentIsSum
<1>4. \A i \in S : Amounts(some)[i] \in Int /\ Amounts(some)[i] = Amounts(list)[i]
    BY <1>1, <1>2 DEF Amounts, AreCategories
<1>5. SumFunctionOnSet(Amounts(some), S) = SumFunctionOnSet(Amounts(list), S)
    BY <1>2, <1>4, SumSame
<1> QED BY <1>1, <1>2, <1>3, <1>5 DEF some

\* Those of one sort and the others.
LEMMA SpentInTwo ==
    ASSUME NEW list, AreCategories(list), NEW S, S \subseteq DOMAIN list
    PROVE  Spent(list) = Spent(Restrict(list, S)) + Spent(Restrict(list, DOMAIN list \ S))
<1> DEFINE D == DOMAIN list
           T == D \ S
<1>1. S \cup T = D /\ S \cap T = {} /\ T \subseteq D
    OBVIOUS
<1>2. IsFiniteSet(S) /\ IsFiniteSet(T)
    BY FS_Subset DEF AreCategories, ArePositions
<1>3. \A i \in D : Amounts(list)[i] \in Int
    BY DEF AreCategories, Amounts
<1> HIDE DEF T
<1>4. SumFunctionOnSet(Amounts(list), S \cup T) =
        SumFunctionOnSet(Amounts(list), S) + SumFunctionOnSet(Amounts(list), T)
    BY <1>1, <1>2, <1>3, SumUnion
<1>5. /\ Spent(list) = SumFunctionOnSet(Amounts(list), D)
      /\ Spent(Restrict(list, S)) = SumFunctionOnSet(Amounts(list), S)
      /\ Spent(Restrict(list, T)) = SumFunctionOnSet(Amounts(list), T)
    BY <1>1, SpentIsSum, SpentOfSome
<1> QED BY <1>1, <1>4, <1>5 DEF T

\* What is common and what is individual are all expenses.
LEMMA TotalExpenses ==
    ASSUME NEW bs, NEW list, AreCategories(list)
    PROVE  LET total == ComputeTotal(bs, list)
           IN  /\ total.common \in Int /\ total.individual \in Int
               /\ Spent(list) = total.individual + total.common
               /\ total.leftOver = total.salary - total.common - total.individual
<1> DEFINE own == {i \in DOMAIN list : MatchesAny(list[i], bs)}
           total == ComputeTotal(bs, list)
<1>1. DOMAIN list \ own = {i \in DOMAIN list : ~MatchesAny(list[i], bs)}
    OBVIOUS
<1>2. /\ total.individual = Spent(Restrict(list, own))
      /\ total.common = Spent(Restrict(list, DOMAIN list \ own))
      /\ total.leftOver = total.salary - total.common - total.individual
    BY <1>1 DEF ComputeTotal, RestrictValues
<1>3. own \subseteq DOMAIN list /\ DOMAIN list \ own \subseteq DOMAIN list
    OBVIOUS
<1> HIDE DEF own, total
<1> QED BY <1>2, <1>3, SpentInTwo, SpentOfSome DEF total

\* What is added back to the income and the expenses are all categories.
LEMMA CategoriesInTwo ==
    ASSUME AreCategories(categories)
    PROVE  /\ AreCategories(Expenses)
           /\ AddbackTotal \in Int /\ Spent(Expenses) \in Int
           /\ Spent(categories) = AddbackTotal + Spent(Expenses)
<1> DEFINE back == {i \in DOMAIN categories : IsAddback(categories[i])}
<1>1. DOMAIN categories \ back = {i \in DOMAIN categories : ~IsAddback(categories[i])}
    OBVIOUS
<1>2. /\ AddbackTotal = Spent(Restrict(categories, back))
      /\ Expenses = Restrict(categories, DOMAIN categories \ back)
    BY <1>1 DEF AddbackTotal, Expenses, RestrictValues
<1>3. back \subseteq DOMAIN categories /\ DOMAIN categories \ back \subseteq DOMAIN categories
    OBVIOUS
<1> HIDE DEF back
<1> QED BY <1>2, <1>3, SpentInTwo, SpentOfSome

----------------------------------------------------------------------------
(* The groups of the details.                                              *)

\* The categories of a kind.
OfTop(list, i) == Restrict(list, Alike(DOMAIN list, Tops(list), i))
OfSub(list, i) == Restrict(list, Alike(DOMAIN list, Subs(list), i))

LEMMA FirstsAreOfKind ==
    ASSUME NEW list
    PROVE  /\ Firsts(Tops(list)) = FirstsOfKind(DOMAIN list, Tops(list))
           /\ Firsts(Subs(list)) = FirstsOfKind(DOMAIN list, Subs(list))
<1>1. DOMAIN Tops(list) = DOMAIN list /\ DOMAIN Subs(list) = DOMAIN list
    BY DEF Tops, Subs
<1> QED BY <1>1 DEF Firsts, FirstsOfKind

LEMMA RowsAreOfKind ==
    ASSUME NEW list, NEW i \in DOMAIN list
    PROVE  /\ OfTop(list, i) = Restrict(list, {j \in DOMAIN list : Top(list[j]) = Top(list[i])})
           /\ OfSub(list, i) = Restrict(list, {j \in DOMAIN list : Sub(list[j]) = Sub(list[i])})
<1>1. /\ Alike(DOMAIN list, Tops(list), i) = {j \in DOMAIN list : Top(list[j]) = Top(list[i])}
      /\ Alike(DOMAIN list, Subs(list), i) = {j \in DOMAIN list : Sub(list[j]) = Sub(list[i])}
    BY DEF Alike, Tops, Subs
<1> QED BY <1>1 DEF OfTop, OfSub

\* The sub-levels of a group.
SubGroupsOf(list) ==
    [i \in Firsts(Subs(list)) |-> [name |-> Sub(list[i]), rows |-> OfSub(list, i)]]

LEMMA GroupsAreOfKind ==
    ASSUME NEW list
    PROVE  Groups(list) = [i \in Firsts(Tops(list)) |->
             [name |-> Top(list[i]), subGroups |-> SubGroupsOf(OfTop(list, i))]]
<1>1. Firsts(Tops(list)) \subseteq DOMAIN list
    BY DEF Firsts, Tops
<1>2. ASSUME NEW group
      PROVE  SubGroupsOf(group) =
               [i \in Firsts(Subs(group)) |->
                  [name |-> Sub(group[i]),
                   rows |-> Restrict(group, {j \in DOMAIN group :
                                               Sub(group[j]) = Sub(group[i])})]]
    <2>1. Firsts(Subs(group)) \subseteq DOMAIN group
        BY DEF Firsts, Subs
    <2>2. \A i \in Firsts(Subs(group)) :
            OfSub(group, i) =
              Restrict(group, {j \in DOMAIN group : Sub(group[j]) = Sub(group[i])})
        BY <2>1, RowsAreOfKind
    <2> QED BY <2>2 DEF SubGroupsOf
<1>3. \A i \in Firsts(Tops(list)) :
        OfTop(list, i) = Restrict(list, {j \in DOMAIN list : Top(list[j]) = Top(list[i])})
    BY <1>1, RowsAreOfKind
<1> DEFINE sub(i) ==
             LET group == Restrict(list, {j \in DOMAIN list : Top(list[j]) = Top(list[i])})
             IN  [k \in Firsts(Subs(group)) |->
                    [name |-> Sub(group[k]),
                     rows |-> Restrict(group, {j \in DOMAIN group :
                                                 Sub(group[j]) = Sub(group[k])})]]
<1>4. Groups(list) =
        [i \in Firsts(Tops(list)) |-> [name |-> Top(list[i]), subGroups |-> sub(i)]]
    BY Zenon DEF Groups, RestrictValues
<1>5. \A i \in Firsts(Tops(list)) : sub(i) = SubGroupsOf(OfTop(list, i))
    <2> TAKE i \in Firsts(Tops(list))
    <2> DEFINE group == Restrict(list, {j \in DOMAIN list : Top(list[j]) = Top(list[i])})
    <2>1. OfTop(list, i) = group
        BY <1>3
    <2>2. SubGroupsOf(group) = sub(i)
        BY <1>2
    <2> HIDE DEF group, sub
    <2> QED BY <2>1, <2>2
<1> HIDE DEF sub
<1> QED BY <1>4, <1>5

LEMMA PartsOfKind ==
    ASSUME NEW list, AreCategories(list), NEW kind, NEW i \in DOMAIN list
    PROVE  LET some == Restrict(list, Alike(DOMAIN list, kind, i))
           IN  /\ AreCategories(some) /\ Spent(some) \in Int
               /\ Spent(some) = SumFunctionOnSet(Amounts(list), Alike(DOMAIN list, kind, i))
<1>1. Alike(DOMAIN list, kind, i) \subseteq DOMAIN list
    BY DEF Alike
<1> QED BY <1>1, SpentOfSome

\* Kind by kind, all that is spent.
LEMMA SpentByKind ==
    ASSUME NEW list, AreCategories(list), NEW kind, NEW g,
           NEW firsts, firsts = FirstsOfKind(DOMAIN list, kind),
           \A i \in firsts : g[i] = Spent(Restrict(list, Alike(DOMAIN list, kind, i)))
    PROVE  SumFunctionOnSet(g, firsts) = Spent(list)
<1>1. /\ ArePositions(DOMAIN list)
      /\ \A i \in DOMAIN list : Amounts(list)[i] \in Int
    BY DEF AreCategories, Amounts
<1>2. firsts \subseteq DOMAIN list
    BY DEF FirstsOfKind
<1>3. \A i \in firsts :
        g[i] = SumFunctionOnSet(Amounts(list), Alike(DOMAIN list, kind, i))
    BY <1>2, PartsOfKind
<1>4. SumFunctionOnSet(g, firsts) = SumFunctionOnSet(Amounts(list), DOMAIN list)
    BY <1>1, <1>3, SumByKind
<1> QED BY <1>4, SpentIsSum

\* Each category of a group is in one row.
LEMMA SubGroupsAddUp ==
    ASSUME NEW list, AreCategories(list)
    PROVE  Total(SubGroupsOf(list), LAMBDA s : Spent(s.rows)) = Spent(list)
<1> DEFINE firsts == Firsts(Subs(list))
           g == [i \in firsts |-> Spent(OfSub(list, i))]
<1>1. Total(SubGroupsOf(list), LAMBDA s : Spent(s.rows)) = SumFunctionOnSet(g, firsts)
    <2>1. [i \in DOMAIN SubGroupsOf(list) |-> Spent(SubGroupsOf(list)[i].rows)] = g
        BY DEF SubGroupsOf
    <2>2. Total(SubGroupsOf(list), LAMBDA s : Spent(s.rows)) =
            SumFunction([i \in DOMAIN SubGroupsOf(list) |-> Spent(SubGroupsOf(list)[i].rows)])
        BY Zenon DEF Total
    <2>3. DOMAIN g = firsts
        OBVIOUS
    <2> HIDE DEF g, firsts
    <2>4. SumFunction(g) = SumFunctionOnSet(g, firsts)
        BY <2>3 DEF SumFunction
    <2> QED BY <2>1, <2>2, <2>4
<1>2. firsts = FirstsOfKind(DOMAIN list, Subs(list))
    BY FirstsAreOfKind
<1>3. \A i \in firsts : g[i] = Spent(Restrict(list, Alike(DOMAIN list, Subs(list), i)))
    BY DEF OfSub
<1> HIDE DEF g, firsts
<1>4. SumFunctionOnSet(g, firsts) = Spent(list)
    BY <1>2, <1>3, SpentByKind
<1> QED BY <1>1, <1>4

\* The groups have all categories.
LEMMA GroupsAddUp ==
    ASSUME NEW list, AreCategories(list)
    PROVE  Total(Groups(list), LAMBDA g : Total(g.subGroups, LAMBDA s : Spent(s.rows))) =
             Spent(list)
<1> DEFINE firsts == Firsts(Tops(list))
           InGroup(i) == Total(SubGroupsOf(OfTop(list, i)), LAMBDA s : Spent(s.rows))
           g == [i \in firsts |-> InGroup(i)]
<1>1. Total(Groups(list), LAMBDA h : Total(h.subGroups, LAMBDA s : Spent(s.rows))) =
        SumFunctionOnSet(g, firsts)
    <2> DEFINE all == [i \in firsts |-> [name |-> Top(list[i]),
                                        subGroups |-> SubGroupsOf(OfTop(list, i))]]
               h == [i \in DOMAIN all |-> Total(all[i].subGroups, LAMBDA s : Spent(s.rows))]
    <2>1. Total(all, LAMBDA x : Total(x.subGroups, LAMBDA s : Spent(s.rows))) = SumFunction(h)
        BY Zenon DEF Total
    <2>2. DOMAIN all = firsts /\ \A i \in firsts : all[i].subGroups = SubGroupsOf(OfTop(list, i))
        OBVIOUS
    <2>3. h = g
        <3>1. \A i \in firsts : Total(all[i].subGroups, LAMBDA s : Spent(s.rows)) = InGroup(i)
            <4> TAKE i \in firsts
            <4>1. all[i].subGroups = SubGroupsOf(OfTop(list, i))
                BY <2>2
            <4> HIDE DEF all
            <4> QED BY <4>1, Zenon
        <3> HIDE DEF all, InGroup, firsts
        <3> QED BY <2>2, <3>1
    <2>4. Groups(list) = all
        BY GroupsAreOfKind
    <2>5. SumFunction(g) = SumFunctionOnSet(g, firsts)
        <3>1. DOMAIN g = firsts
            OBVIOUS
        <3> HIDE DEF g, firsts
        <3> QED BY <3>1 DEF SumFunction
    <2> HIDE DEF all, g, h, firsts
    <2>6. Total(Groups(list), LAMBDA x : Total(x.subGroups, LAMBDA s : Spent(s.rows))) =
          Total(all, LAMBDA x : Total(x.subGroups, LAMBDA s : Spent(s.rows)))
        BY <2>4
    <2> QED BY <2>1, <2>3, <2>5, <2>6
<1>2. firsts = FirstsOfKind(DOMAIN list, Tops(list)) /\ firsts \subseteq DOMAIN list
    BY FirstsAreOfKind DEF Firsts, Tops
<1>3. \A i \in firsts : g[i] = Spent(Restrict(list, Alike(DOMAIN list, Tops(list), i)))
    <2> TAKE i \in firsts
    <2>1. AreCategories(OfTop(list, i))
        <3> HIDE DEF firsts
        <3> QED BY <1>2, PartsOfKind DEF OfTop
    <2>2. InGroup(i) = Spent(OfTop(list, i))
        BY <2>1, SubGroupsAddUp
    <2>3. g[i] = InGroup(i)
        OBVIOUS
    <2> HIDE DEF g, InGroup, firsts
    <2> QED BY <2>2, <2>3 DEF OfTop
<1> HIDE DEF g, firsts
<1>4. SumFunctionOnSet(g, firsts) = Spent(list)
    BY <1>2, <1>3, SpentByKind
<1> QED BY <1>1, <1>4

----------------------------------------------------------------------------
(* The two reports.                                                        *)

\* The invariant makes the categories a list with amounts.
LEMMA CategoriesOfReport == ReportInv => AreCategories(categories)
<1> SUFFICES ASSUME ReportInv PROVE AreCategories(categories)
    OBVIOUS
<1>1. DOMAIN world.categories \subseteq Nat
    <2>1. IsList(world.categories)
        BY WorldsAssumption DEF ReportInv, TypeOK
    <2>2. DOMAIN world.categories = 1 .. Len(world.categories)
        BY <2>1 DEF IsList
    <2> QED BY <2>2
<1>2. DOMAIN categories \subseteq Shown /\ Shown \subseteq DOMAIN world.categories
    BY DEF ReportInv, TypeOK, Shown
<1>3. IsFiniteSet(Shown)
    BY ShownType DEF ReportInv, TypeOK
<1>4. IsFiniteSet(DOMAIN categories)
    BY <1>2, <1>3, FS_Subset
<1> QED BY <1>1, <1>2, <1>4 DEF AreCategories, ArePositions, ReportInv, TypeOK, Amount

\* Budgeters with an income, finitely many.
AreBudgeters(bs) ==
    IsFiniteSet(DOMAIN bs) /\ \A i \in DOMAIN bs : SalaryMonth(bs[i]) \in Int

Salaries(bs) == [i \in DOMAIN bs |-> SalaryMonth(bs[i])]

LEMMA BudgetersOfReport == ReportInv => AreBudgeters(budgeters)
<1> SUFFICES ASSUME ReportInv PROVE AreBudgeters(budgeters)
    OBVIOUS
<1>1. IsFiniteSet(DOMAIN world.persons)
    BY WorldsAssumption, ListType DEF ReportInv, TypeOK
<1> QED BY <1>1, FS_EmptySet DEF AreBudgeters, ReportInv, TypeOK

LEMMA IncomeIsSum ==
    ASSUME NEW bs, AreBudgeters(bs)
    PROVE  /\ Total(bs, SalaryMonth) = SumFunctionOnSet(Salaries(bs), DOMAIN bs)
           /\ Total(bs, SalaryMonth) \in Int
<1>1. Total(bs, SalaryMonth) = SumFunction(Salaries(bs))
    BY DEF Total, Salaries
<1>2. DOMAIN Salaries(bs) = DOMAIN bs
    BY DEF Salaries
<1>3. SumFunction(Salaries(bs)) = SumFunctionOnSet(Salaries(bs), DOMAIN bs)
    BY <1>2 DEF SumFunction
<1>4. \A i \in DOMAIN bs : Salaries(bs)[i] \in Int
    BY DEF AreBudgeters, Salaries
<1> QED BY <1>1, <1>3, <1>4, SumType DEF AreBudgeters

LEMMA ReportsAgreeInv == ReportInv => ReportsAgree
<1> SUFFICES ASSUME ReportInv PROVE ReportsAgree
    OBVIOUS
<1>1. AreCategories(categories) /\ AreBudgeters(budgeters)
    BY CategoriesOfReport, BudgetersOfReport
<1>2. IncomeWithAddback - Details.total = Summary.total.leftOver
    <2> DEFINE total == ComputeTotal(budgeters, Expenses)
    <2>1. /\ total.common \in Int /\ total.individual \in Int
          /\ Spent(Expenses) = total.individual + total.common
          /\ total.leftOver = total.salary - total.common - total.individual
        BY <1>1, CategoriesInTwo, TotalExpenses
    <2>2. total.salary = TotalIncome /\ TotalIncome \in Int
        BY <1>1, IncomeIsSum DEF TotalIncome, ComputeTotal
    <2>3. /\ AddbackTotal \in Int /\ Spent(Expenses) \in Int
          /\ Spent(categories) = AddbackTotal + Spent(Expenses)
        BY <1>1, CategoriesInTwo
    <2>4. Summary.total = total /\ Details.total = Spent(categories)
        BY DEF Summary, BuildSummary, Details, BuildDetails
    <2> HIDE DEF total
    <2>5. (TotalIncome + AddbackTotal) - Spent(categories) = total.leftOver
        BY <2>1, <2>2, <2>3
    <2> QED BY <2>4, <2>5 DEF IncomeWithAddback
<1>3. Total(Details.groups, LAMBDA g : Total(g.subGroups, LAMBDA s : Spent(s.rows))) =
        Details.total
    <2>1. Details.groups = Groups(categories) /\ Details.total = Spent(categories)
        BY DEF Details, BuildDetails
    <2>2. Total(Groups(categories),
                LAMBDA g : Total(g.subGroups, LAMBDA s : Spent(s.rows))) = Spent(categories)
        BY <1>1, GroupsAddUp
    <2> QED BY <2>1, <2>2
<1> QED BY <1>2, <1>3 DEF ReportsAgree

\* Both commands tell one story of a month, for any categories, groups,
\* add-backs and persons.
THEOREM OneStory == Spec => []ReportsAgree
BY ReportInvHolds, ReportsAgreeInv, PTL

----------------------------------------------------------------------------
(* The shares.                                                             *)

\* Rounding is off by half of the divisor at most.
LEMMA RoundError ==
    ASSUME NEW n \in Int, NEW d \in Int, d # 0
    PROVE  LET error == 2 * (d * Round(n, d) - n)
           IN  error =< Magnitude(d) /\ -Magnitude(d) =< error
<1> DEFINE m == Magnitude(n)
           e == Magnitude(d)
           size == (2 * m + e) \div (2 * e)
           error == 2 * (d * Round(n, d) - n)
<1>1. m \in Int /\ e \in Int /\ e > 0
    BY DEF Magnitude
<1>2. /\ size \in Int
      /\ size * (2 * e) =< 2 * m + e
      /\ 2 * m + e < size * (2 * e) + 2 * e
    <2> DEFINE p == 2 * m + e
               q == 2 * e
    <2>1. p \in Int /\ q \in Int /\ q > 0
        <3> HIDE DEF m, e
        <3> QED BY <1>1
    <2> HIDE DEF p, q
    <2>2. /\ p \div q \in Int
          /\ (p \div q) * q =< p /\ p < (p \div q) * q + q
        BY <2>1
    <2> QED BY <2>2 DEF p, q
<1>3. Round(n, d) = (IF (n < 0) = (d < 0) THEN size ELSE -size)
    BY DEF Round
<1>4. error = 2 * (size * e - m) \/ error = -(2 * (size * e - m))
    <2>1. (n < 0 /\ m = -n) \/ (~(n < 0) /\ m = n)
        BY DEF Magnitude
    <2>2. (d < 0 /\ e = -d) \/ (~(d < 0) /\ e = d)
        BY DEF Magnitude
    <2> HIDE DEF m, e, size
    <2>3. error = 2 * (d * (IF (n < 0) = (d < 0) THEN size ELSE -size) - n)
        BY <1>3
    <2> HIDE DEF error
    <2>4. CASE n < 0 /\ d < 0
        <3>1. n = -m /\ d = -e /\ error = 2 * (d * size - n)
            BY <1>1, <2>1, <2>2, <2>3, <2>4
        <3>2. (-e) * size = -(size * e)
            BY <1>1, <1>2
        <3> QED BY <1>1, <1>2, <3>1, <3>2
    <2>5. CASE ~(n < 0) /\ ~(d < 0)
        <3>1. n = m /\ d = e /\ error = 2 * (d * size - n)
            BY <1>1, <2>1, <2>2, <2>3, <2>5
        <3>2. e * size = size * e
            BY <1>1, <1>2
        <3> QED BY <1>1, <1>2, <3>1, <3>2
    <2>6. CASE n < 0 /\ ~(d < 0)
        <3>1. n = -m /\ d = e /\ error = 2 * (d * (-size) - n)
            BY <1>1, <2>1, <2>2, <2>3, <2>6
        <3>2. e * (-size) = -(size * e)
            BY <1>1, <1>2
        <3> QED BY <1>1, <1>2, <3>1, <3>2
    <2>7. CASE ~(n < 0) /\ d < 0
        <3>1. n = m /\ d = -e /\ error = 2 * (d * (-size) - n)
            BY <1>1, <2>1, <2>2, <2>3, <2>7
        <3>2. (-e) * (-size) = size * e
            BY <1>1, <1>2
        <3> QED BY <1>1, <1>2, <3>1, <3>2
    <2> QED BY <2>4, <2>5, <2>6, <2>7
<1>5. size * (2 * e) = 2 * (size * e) /\ size * e \in Int
    <2> HIDE DEF m, e, size
    <2> QED BY <1>1, <1>2
<1> DEFINE product == size * e
<1>6. /\ 2 * product =< 2 * m + e /\ 2 * m + e < 2 * product + 2 * e
      /\ product \in Int
      /\ error = 2 * (product - m) \/ error = -(2 * (product - m))
    BY <1>2, <1>4, <1>5
<1> HIDE DEF m, e, size, error, product
<1>7. error =< e /\ -e =< error
    BY <1>1, <1>6
<1> QED BY <1>7 DEF error, e

\* Each share is what its budgeter's part of the income pays, rounded.
LEMMA ShareError ==
    ASSUME NEW b, SalaryMonth(b) \in Int,
           NEW total, total.salary \in Int, total.salary # 0, total.common \in Int
    PROVE  LET error == 2 * (total.salary * Share(b, total) - total.common * SalaryMonth(b))
           IN  /\ Share(b, total) \in Int
               /\ error =< Magnitude(total.salary) /\ -Magnitude(total.salary) =< error
<1> DEFINE n == SalaryMonth(b) * total.common
<1>1. n \in Int /\ n = total.common * SalaryMonth(b)
    OBVIOUS
<1>2. Share(b, total) = Round(n, total.salary)
    BY DEF Share
<1> HIDE DEF n
<1> QED BY <1>1, <1>2, RoundError, RoundType

Shares(bs, total) == [i \in DOMAIN bs |-> Share(bs[i], total)]

\* The shares pay the common expenses, to half a cent for each budgeter.
LEMMA SharesPay ==
    ASSUME NEW bs, AreBudgeters(bs), NEW total,
           total.salary = SumFunctionOnSet(Salaries(bs), DOMAIN bs),
           total.salary \in Int, total.salary # 0, total.common \in Int
    PROVE  LET paid == SumFunctionOnSet(Shares(bs, total), DOMAIN bs)
           IN  /\ paid \in Int
               /\ 2 * Magnitude(total.common - paid) =< Cardinality(DOMAIN bs)
<1> DEFINE D == DOMAIN bs
           s == total.salary
           c == total.common
           e == Magnitude(s)
           paid == SumFunctionOnSet(Shares(bs, total), D)
           n == Cardinality(D)
<1>1. IsFiniteSet(D) /\ n \in Nat
    BY FS_CardinalityType DEF AreBudgeters
<1>2. e \in Nat /\ e >= 1 /\ (e = s \/ e = -s)
    BY DEF Magnitude
<1>3. \A i \in D : /\ Shares(bs, total)[i] \in Int /\ Salaries(bs)[i] \in Int
                  /\ 2 * (s * Shares(bs, total)[i] - c * Salaries(bs)[i]) =< e
                  /\ -e =< 2 * (s * Shares(bs, total)[i] - c * Salaries(bs)[i])
    <2> TAKE i \in D
    <2>1. Shares(bs, total)[i] = Share(bs[i], total) /\ Salaries(bs)[i] = SalaryMonth(bs[i])
        BY DEF Shares, Salaries
    <2>2. SalaryMonth(bs[i]) \in Int
        BY DEF AreBudgeters
    <2> QED BY <2>1, <2>2, ShareError
<1>4. paid \in Int
    BY <1>1, <1>3, SumType
<1>5. 2 * (s * paid - c * s) =< n * e /\ -(n * e) =< 2 * (s * paid - c * s)
    <2> DEFINE error == 2 * (s * paid - c * SumFunctionOnSet(Salaries(bs), D))
    <2>1. s \in Int /\ c \in Int
        OBVIOUS
    <2>2. error =< n * e /\ -(n * e) =< error
        <3> HIDE DEF D, s, c, e
        <3> QED BY <1>1, <1>2, <1>3, <2>1, SumError
    <2> QED BY <2>2
<1> DEFINE off == c - paid
<1>6. off \in Int /\ s \in Int /\ c \in Int /\ s # 0
    BY <1>4
<1>7. s * paid - c * s = -(s * off)
    <2> HIDE DEF s, c, paid
    <2> QED BY <1>4, <1>6
<1>8. 2 * (e * Magnitude(off)) =< n * e
    <2> DEFINE p == s * off
               q == e * Magnitude(off)
               most == n * e
    <2>1. q = p \/ q = -p
        <3> HIDE DEF s, off, e
        <3>1. Magnitude(off) = off \/ Magnitude(off) = -off
            BY <1>6 DEF Magnitude
        <3> QED BY <1>2, <1>6, <3>1
    <2>2. p \in Int /\ most \in Int
        <3> HIDE DEF s, off, e, n
        <3> QED BY <1>1, <1>2, <1>6
    <2>3. 2 * (-p) =< most /\ -most =< 2 * (-p)
        <3> HIDE DEF off, e, n, paid
        <3> QED BY <1>5, <1>7
    <2> HIDE DEF p, q, most
    <2>4. 2 * q =< most
        BY <2>1, <2>2, <2>3
    <2> QED BY <2>4 DEF q, most
<1>9. 2 * Magnitude(off) =< n
    <2> DEFINE m == 2 * Magnitude(off)
    <2>1. m \in Int
        <3> HIDE DEF off
        <3> QED BY <1>6 DEF Magnitude
    <2>2. e * m = 2 * (e * Magnitude(off))
        <3> HIDE DEF off, e
        <3>1. Magnitude(off) \in Int
            BY <1>6 DEF Magnitude
        <3> QED BY <1>2, <3>1
    <2> HIDE DEF m, e, n
    <2>3. e * m =< e * n
        <3>1. n * e = e * n
            BY <1>1, <1>2
        <3> QED BY <1>8, <2>2, <3>1
    <2>4. SUFFICES ASSUME m >= n + 1 PROVE FALSE
        BY <1>1, <2>1 DEF m
    <2>5. e * m >= e * (n + 1) /\ e * (n + 1) = e * n + e /\ e * n \in Int /\ e * m \in Int
        BY <1>1, <1>2, <2>1, <2>4
    <2> QED BY <1>2, <2>3, <2>5
<1> QED BY <1>4, <1>9

\* What a budgeter alone pays for.
OwnExpenses(b, total) == Spent(RestrictValues(total.categories, LAMBDA c : BelongsTo(c, b.name)))
Owns(bs, total) == [i \in DOMAIN bs |-> OwnExpenses(bs[i], total)]

LEMMA OwnExpensesType ==
    ASSUME NEW b, NEW total, AreCategories(total.categories)
    PROVE  LET own == {k \in DOMAIN total.categories : BelongsTo(total.categories[k], b.name)}
           IN  /\ OwnExpenses(b, total) = SumFunctionOnSet(Amounts(total.categories), own)
               /\ OwnExpenses(b, total) \in Int
<1> DEFINE own == {k \in DOMAIN total.categories : BelongsTo(total.categories[k], b.name)}
<1>1. OwnExpenses(b, total) = Spent(Restrict(total.categories, own))
    BY Zenon DEF OwnExpenses, RestrictValues
<1>2. own \subseteq DOMAIN total.categories
    OBVIOUS
<1> HIDE DEF own
<1>3. /\ Spent(Restrict(total.categories, own)) =
            SumFunctionOnSet(Amounts(total.categories), own)
      /\ Spent(Restrict(total.categories, own)) \in Int
    BY <1>2, SpentOfSome
<1> QED BY <1>1, <1>3 DEF own

\* The individual expenses are those of all budgeters, if none is of two.
LEMMA OwnsAddUp ==
    ASSUME NEW bs, IsFiniteSet(DOMAIN bs), NEW list, AreCategories(list),
           \A k \in DOMAIN list : \A i, j \in DOMAIN bs :
               BelongsTo(list[k], bs[i].name) /\ BelongsTo(list[k], bs[j].name) => i = j
    PROVE  LET total == ComputeTotal(bs, list)
           IN  SumFunctionOnSet(Owns(bs, total), DOMAIN bs) = total.individual
<1> DEFINE total == ComputeTotal(bs, list)
           all == {k \in DOMAIN list : MatchesAny(list[k], bs)}
           some == total.categories
           part == [i \in DOMAIN bs |-> {k \in DOMAIN some : BelongsTo(some[k], bs[i].name)}]
<1>1. some = Restrict(list, all) /\ total.individual = Spent(some)
    BY DEF ComputeTotal, RestrictValues
<1>2. all \subseteq DOMAIN list
    OBVIOUS
<1>3. DOMAIN some = all /\ \A k \in all : some[k] = list[k]
    <2> HIDE DEF some, all
    <2> QED BY <1>1 DEF Restrict
<1>4. AreCategories(some)
    <2> HIDE DEF some, all
    <2> QED BY <1>1, <1>2, SpentOfSome
<1>5. IsPartition(part, DOMAIN bs, DOMAIN some)
    <2>1. ASSUME NEW k \in DOMAIN some PROVE \E i \in DOMAIN bs : k \in part[i]
        <3>1. k \in DOMAIN list /\ MatchesAny(list[k], bs) /\ some[k] = list[k]
            BY <1>3
        <3> QED BY <3>1 DEF MatchesAny
    <2>2. ASSUME NEW i \in DOMAIN bs PROVE part[i] \subseteq DOMAIN some
        OBVIOUS
    <2>3. ASSUME NEW i \in DOMAIN bs, NEW j \in DOMAIN bs, i # j
          PROVE  part[i] \cap part[j] = {}
        <3> SUFFICES ASSUME NEW k \in part[i] \cap part[j] PROVE FALSE
            OBVIOUS
        <3>1. k \in DOMAIN list /\ some[k] = list[k]
            BY <1>3
        <3>2. BelongsTo(some[k], bs[i].name) /\ BelongsTo(some[k], bs[j].name)
            OBVIOUS
        <3> HIDE DEF some, part
        <3> QED BY <2>3, <3>1, <3>2
    <2> HIDE DEF part, some
    <2> QED BY <2>1, <2>2, <2>3 DEF IsPartition
<1>6. IsSumOfParts(Owns(bs, total), Amounts(some), part, DOMAIN bs)
    <2> SUFFICES ASSUME NEW i \in DOMAIN bs
                 PROVE  Owns(bs, total)[i] = SumFunctionOnSet(Amounts(some), part[i])
        BY DEF IsSumOfParts
    <2>1. OwnExpenses(bs[i], total) = SumFunctionOnSet(Amounts(some), part[i])
        <3>1. part[i] = {k \in DOMAIN some : BelongsTo(some[k], bs[i].name)}
            OBVIOUS
        <3> HIDE DEF part, total
        <3> QED BY <1>4, <3>1, OwnExpensesType
    <2> HIDE DEF part, total
    <2> QED BY <2>1 DEF Owns
<1>7. IsFiniteSet(DOMAIN some) /\ \A k \in DOMAIN some : Amounts(some)[k] \in Int
    <2> HIDE DEF some
    <2> QED BY <1>4 DEF AreCategories, ArePositions, Amounts
<1>8. Spent(some) = SumFunctionOnSet(Amounts(some), DOMAIN some)
    <2> HIDE DEF some
    <2> QED BY <1>4, SpentIsSum
<1> HIDE DEF part, some, total
<1>9. SumFunctionOnSet(Owns(bs, total), DOMAIN bs) =
        SumFunctionOnSet(Amounts(some), DOMAIN some)
    BY <1>5, <1>6, <1>7, SumOfParts
<1> QED BY <1>1, <1>8, <1>9 DEF total

\* What the budgeters are left over.
LeftOvers(bs, total) ==
    [i \in DOMAIN bs |-> SalaryMonth(bs[i]) - Share(bs[i], total) - OwnExpenses(bs[i], total)]

\* They add up to the income, less the shares and the individual expenses, if
\* no category is of two budgeters.
LEMMA LeftOversAddUp ==
    ASSUME NEW bs, AreBudgeters(bs), NEW list, AreCategories(list),
           \A k \in DOMAIN list : \A i, j \in DOMAIN bs :
               BelongsTo(list[k], bs[i].name) /\ BelongsTo(list[k], bs[j].name) => i = j,
           NEW total, total = ComputeTotal(bs, list),
           \A i \in DOMAIN bs : Share(bs[i], total) \in Int
    PROVE  SumFunctionOnSet(LeftOvers(bs, total), DOMAIN bs) =
             SumFunctionOnSet(Salaries(bs), DOMAIN bs)
               - SumFunctionOnSet(Shares(bs, total), DOMAIN bs) - total.individual
<1> DEFINE D == DOMAIN bs
           rests == [i \in D |-> SalaryMonth(bs[i]) - Share(bs[i], total)]
<1>1. IsFiniteSet(D)
    BY DEF AreBudgeters
<1>2. AreCategories(total.categories)
    <2> DEFINE all == {k \in DOMAIN list : MatchesAny(list[k], bs)}
    <2>1. total.categories = Restrict(list, all)
        BY DEF ComputeTotal, RestrictValues
    <2>2. all \subseteq DOMAIN list
        OBVIOUS
    <2> HIDE DEF all
    <2> QED BY <2>1, <2>2, SpentOfSome
<1>3. \A i \in D : SalaryMonth(bs[i]) \in Int /\ OwnExpenses(bs[i], total) \in Int
    BY <1>2, OwnExpensesType DEF AreBudgeters
<1>4. \A i \in D : /\ Salaries(bs)[i] \in Int /\ Shares(bs, total)[i] \in Int
                   /\ rests[i] = Salaries(bs)[i] - Shares(bs, total)[i]
    BY <1>3 DEF Salaries, Shares
<1>5. \A i \in D : /\ rests[i] \in Int /\ Owns(bs, total)[i] \in Int
                   /\ LeftOvers(bs, total)[i] = rests[i] - Owns(bs, total)[i]
    BY <1>3 DEF LeftOvers, Owns
<1> HIDE DEF rests, D
<1>6. SumFunctionOnSet(rests, D) =
        SumFunctionOnSet(Salaries(bs), D) - SumFunctionOnSet(Shares(bs, total), D)
    BY <1>1, <1>4, SumMinus
<1>7. SumFunctionOnSet(LeftOvers(bs, total), D) =
        SumFunctionOnSet(rests, D) - SumFunctionOnSet(Owns(bs, total), D)
    BY <1>1, <1>5, SumMinus
<1>8. SumFunctionOnSet(Owns(bs, total), D) = total.individual
    BY <1>1, OwnsAddUp DEF D
<1> QED BY <1>6, <1>7, <1>8 DEF D

\* Who is mentioned with another is mentioned by a category that mentions two.
LEMMA TwoMentions ==
    ASSUME NEW bs, IsFiniteSet(DOMAIN bs), NEW c,
           NEW i \in DOMAIN bs, BelongsTo(c, bs[i].name),
           NEW j \in DOMAIN bs, BelongsTo(c, bs[j].name), i # j
    PROVE  Cardinality({x \in DOMAIN bs : bs[x].name # Blank /\ bs[x].name \in c.mentions}) > 1
<1> DEFINE all == {x \in DOMAIN bs : bs[x].name # Blank /\ bs[x].name \in c.mentions}
           two == {i} \cup {j}
<1>1. two \subseteq all /\ IsFiniteSet(all)
    BY FS_Subset DEF BelongsTo
<1>2. Cardinality(two) = 2
    <2> DEFINE one == {i}
    <2>1. IsFiniteSet(one) /\ Cardinality(one) = 1 /\ j \notin one
        BY FS_Singleton
    <2> HIDE DEF one
    <2>2. Cardinality(one \cup {j}) = 1 + 1
        BY <2>1, FS_AddElement
    <2> QED BY <2>2 DEF one
<1>3. Cardinality(two) =< Cardinality(all) /\ Cardinality(all) \in Nat
    <2> HIDE DEF two, all
    <2> QED BY <1>1, FS_Subset, FS_CardinalityType
<1> HIDE DEF two, all
<1>4. Cardinality(all) > 1
    BY <1>2, <1>3
<1> QED BY <1>4 DEF all

LEMMA SharesInv == ReportInv => SharesPayTheTotal
<1> DEFINE bs == budgeters
           D == DOMAIN bs
           total == ComputeTotal(bs, Expenses)
           sharers == [i \in D |-> ComputeExpenses(bs[i], total)]
           Mentions(c) == {i \in D : bs[i].name # Blank /\ bs[i].name \in c.mentions}
           Shared == \E i \in DOMAIN categories : Cardinality(Mentions(categories[i])) > 1
           n == Cardinality(D)
           common == Total(sharers, LAMBDA b : b.common)
           leftOver == Total(sharers, LAMBDA b : b.leftOver)
<1> SUFFICES ASSUME ReportInv, total.salary # 0
             PROVE  /\ ~(2 * Magnitude(total.common - common) > n)
                    /\ Shared \/ ~(2 * Magnitude(total.leftOver - leftOver) > n)
    <2>1. Summary.budgeters = sharers /\ Summary.total = total
        BY DEF Summary, BuildSummary
    <2>2. DOMAIN sharers = D
        OBVIOUS
    <2> HIDE DEF sharers, total
    <2> QED BY <2>1, <2>2, Zenon DEF SharesPayTheTotal
<1>1. AreCategories(categories) /\ AreBudgeters(bs) /\ AreCategories(Expenses)
    BY CategoriesOfReport, BudgetersOfReport, CategoriesInTwo
<1>2. /\ total.common \in Int /\ total.individual \in Int
      /\ total.leftOver = total.salary - total.common - total.individual
    BY <1>1, TotalExpenses
<1>3. total.salary = SumFunctionOnSet(Salaries(bs), D) /\ total.salary \in Int
    BY <1>1, IncomeIsSum DEF ComputeTotal
<1> DEFINE paid == SumFunctionOnSet(Shares(bs, total), D)
<1>4. paid \in Int /\ 2 * Magnitude(total.common - paid) =< n
    <2> HIDE DEF total, bs
    <2> QED BY <1>1, <1>2, <1>3, SharesPay
<1>5. IsFiniteSet(D) /\ n \in Nat
    BY <1>1, FS_CardinalityType DEF AreBudgeters
<1>6. common = paid
    <2>1. common = SumFunction([i \in DOMAIN sharers |-> sharers[i].common])
        BY Zenon DEF Total
    <2>2. [i \in DOMAIN sharers |-> sharers[i].common] = Shares(bs, total)
        BY DEF Shares, ComputeExpenses
    <2>3. DOMAIN Shares(bs, total) = D
        BY DEF Shares
    <2> HIDE DEF sharers, total, bs, D, common
    <2> QED BY <2>1, <2>2, <2>3 DEF SumFunction
<1>7. Magnitude(total.common - paid) \in Int
    <2> HIDE DEF paid, total
    <2> QED BY <1>2, <1>4 DEF Magnitude
<1>8. ~(2 * Magnitude(total.common - common) > n)
    <2> HIDE DEF paid, total, n, common
    <2> QED BY <1>4, <1>5, <1>6, <1>7
<1>9. ASSUME ~Shared PROVE ~(2 * Magnitude(total.leftOver - leftOver) > n)
    <2>1. leftOver = SumFunctionOnSet(LeftOvers(bs, total), D)
        <3>1. leftOver = SumFunction([i \in DOMAIN sharers |-> sharers[i].leftOver])
            BY Zenon DEF Total
        <3>2. [i \in DOMAIN sharers |-> sharers[i].leftOver] = LeftOvers(bs, total)
            BY DEF LeftOvers, ComputeExpenses, OwnExpenses
        <3>3. DOMAIN LeftOvers(bs, total) = D
            BY DEF LeftOvers
        <3> HIDE DEF sharers, total, bs, D, leftOver
        <3> QED BY <3>1, <3>2, <3>3 DEF SumFunction
    <2>2. ASSUME NEW k \in DOMAIN Expenses, NEW i \in D, NEW j \in D,
                 BelongsTo(Expenses[k], bs[i].name), BelongsTo(Expenses[k], bs[j].name),
                 i # j
          PROVE  FALSE
        <3>1. k \in DOMAIN categories /\ Expenses[k] = categories[k]
            <4> DEFINE S == {x \in DOMAIN categories : ~IsAddback(categories[x])}
            <4>1. Expenses = Restrict(categories, S)
                BY DEF Expenses, RestrictValues
            <4>2. S \subseteq DOMAIN categories
                OBVIOUS
            <4> HIDE DEF S
            <4> QED BY <4>1, <4>2 DEF Restrict
        <3>2. Cardinality(Mentions(categories[k])) > 1
            BY <1>5, <2>2, <3>1, TwoMentions
        <3> QED BY <1>9, <3>1, <3>2
    <2>3. \A i \in D : Share(bs[i], total) \in Int
        <3> HIDE DEF total, bs
        <3> QED BY <1>1, <1>2, <1>3, ShareError DEF AreBudgeters
    <2>4. leftOver = total.salary - paid - total.individual
        <3> HIDE DEF leftOver, bs
        <3> QED BY <1>1, <1>3, <2>1, <2>2, <2>3, LeftOversAddUp
    <2> DEFINE off == total.common - paid
    <2>5. total.leftOver - leftOver = -off /\ off \in Int /\ Magnitude(-off) = Magnitude(off)
        <3> HIDE DEF total, paid, leftOver
        <3> QED BY <1>2, <1>3, <1>4, <2>4 DEF Magnitude
    <2>6. 2 * Magnitude(off) =< n /\ Magnitude(off) \in Int
        BY <1>4, <1>7
    <2> HIDE DEF off, total, leftOver, n
    <2> QED BY <1>5, <2>5, <2>6
<1> QED BY <1>8, <1>9

\* The shares pay for the common expenses, to half a cent for each budgeter,
\* and what is left to the budgeters is what is left in total, for any number
\* of persons and any incomes.
THEOREM SharesAreEnough == Spec => []SharesPayTheTotal
BY ReportInvHolds, SharesInv, PTL
----------------------------------------------------------------------------
(* The year's average.                                                     *)

\* Months have 28 days at least, years 365 or 366.
LEMMA MonthLength ==
    ASSUME NEW month \in Int
    PROVE  FirstOf(month) + 28 =< FirstOf(month + 1)
<1> DEFINE year == (month - 2) \div 12
           inYear == (month - 2) % 12
<1>1. /\ year \in Int /\ inYear \in 0 .. 11
      /\ month - 2 = 12 * year + inYear
    OBVIOUS
<1>2. CASE inYear < 11
    <2>1. (month + 1 - 2) \div 12 = year /\ (month + 1 - 2) % 12 = inYear + 1
        BY <1>1, <1>2
    <2> HIDE DEF year, inYear
    <2> QED BY <1>1, <1>2, <2>1 DEF FirstOf
<1>3. CASE inYear = 11
    <2>1. (month + 1 - 2) \div 12 = year + 1 /\ (month + 1 - 2) % 12 = 0
        BY <1>1, <1>3
    <2> QED BY <1>1, <1>3, <2>1 DEF FirstOf
<1> QED BY <1>1, <1>2, <1>3

LEMMA YearLength ==
    ASSUME NEW y \in Int
    PROVE  FirstOf(12 * y + 12) - FirstOf(12 * y) \in {365, 366}
<1>1. /\ (12 * y + 12 - 2) \div 12 = y /\ (12 * y + 12 - 2) % 12 = 10
      /\ (12 * y - 2) \div 12 = y - 1 /\ (12 * y - 2) % 12 = 10
    OBVIOUS
<1> DEFINE x == y - 1
           shift == 719468
<1>2. shift \in Int
    BY SMT
<1>3. /\ FirstOf(12 * y + 12) = DaysTo(y) + DaysPast(10) - shift
      /\ FirstOf(12 * y) = DaysTo(x) + DaysPast(10) - shift
    BY <1>1, SMT DEF FirstOf, DaysTo, DaysPast
<1>4. DaysTo(x) \in Int /\ DaysTo(y) \in Int /\ DaysPast(10) \in Int
    BY YearsGrow DEF DaysPast
<1>5. DaysTo(y) - DaysTo(x) \in {365, 366}
    <2>1. y \div 4 - x \div 4 = IF y % 4 = 0 THEN 1 ELSE 0
        OBVIOUS
    <2>2. y \div 100 - x \div 100 = IF y % 100 = 0 THEN 1 ELSE 0
        OBVIOUS
    <2>3. y \div 400 - x \div 400 = IF y % 400 = 0 THEN 1 ELSE 0
        OBVIOUS
    <2>4. y % 400 = 0 => y % 100 = 0
        OBVIOUS
    <2>5. y % 100 = 0 => y % 4 = 0
        OBVIOUS
    <2>6. 365 * y - 365 * x = 365
        OBVIOUS
    <2> QED BY <2>1, <2>2, <2>3, <2>4, <2>5, <2>6 DEF DaysTo
<1> HIDE DEF x, shift
<1> QED BY <1>2, <1>3, <1>4, <1>5

\* Days of a month are in it.
IsOfMonth(d, month) == d \in Int /\ FirstOf(month) =< d /\ d < FirstOf(month + 1)

LEMMA ClampDayInMonth ==
    ASSUME NEW month \in Int, NEW day \in Int
    PROVE  IsOfMonth(ClampDay(month, day), month)
<1> DEFINE days == DaysIn(month)
           least == Min({day, days})
           most == Max({1, least})
<1>1. /\ days \in Int /\ days >= 28 /\ FirstOf(month) \in Int
      /\ FirstOf(month + 1) = FirstOf(month) + days
    BY FirstOfGrows, MonthLength DEF DaysIn
<1> HIDE DEF days
<1>2. least \in {day, days} /\ least =< days
    <2>1. \E x \in {day, days} : \A y \in {day, days} : x =< y
        BY <1>1
    <2> QED BY <2>1 DEF Min
<1>3. least \in Int
    BY <1>1, <1>2
<1> HIDE DEF least
<1>4. most \in {1, least} /\ most >= 1
    <2>1. \E x \in {1, least} : \A y \in {1, least} : x >= y
        BY <1>3
    <2> QED BY <2>1 DEF Max
<1>5. most \in Int /\ 1 =< most /\ most =< days
    BY <1>1, <1>2, <1>3, <1>4
<1>6. ClampDay(month, day) = FirstOf(month) - 1 + most
    BY DEF ClampDay, days, least
<1> HIDE DEF most
<1> QED BY <1>1, <1>5, <1>6 DEF IsOfMonth

LEMMA PatternInMonth ==
    ASSUME NEW month \in Int, NEW p \in Patterns, InRange(p)
    PROVE  \A d \in PatternDates(p, month) : IsOfMonth(d, month)
<1>1. p.value \in Int /\ p.type \in {"day"} \cup DOMAIN Weekdays
    BY DEF Patterns
<1>2. CASE p.type = "day"
    BY <1>1, <1>2, ClampDayInMonth DEF PatternDates
<1>3. CASE p.type # "day"
    <2> DEFINE weekday == Weekdays[p.type]
               first == FirstOf(month)
               toFirst == (7 + weekday - Weekday(first)) % 7
    <2>1. weekday \in Int
        BY <1>1, <1>3 DEF Weekdays
    <2>2. first \in Int /\ FirstOf(month + 1) \in Int
        BY FirstOfGrows
    <2>3. p.value >= 1
        BY <1>1, <1>3 DEF InRange
    <2>4. PatternDates(p, month) =
            {d \in {first + toFirst + 7 * (p.value - 1)} : d =< LastOf(month)}
        BY <1>3 DEF PatternDates, NthWeekday
    <2>5. toFirst \in 0 .. 6
        <3> HIDE DEF weekday, first
        <3> QED BY <2>1, <2>2 DEF Weekday
    <2> HIDE DEF weekday, first, toFirst
    <2>6. ASSUME NEW d \in PatternDates(p, month)
          PROVE  d \in Int /\ first =< d /\ d < FirstOf(month + 1)
        BY <1>1, <2>2, <2>3, <2>4, <2>5 DEF LastOf
    <2> QED BY <2>6 DEF IsOfMonth, first
<1> QED BY <1>2, <1>3

\* The interval of a schedule, and how many months or days its periods last.
Interval(c) == Max({c.interval, 1})
InMonths(c) == c.frequency \in {"monthly", "yearly"}
Step(c) ==
    Interval(c) * CASE c.frequency = "daily" -> 1 [] c.frequency = "weekly" -> 7
                    [] c.frequency = "monthly" -> 1 [] c.frequency = "yearly" -> 12

LEMMA StepType ==
    ASSUME NEW c, IsTiming(c), Recurring(c)
    PROVE  /\ Interval(c) \in Nat /\ Interval(c) >= 1
           /\ Step(c) \in Nat /\ Step(c) # 0
<1>1. Interval(c) \in {c.interval, 1} /\ Interval(c) >= 1
    <2>1. \E x \in {c.interval, 1} : \A y \in {c.interval, 1} : x >= y
        BY DEF IsTiming
    <2> QED BY <2>1 DEF Max, Interval
<1>2. c.interval \in Int /\ c.frequency \in {"daily", "weekly", "monthly", "yearly"}
    BY DEF IsTiming, Yearly
<1> QED BY <1>1, <1>2 DEF Step

\* A period of days has one date, the others have theirs in one month.
LEMMA DateOfPeriod ==
    ASSUME NEW c, IsTiming(c), Recurring(c), ~InMonths(c), NEW k \in Int
    PROVE  RawDates(c, k) = {ClampDay(c.month, c.day) + Step(c) * k}
<1> DEFINE start == ClampDay(c.month, c.day)
           n == Interval(c)
<1>1. start \in Int /\ n \in Int
    <2>1. c.month \in Int /\ c.day \in Int
        BY DEF IsTiming
    <2>2. start \in Int
        BY <2>1, ClampDayType
    <2> QED BY <2>2, StepType
<1>2. c.frequency \in {"daily", "weekly"}
    BY DEF IsTiming, Yearly, InMonths
<1>3. CASE c.frequency = "daily"
    <2>1. RawDates(c, k) = {start + k * n} /\ Step(c) = n * 1
        BY <1>3 DEF RawDates, Step, Interval
    <2> HIDE DEF start, n
    <2>2. k * n = (n * 1) * k
        BY <1>1
    <2> QED BY <2>1, <2>2 DEF start
<1>4. CASE c.frequency = "weekly"
    <2>1. RawDates(c, k) = {start + 7 * (k * n)} /\ Step(c) = n * 7
        BY <1>4 DEF RawDates, Step, Interval
    <2> HIDE DEF start, n
    <2>2. 7 * (k * n) = (n * 7) * k
        BY <1>1
    <2> QED BY <2>1, <2>2 DEF start
<1> QED BY <1>2, <1>3, <1>4

LEMMA MonthOfPeriod ==
    ASSUME NEW c, IsTiming(c), Recurring(c), InMonths(c), NEW k \in Int
    PROVE  \A d \in RawDates(c, k) : IsOfMonth(d, c.month + Step(c) * k)
<1> DEFINE n == Interval(c)
<1>1. n \in Int /\ c.month \in Int /\ c.day \in Int
    BY StepType DEF IsTiming
<1>2. CASE c.frequency = "monthly"
    <2> DEFINE month == c.month + k * n
    <2>1. month = c.month + Step(c) * k /\ month \in Int
        <3>1. Step(c) = n * 1
            BY <1>2 DEF Step
        <3> HIDE DEF n
        <3>2. (n * 1) * k = k * n /\ k * n \in Int
            BY <1>1
        <3> QED BY <1>1, <3>1, <3>2
    <2>2. \/ RawDates(c, k) = {ClampDay(month, c.day)}
          \/ RawDates(c, k) = UNION {PatternDates(c.patterns[i], month) :
                                      i \in DOMAIN c.patterns}
        BY <1>2 DEF RawDates, Interval
    <2>3. \A i \in DOMAIN c.patterns : c.patterns[i] \in Patterns /\ InRange(c.patterns[i])
        BY DEF IsTiming
    <2> HIDE DEF month
    <2>4. \A d \in RawDates(c, k) : IsOfMonth(d, month)
        BY <1>1, <2>1, <2>2, <2>3, ClampDayInMonth, PatternInMonth
    <2> QED BY <2>1, <2>4
<1>3. CASE c.frequency = "yearly"
    <2> DEFINE month == c.month + 12 * (k * n)
    <2>1. month = c.month + Step(c) * k /\ month \in Int
        <3>1. Step(c) = n * 12
            BY <1>3 DEF Step
        <3> HIDE DEF n
        <3>2. (n * 12) * k = 12 * (k * n) /\ 12 * (k * n) \in Int
            BY <1>1
        <3> QED BY <1>1, <3>1, <3>2
    <2>2. RawDates(c, k) = {ClampDay(month, c.day)}
        BY <1>3 DEF RawDates, Interval
    <2> HIDE DEF month
    <2>3. \A d \in RawDates(c, k) : IsOfMonth(d, month)
        BY <1>1, <2>1, <2>2, ClampDayInMonth
    <2> QED BY <2>1, <2>3
<1> QED BY <1>2, <1>3 DEF InMonths

\* A weekend moves a date back by two days at most, or on by two, as the
\* schedule says.
Back(c) == c.skipWeekend /\ c.solve = "before"

LEMMA AdjustMoves ==
    ASSUME NEW c, NEW d \in Int
    PROVE  /\ Adjust(c, d) \in Int
           /\ Back(c) => Adjust(c, d) =< d /\ d =< Adjust(c, d) + 2
           /\ ~Back(c) => d =< Adjust(c, d) /\ Adjust(c, d) =< d + 2
           /\ ~c.skipWeekend => Adjust(c, d) = d
BY DEF Adjust, Back

\* What Steady says of the dates.
SameSize(c) == \A k \in 0 .. MaxPeriods : Cardinality(RawDates(c, k)) = DatesPerPeriod(c)
NoneMerged(c) == \A d, e \in AllDates(c) : Adjust(c, d) = Adjust(c, e) => d = e
Apart(c) ==
    \A j, k \in 0 .. MaxPeriods : j # k => RawDates(c, j) \cap RawDates(c, k) = {}

LEMMA DatesPerPeriodType ==
    ASSUME NEW c, IsTiming(c), Recurring(c)
    PROVE  DatesPerPeriod(c) \in Nat /\ DatesPerPeriod(c) >= 1
<1> DEFINE n == Cardinality(DOMAIN c.patterns)
<1>1. n \in Nat
    BY FS_CardinalityType DEF IsTiming
<1>2. DatesPerPeriod(c) \in {Max({n, 1}), 1}
    BY DEF DatesPerPeriod
<1> HIDE DEF n
<1>3. Max({n, 1}) \in {n, 1} /\ Max({n, 1}) >= 1
    <2>1. \E x \in {n, 1} : \A y \in {n, 1} : x >= y
        BY <1>1
    <2> QED BY <2>1 DEF Max
<1> QED BY <1>1, <1>2, <1>3

LEMMA RawDatesFinite ==
    ASSUME NEW c, IsTiming(c), Recurring(c), NEW k \in Int
    PROVE  IsFiniteSet(RawDates(c, k))
<1>1. CASE ~InMonths(c)
    <2>1. PICK d : RawDates(c, k) = {d}
        BY <1>1, DateOfPeriod
    <2>2. IsFiniteSet({d})
        BY FS_Singleton
    <2> QED BY <2>1, <2>2
<1>2. CASE InMonths(c)
    <2> DEFINE month == c.month + Step(c) * k
    <2>1. month \in Int
        <3>1. c.month \in Int /\ Step(c) \in Int
            BY StepType DEF IsTiming
        <3> QED BY <3>1
    <2>2. \A d \in RawDates(c, k) : IsOfMonth(d, month)
        BY <1>2, MonthOfPeriod
    <2> HIDE DEF month
    <2>3. FirstOf(month) \in Int /\ FirstOf(month + 1) \in Int
        BY <2>1, FirstOfGrows
    <2>4. RawDates(c, k) \subseteq FirstOf(month) .. FirstOf(month + 1)
        BY <2>2, <2>3 DEF IsOfMonth
    <2> QED BY <2>3, <2>4, FS_Interval, FS_Subset
<1> QED BY <1>1, <1>2

\* The dates of some periods, each with as many.
LEMMA DatesOfPeriods ==
    ASSUME NEW c, IsTiming(c), Recurring(c), SameSize(c), Apart(c),
           NEW K \in SUBSET (0 .. MaxPeriods)
    PROVE  LET dates == UNION {RawDates(c, k) : k \in K}
           IN  /\ IsFiniteSet(dates) /\ dates \subseteq AllDates(c)
               /\ Cardinality(dates) = DatesPerPeriod(c) * Cardinality(K)
<1> DEFINE dates == UNION {RawDates(c, k) : k \in K}
           part == [k \in K |-> RawDates(c, k)]
<1>1. IsFiniteSet(K) /\ K \subseteq Int
    <2>1. IsFiniteSet(0 .. MaxPeriods) /\ 0 .. MaxPeriods \subseteq Int
        BY PeriodsAssumption, FS_Interval
    <2> QED BY <2>1, FS_Subset
<1>2. IsPartition(part, K, dates)
    <2>1. \A x : x \in dates <=> \E k \in K : x \in part[k]
        OBVIOUS
    <2>2. \A j, k \in K : j # k => part[j] \cap part[k] = {}
        BY DEF Apart
    <2> HIDE DEF part, dates
    <2> QED BY <2>1, <2>2 DEF IsPartition
<1>3. \A k \in K : IsFiniteSet(part[k]) /\ Cardinality(part[k]) = DatesPerPeriod(c)
    BY <1>1, RawDatesFinite DEF SameSize
<1>4. DatesPerPeriod(c) \in Nat
    BY DatesPerPeriodType
<1>5. dates \subseteq AllDates(c)
    BY DEF AllDates
<1> DEFINE n == DatesPerPeriod(c)
<1> HIDE DEF part, dates, n
<1>6. IsFiniteSet(dates) /\ Cardinality(dates) = n * Cardinality(K)
    <2>1. AreOfSize(part, K, n)
        BY <1>3 DEF n, AreOfSize
    <2>2. IsFiniteSet(K) /\ n \in Nat
        BY <1>1, <1>4 DEF n
    <2> QED BY <1>2, <2>1, <2>2, SizeOfParts
<1> QED BY <1>5, <1>6 DEF dates, n

\* To move dates leaves no more of them, and as many if none are merged.
LEMMA AdjustCounts ==
    ASSUME NEW c, NEW dates, IsFiniteSet(dates)
    PROVE  LET moved == {Adjust(c, d) : d \in dates}
           IN  /\ IsFiniteSet(moved) /\ Cardinality(moved) =< Cardinality(dates)
               /\ Cardinality(moved) = Cardinality(dates) <=>
                    \A d, e \in dates : Adjust(c, d) = Adjust(c, e) => d = e
<1> DEFINE moved == {Adjust(c, d) : d \in dates}
           f == [d \in dates |-> Adjust(c, d)]
<1>1. f \in Surjection(dates, moved)
    BY DEF Surjection
<1>2. f \in Injection(dates, moved) <=>
        \A d, e \in dates : Adjust(c, d) = Adjust(c, e) => d = e
    BY <1>1 DEF Injection, Surjection, IsInjective
<1> HIDE DEF f, moved
<1>3. /\ IsFiniteSet(moved) /\ Cardinality(moved) =< Cardinality(dates)
      /\ Cardinality(moved) = Cardinality(dates) <=> f \in Injection(dates, moved)
    BY <1>1, FS_Surjection
<1> QED BY <1>2, <1>3 DEF moved

\* As many paydays are in a range as the periods have that are sure to be in
\* it, at least, and as those that may be in it, at most.
LEMMA PaydaysInRange ==
    ASSUME NEW c, IsTiming(c), Recurring(c), c.endMode = "never",
           SameSize(c), Apart(c), NoneMerged(c),
           NEW from \in Int, NEW to \in Int,
           NEW most \in SUBSET (0 .. MaxPeriods),
           \A k \in 0 .. MaxPeriods : \A d \in RawDates(c, k) :
               from =< Adjust(c, d) /\ Adjust(c, d) =< to => k \in most,
           NEW least \in SUBSET (0 .. MaxPeriods),
           \A k \in least : \A d \in RawDates(c, k) :
               from =< Adjust(c, d) /\ Adjust(c, d) =< to
    PROVE  LET n == Cardinality(Expand(c, from, to))
           IN  /\ n \in Nat
               /\ n =< DatesPerPeriod(c) * Cardinality(most)
               /\ DatesPerPeriod(c) * Cardinality(least) =< n
<1> DEFINE found == Expand(c, from, to)
           Of(K) == UNION {RawDates(c, k) : k \in K}
           Moved(S) == {Adjust(c, d) : d \in S}
<1>1. found = {d \in Moved(AllDates(c)) : from =< d /\ d =< to}
    <2>1. BeforeEnd(c, AllDates(c)) = AllDates(c)
        BY DEF BeforeEnd
    <2> QED BY <2>1, ExpandIsRange DEF Paydays
<1>2. found \subseteq Moved(Of(most))
    BY <1>1 DEF AllDates
<1>3. Moved(Of(least)) \subseteq found
    BY <1>1 DEF AllDates
<1>4. /\ IsFiniteSet(Of(most))
      /\ Cardinality(Of(most)) = DatesPerPeriod(c) * Cardinality(most)
    BY DatesOfPeriods
<1>5. /\ IsFiniteSet(Of(least)) /\ Of(least) \subseteq AllDates(c)
      /\ Cardinality(Of(least)) = DatesPerPeriod(c) * Cardinality(least)
    BY DatesOfPeriods
<1> HIDE DEF found, Of
<1>6. IsFiniteSet(Moved(Of(most))) /\ Cardinality(Moved(Of(most))) =< Cardinality(Of(most))
    BY <1>4, AdjustCounts
<1>7. Cardinality(Moved(Of(least))) = Cardinality(Of(least))
    <2>1. \A d, e \in Of(least) : Adjust(c, d) = Adjust(c, e) => d = e
        BY <1>5 DEF NoneMerged
    <2> QED BY <1>5, <2>1, AdjustCounts
<1> HIDE DEF Moved
<1>8. IsFiniteSet(found) /\ Cardinality(found) =< Cardinality(Moved(Of(most)))
    BY <1>2, <1>6, FS_Subset
<1>9. Cardinality(Moved(Of(least))) =< Cardinality(found)
    BY <1>3, <1>8, FS_Subset
<1>10. /\ Cardinality(found) \in Nat /\ Cardinality(Of(most)) \in Nat
       /\ Cardinality(Moved(Of(most))) \in Nat
    BY <1>4, <1>6, <1>8, FS_CardinalityType
<1>11. Cardinality(found) =< Cardinality(Of(most))
    BY <1>6, <1>8, <1>10
<1>12. /\ Cardinality(found) =< DatesPerPeriod(c) * Cardinality(most)
       /\ DatesPerPeriod(c) * Cardinality(least) =< Cardinality(found)
    BY <1>4, <1>5, <1>7, <1>9, <1>11
<1> QED BY <1>10, <1>12 DEF found

\* The periods whose place, a day or a month, is in a window.
Place(c) == IF InMonths(c) THEN c.month ELSE ClampDay(c.month, c.day)
Periods(c, low, high) ==
    {k \in 0 .. MaxPeriods : low =< Place(c) + Step(c) * k /\ Place(c) + Step(c) * k =< high}

LEMMA PlaceType ==
    ASSUME NEW c, IsTiming(c), Recurring(c)
    PROVE  Place(c) \in Int
BY ClampDayType DEF Place, IsTiming

\* What is in the wide window may be in the range, what is in the narrow one
\* is: so many paydays there are.
LEMMA PaydaysOfWindows ==
    ASSUME NEW c, IsTiming(c), Recurring(c), c.endMode = "never",
           SameSize(c), Apart(c), NoneMerged(c),
           NEW from \in Int, NEW to \in Int,
           NEW low \in Int, NEW high \in Int, low =< high,
           \A k \in 0 .. MaxPeriods : \A d \in RawDates(c, k) :
               from =< Adjust(c, d) /\ Adjust(c, d) =< to => k \in Periods(c, low, high),
           NEW first \in Int, NEW last \in Int, first =< last,
           \A k \in Periods(c, first, last) : \A d \in RawDates(c, k) :
               from =< Adjust(c, d) /\ Adjust(c, d) =< to,
           Place(c) =< first, last < Place(c) + Step(c) * MaxPeriods + Step(c)
    PROVE  LET n == Cardinality(Expand(c, from, to))
               each == DatesPerPeriod(c)
           IN  /\ n \in Nat
               /\ Step(c) * n =< each * (high - low + Step(c))
               /\ each * (last - first + 2 - Step(c)) =< Step(c) * n
<1> DEFINE n == Cardinality(Expand(c, from, to))
           each == DatesPerPeriod(c)
           p == Step(c)
           most == Periods(c, low, high)
           least == Periods(c, first, last)
           x == Cardinality(most)
           y == Cardinality(least)
           up == high - low + p
           down == last - first + 2 - p
<1>1. /\ p \in Nat /\ p # 0 /\ Place(c) \in Int /\ each \in Nat /\ MaxPeriods \in Nat
    BY StepType, PlaceType, DatesPerPeriodType, PeriodsAssumption
<1>2. most \subseteq 0 .. MaxPeriods /\ least \subseteq 0 .. MaxPeriods
    BY DEF Periods
<1>3. n \in Nat /\ n =< each * x /\ each * y =< n
    <2>1. \A k \in 0 .. MaxPeriods : \A d \in RawDates(c, k) :
              from =< Adjust(c, d) /\ Adjust(c, d) =< to => k \in most
        OBVIOUS
    <2>2. \A k \in least : \A d \in RawDates(c, k) :
              from =< Adjust(c, d) /\ Adjust(c, d) =< to
        OBVIOUS
    <2> HIDE DEF most, least
    <2> QED BY <1>2, <2>1, <2>2, PaydaysInRange
<1> DEFINE a == Place(c)
<1>p. /\ most = PointsIn(a, p, MaxPeriods, low, high)
      /\ least = PointsIn(a, p, MaxPeriods, first, last)
    BY DEF Periods, PointsIn
<1>4. IsFiniteSet(most) /\ p * x =< up
    <2> HIDE DEF p, a, most
    <2> QED BY <1>1, <1>p, PointsInWindow DEF a
<1>5. IsFiniteSet(least) /\ down =< p * y
    <2>1. a =< first /\ last < a + p * MaxPeriods + p
        OBVIOUS
    <2> HIDE DEF p, a, least
    <2> QED BY <1>1, <1>p, <2>1, PointsInWindow DEF a
<1>6. x \in Nat /\ y \in Nat /\ up \in Int /\ down \in Int
    <2>1. x \in Nat /\ y \in Nat
        BY <1>4, <1>5, FS_CardinalityType
    <2> HIDE DEF x, y, p
    <2> QED BY <1>1, <2>1
<1> HIDE DEF n, each, p, x, y, up, down
<1>7. p * n =< each * up
    <2>1. p * n =< p * (each * x) /\ p * (each * x) = each * (p * x)
        BY <1>1, <1>3, <1>6, TimesGrows
    <2>2. each * (p * x) =< each * up
        <3>1. p * x \in Int
            BY <1>1, <1>6
        <3> QED BY <1>1, <1>4, <1>6, <3>1, TimesGrows
    <2>3. p * n \in Int /\ each * (p * x) \in Int /\ each * up \in Int
        BY <1>1, <1>3, <1>6
    <2> QED BY <2>1, <2>2, <2>3
<1>8. each * down =< p * n
    <2>1. p * (each * y) =< p * n /\ p * (each * y) = each * (p * y)
        BY <1>1, <1>3, <1>6, TimesGrows
    <2>2. each * down =< each * (p * y)
        <3>1. p * y \in Int
            BY <1>1, <1>6
        <3> QED BY <1>1, <1>5, <1>6, <3>1, TimesGrows
    <2>3. p * n \in Int /\ each * (p * y) \in Int /\ each * down \in Int
        BY <1>1, <1>3, <1>6
    <2> QED BY <2>1, <2>2, <2>3
<1> QED BY <1>3, <1>7, <1>8 DEF n, each, p, up, down

\* Which days may be moved into a range, and which are sure to stay in it.
WideLow(c, from) == IF c.skipWeekend /\ ~Back(c) THEN from - 2 ELSE from
WideHigh(c, to) == IF Back(c) THEN to + 2 ELSE to
NarrowLow(c, from) == IF Back(c) THEN from + 2 ELSE from
NarrowHigh(c, to) == IF c.skipWeekend /\ ~Back(c) THEN to - 2 ELSE to

LEMMA AdjustInRange ==
    ASSUME NEW c, NEW from \in Int, NEW to \in Int, NEW d \in Int
    PROVE  /\ from =< Adjust(c, d) /\ Adjust(c, d) =< to =>
                WideLow(c, from) =< d /\ d =< WideHigh(c, to)
           /\ NarrowLow(c, from) =< d /\ d =< NarrowHigh(c, to) =>
                from =< Adjust(c, d) /\ Adjust(c, d) =< to
<1>1. c.skipWeekend \/ ~Back(c)
    BY DEF Back
<1> QED BY <1>1, AdjustMoves DEF WideLow, WideHigh, NarrowLow, NarrowHigh

\* Schedules that count days, in a year.
LEMMA PaydaysOfDays ==
    ASSUME NEW c, IsTiming(c), Recurring(c), c.endMode = "never", ~InMonths(c),
           NoneMerged(c),
           NEW from \in Int, NEW to \in Int, to - from \in {364, 365},
           Place(c) < from,
           \A d \in RawDates(c, MaxPeriods) : to < d
    PROVE  LET n == Cardinality(Expand(c, from, to))
           IN  /\ n \in Nat
               /\ Step(c) * n =< 367 + Step(c)
               /\ ~c.skipWeekend => Step(c) * n =< 365 + Step(c)
               /\ 364 - Step(c) =< Step(c) * n
<1> DEFINE low == WideLow(c, from)
           high == WideHigh(c, to)
           first == NarrowLow(c, from)
           last == NarrowHigh(c, to)
           p == Step(c)
           a == Place(c)
<1>1. p \in Nat /\ p # 0 /\ a \in Int /\ MaxPeriods \in Nat
    BY StepType, PlaceType, PeriodsAssumption
<1>2. \A k \in Int : RawDates(c, k) = {a + p * k} /\ a + p * k \in Int
    <2> TAKE k \in Int
    <2>1. RawDates(c, k) = {a + p * k}
        BY DateOfPeriod DEF Place
    <2> HIDE DEF a, p
    <2> QED BY <1>1, <2>1
<1>3. DatesPerPeriod(c) = 1
    BY DEF DatesPerPeriod, InMonths
<1>4. SameSize(c)
    <2> SUFFICES ASSUME NEW k \in 0 .. MaxPeriods PROVE Cardinality(RawDates(c, k)) = 1
        BY <1>3 DEF SameSize
    <2> DEFINE d == a + p * k
    <2>1. RawDates(c, k) = {d}
        BY <1>2
    <2> HIDE DEF d
    <2>2. Cardinality({d}) = 1
        BY FS_Singleton
    <2> QED BY <2>1, <2>2
<1>5. Apart(c)
    <2> SUFFICES ASSUME NEW j \in 0 .. MaxPeriods, NEW k \in 0 .. MaxPeriods, j # k
                 PROVE  a + p * j # a + p * k
        BY <1>2 DEF Apart
    <2> HIDE DEF a, p
    <2>1. CASE j < k
        <3>1. p * (j + 1) =< p * k /\ p * (j + 1) = p * j + p /\ p * k \in Int /\ p * j \in Int
            BY <1>1, <2>1, TimesGrows
        <3> QED BY <1>1, <3>1
    <2>2. CASE k < j
        <3>1. p * (k + 1) =< p * j /\ p * (k + 1) = p * k + p /\ p * k \in Int /\ p * j \in Int
            BY <1>1, <2>2, TimesGrows
        <3> QED BY <1>1, <3>1
    <2> QED BY <2>1, <2>2
<1>6. /\ low \in Int /\ high \in Int /\ low =< high /\ high - low =< 367
      /\ ~c.skipWeekend => high - low =< 365
      /\ first \in Int /\ last \in Int /\ first =< last /\ last - first >= 362
      /\ a =< first /\ last =< to
    BY <1>1 DEF WideLow, WideHigh, NarrowLow, NarrowHigh, Back
<1>7. \A k \in 0 .. MaxPeriods : \A d \in RawDates(c, k) :
          from =< Adjust(c, d) /\ Adjust(c, d) =< to => k \in Periods(c, low, high)
    <2> SUFFICES ASSUME NEW k \in 0 .. MaxPeriods, NEW d \in RawDates(c, k),
                        from =< Adjust(c, d), Adjust(c, d) =< to
                 PROVE  low =< a + p * k /\ a + p * k =< high
        BY DEF Periods
    <2>1. d = a + p * k /\ d \in Int
        BY <1>2
    <2> QED BY <2>1, AdjustInRange
<1>8. \A k \in Periods(c, first, last) : \A d \in RawDates(c, k) :
          from =< Adjust(c, d) /\ Adjust(c, d) =< to
    <2> SUFFICES ASSUME NEW k \in 0 .. MaxPeriods, NEW d \in RawDates(c, k),
                        first =< a + p * k, a + p * k =< last
                 PROVE  from =< Adjust(c, d) /\ Adjust(c, d) =< to
        BY DEF Periods
    <2>1. d = a + p * k /\ d \in Int
        BY <1>2
    <2> QED BY <2>1, AdjustInRange
<1>9. last < a + p * MaxPeriods + p
    <2>1. to < a + p * MaxPeriods /\ a + p * MaxPeriods \in Int
        BY <1>1, <1>2
    <2> HIDE DEF a, p, last
    <2> QED BY <1>1, <1>6, <2>1
<1> DEFINE n == Cardinality(Expand(c, from, to))
<1> HIDE DEF low, high, first, last
<1>10. /\ n \in Nat
       /\ p * n =< DatesPerPeriod(c) * (high - low + p)
       /\ DatesPerPeriod(c) * (last - first + 2 - p) =< p * n
    BY <1>4, <1>5, <1>6, <1>7, <1>8, <1>9, PaydaysOfWindows
<1> DEFINE m == p * n
<1>11. m \in Int
    <2> HIDE DEF p, n
    <2> QED BY <1>1, <1>10
<1>12. m =< high - low + p /\ last - first + 2 - p =< m
    <2> HIDE DEF m, p
    <2> QED BY <1>1, <1>3, <1>6, <1>10 DEF m
<1> HIDE DEF p, m, n
<1>13. /\ m =< 367 + p /\ 364 - p =< m
       /\ ~c.skipWeekend => m =< 365 + p
    BY <1>1, <1>6, <1>11, <1>12
<1> QED BY <1>10, <1>13 DEF m, n, p

\* A date is before the months after its own, and after those before.
LEMMA MonthIsBefore ==
    ASSUME NEW m \in Int, NEW n \in Int, NEW d, IsOfMonth(d, m)
    PROVE  /\ d \in Int /\ FirstOf(n) \in Int
           /\ d < FirstOf(n) <=> m < n
<1>1. /\ FirstOf(m) \in Int /\ FirstOf(m + 1) \in Int /\ FirstOf(n) \in Int
    BY FirstOfGrows
<1>2. m < n => FirstOf(m + 1) =< FirstOf(n)
    BY FirstOfMonotone
<1>3. n =< m => FirstOf(n) =< FirstOf(m)
    BY FirstOfMonotone
<1> QED BY <1>1, <1>2, <1>3 DEF IsOfMonth

\* Points are apart.
LEMMA PointsApart ==
    ASSUME NEW a \in Int, NEW p \in Nat, p # 0, NEW j \in Int, NEW k \in Int, j < k
    PROVE  a + p * j \in Int /\ a + p * k \in Int /\ a + p * j < a + p * k
<1>1. p * (j + 1) =< p * k /\ p * (j + 1) = p * j + p /\ p * k \in Int /\ p * j \in Int
    BY TimesGrows
<1> QED BY <1>1

\* Schedules that count months, in a year.
LEMMA PaydaysOfMonths ==
    ASSUME NEW c, IsTiming(c), Recurring(c), c.endMode = "never", InMonths(c),
           SameSize(c), NoneMerged(c),
           NEW january \in Int, c.month < january,
           \E d \in RawDates(c, MaxPeriods) : FirstOf(january + 12) =< d,
           NEW from, from = FirstOf(january),
           NEW to, to = FirstOf(january + 12) - 1
    PROVE  LET n == Cardinality(Expand(c, from, to))
               each == DatesPerPeriod(c)
           IN  /\ n \in Nat
               /\ Step(c) * n =< each * (12 + Step(c))
               /\ each * (12 - Step(c)) =< Step(c) * n
<1> DEFINE low == IF c.skipWeekend /\ ~Back(c) THEN january - 1 ELSE january
           high == low + 12
           first == IF Back(c) THEN january + 1 ELSE january
           last == first + 10
           p == Step(c)
           a == Place(c)
           Of(k) == a + p * k
<1>1. p \in Nat /\ p # 0 /\ a \in Int /\ MaxPeriods \in Nat /\ a < january
    BY StepType, PlaceType, PeriodsAssumption DEF Place
<1>2. \A k \in Int : Of(k) \in Int
    <2> HIDE DEF a, p
    <2> QED BY <1>1
<1>3. \A k \in Int : \A d \in RawDates(c, k) : IsOfMonth(d, Of(k))
    BY MonthOfPeriod DEF Place
<1>4. Apart(c)
    <2>1. ASSUME NEW j \in Int, NEW k \in Int, j < k
          PROVE  RawDates(c, j) \cap RawDates(c, k) = {}
        <3> SUFFICES ASSUME NEW d \in RawDates(c, j), d \in RawDates(c, k) PROVE FALSE
            OBVIOUS
        <3>1. IsOfMonth(d, Of(j)) /\ IsOfMonth(d, Of(k))
            BY <1>3
        <3>2. Of(j) < Of(k)
            <4> HIDE DEF a, p
            <4> QED BY <1>1, <2>1, PointsApart
        <3>3. Of(j) \in Int /\ Of(k) \in Int
            BY <1>2
        <3> DEFINE x == Of(j)
                   y == Of(k)
        <3>4. x \in Int /\ y \in Int /\ x < y /\ IsOfMonth(d, x) /\ IsOfMonth(d, y)
            BY <3>1, <3>2, <3>3
        <3> HIDE DEF x, y
        <3>5. d < FirstOf(y)
            BY <3>4, MonthIsBefore
        <3>6. (d < FirstOf(y)) <=> (y < y)
            BY <3>4, MonthIsBefore
        <3> QED BY <3>4, <3>5, <3>6
    <2> SUFFICES ASSUME NEW j \in 0 .. MaxPeriods, NEW k \in 0 .. MaxPeriods, j # k
                 PROVE  RawDates(c, j) \cap RawDates(c, k) = {}
        BY DEF Apart
    <2>2. j \in Int /\ k \in Int /\ (j < k \/ k < j)
        OBVIOUS
    <2>3. RawDates(c, j) \cap RawDates(c, k) = RawDates(c, k) \cap RawDates(c, j)
        OBVIOUS
    <2> QED BY <2>1, <2>2, <2>3
<1>5. /\ from \in Int /\ to \in Int
      /\ FirstOf(january - 1) \in Int /\ FirstOf(january - 1) + 28 =< from
      /\ FirstOf(january + 1) \in Int /\ from + 28 =< FirstOf(january + 1)
      /\ FirstOf(january + 11) \in Int /\ FirstOf(january + 11) + 28 =< to + 1
      /\ FirstOf(january + 13) \in Int /\ to + 29 =< FirstOf(january + 13)
      /\ FirstOf(january + 12) = to + 1
    <2>1. \A m \in Int : FirstOf(m) \in Int /\ FirstOf(m) + 28 =< FirstOf(m + 1)
        BY FirstOfGrows, MonthLength
    <2>2. /\ (january - 1) + 1 = january /\ (january + 11) + 1 = january + 12
          /\ (january + 12) + 1 = january + 13
          /\ january - 1 \in Int /\ january + 11 \in Int /\ january + 12 \in Int
          /\ january + 1 \in Int /\ january + 13 \in Int
        OBVIOUS
    <2>3. FirstOf(january - 1) \in Int /\ FirstOf(january - 1) + 28 =< from
        BY <2>1, <2>2
    <2>4. FirstOf(january + 1) \in Int /\ from + 28 =< FirstOf(january + 1) /\ from \in Int
        BY <2>1, <2>2
    <2>5. FirstOf(january + 12) = to + 1 /\ to \in Int
        <3> DEFINE x == FirstOf(january + 12)
        <3>1. x \in Int /\ to = x - 1
            BY <2>1, <2>2
        <3> HIDE DEF x
        <3>2. x = to + 1 /\ to \in Int
            BY <3>1
        <3> QED BY <3>2 DEF x
    <2>6. /\ FirstOf(january + 11) \in Int
          /\ FirstOf(january + 11) + 28 =< FirstOf(january + 12)
        BY <2>1, <2>2
    <2>7. /\ FirstOf(january + 13) \in Int
          /\ FirstOf(january + 12) + 28 =< FirstOf(january + 13)
        BY <2>1, <2>2
    <2>8. to + 29 =< FirstOf(january + 13)
        <3> DEFINE x == FirstOf(january + 12)
                   y == FirstOf(january + 13)
        <3>1. x = to + 1 /\ to \in Int /\ x + 28 =< y /\ y \in Int
            BY <2>5, <2>7
        <3> HIDE DEF x, y
        <3>2. to + 29 =< y
            BY <3>1
        <3> QED BY <3>2 DEF y
    <2> QED BY <2>3, <2>4, <2>5, <2>6, <2>7, <2>8
<1>6. /\ low \in Int /\ high \in Int /\ low =< high
      /\ first \in Int /\ last \in Int /\ first =< last
      /\ high - low = 12 /\ last - first = 10 /\ last =< january + 11
      /\ a =< first
    BY <1>1
<1>7. ASSUME NEW m \in Int, NEW d, IsOfMonth(d, m)
      PROVE  /\ WideLow(c, from) =< d /\ d =< WideHigh(c, to) => low =< m /\ m =< high
             /\ first =< m /\ m =< last => NarrowLow(c, from) =< d /\ d =< NarrowHigh(c, to)
    <2>1. d \in Int /\ \A n \in Int : d < FirstOf(n) <=> m < n
        BY <1>7, MonthIsBefore
    <2>2. /\ d < FirstOf(january - 1) <=> m < january - 1
          /\ d < from <=> m < january
          /\ d < FirstOf(january + 1) <=> m < january + 1
          /\ d < FirstOf(january + 11) <=> m < january + 11
          /\ d < to + 1 <=> m < january + 12
          /\ d < FirstOf(january + 13) <=> m < january + 13
        <3>1. /\ january - 1 \in Int /\ january + 1 \in Int /\ january + 11 \in Int
              /\ january + 12 \in Int /\ january + 13 \in Int
            OBVIOUS
        <3> QED BY <1>5, <2>1, <3>1
    <2>3. Back(c) => c.skipWeekend
        BY DEF Back
    <2> QED BY <1>5, <2>1, <2>2, <2>3 DEF WideLow, WideHigh, NarrowLow, NarrowHigh
<1>8. \A k \in 0 .. MaxPeriods : \A d \in RawDates(c, k) :
          from =< Adjust(c, d) /\ Adjust(c, d) =< to => k \in Periods(c, low, high)
    <2> SUFFICES ASSUME NEW k \in 0 .. MaxPeriods, NEW d \in RawDates(c, k),
                        from =< Adjust(c, d), Adjust(c, d) =< to
                 PROVE  low =< Of(k) /\ Of(k) =< high
        BY DEF Periods
    <2>1. Of(k) \in Int /\ IsOfMonth(d, Of(k))
        BY <1>2, <1>3
    <2> HIDE DEF Of, low, high
    <2>2. d \in Int
        BY <2>1 DEF IsOfMonth
    <2> QED BY <1>5, <1>7, <2>1, <2>2, AdjustInRange
<1>9. \A k \in Periods(c, first, last) : \A d \in RawDates(c, k) :
          from =< Adjust(c, d) /\ Adjust(c, d) =< to
    <2> SUFFICES ASSUME NEW k \in 0 .. MaxPeriods, NEW d \in RawDates(c, k),
                        first =< Of(k), Of(k) =< last
                 PROVE  from =< Adjust(c, d) /\ Adjust(c, d) =< to
        BY DEF Periods
    <2>1. Of(k) \in Int /\ IsOfMonth(d, Of(k))
        BY <1>2, <1>3
    <2> HIDE DEF Of, first, last
    <2>2. d \in Int
        BY <2>1 DEF IsOfMonth
    <2> QED BY <1>5, <1>7, <2>1, <2>2, AdjustInRange
<1>10. last < a + p * MaxPeriods + p
    <2> PICK d \in RawDates(c, MaxPeriods) : FirstOf(january + 12) =< d
        OBVIOUS
    <2>1. Of(MaxPeriods) \in Int /\ IsOfMonth(d, Of(MaxPeriods)) /\ january + 12 \in Int
        BY <1>1, <1>2, <1>3
    <2>2. ~(Of(MaxPeriods) < january + 12)
        <3> HIDE DEF Of
        <3>1. d \in Int /\ FirstOf(january + 12) \in Int /\
                (d < FirstOf(january + 12) <=> Of(MaxPeriods) < january + 12)
            BY <2>1, MonthIsBefore
        <3> QED BY <3>1
    <2>3. Of(MaxPeriods) = a + p * MaxPeriods
        OBVIOUS
    <2> HIDE DEF Of, a, p, last
    <2> QED BY <1>1, <1>6, <2>1, <2>2, <2>3
<1> DEFINE n == Cardinality(Expand(c, from, to))
           each == DatesPerPeriod(c)
<1> HIDE DEF low, high, first, last
<1>11. /\ n \in Nat
       /\ p * n =< each * (high - low + p)
       /\ each * (last - first + 2 - p) =< p * n
    BY <1>4, <1>5, <1>6, <1>8, <1>9, <1>10, PaydaysOfWindows
<1>12. high - low + p = 12 + p /\ last - first + 2 - p = 12 - p
    <2> HIDE DEF p
    <2> QED BY <1>1, <1>6
<1> QED BY <1>11, <1>12

\* A weekend makes two paydays of a daily schedule one.
LEMMA DailyMerges ==
    ASSUME NEW c, IsTiming(c), Recurring(c), ~InMonths(c), Step(c) = 1, c.skipWeekend,
           MaxPeriods >= 9
    PROVE  ~NoneMerged(c)
<1> DEFINE a == Place(c)
           j == 1 + ((5 - (a + 4)) % 7)
           d == a + j
<1>1. a \in Int
    BY PlaceType
<1>2. \A k \in 0 .. MaxPeriods : a + k \in AllDates(c)
    <2> SUFFICES ASSUME NEW k \in 0 .. MaxPeriods PROVE a + k \in RawDates(c, k)
        BY DEF AllDates
    <2>1. RawDates(c, k) = {a + Step(c) * k}
        BY DateOfPeriod DEF Place
    <2> HIDE DEF a
    <2>2. Step(c) * k = k
        OBVIOUS
    <2> QED BY <2>1, <2>2
<1> HIDE DEF a
<1>3. j \in 1 .. 7 /\ (a + j + 3) % 7 = 5
    BY <1>1
<1> HIDE DEF j
<1>4. /\ j - 1 \in 0 .. MaxPeriods /\ j \in 0 .. MaxPeriods /\ j + 2 \in 0 .. MaxPeriods
      /\ a + (j - 1) = d - 1 /\ a + (j + 2) = d + 2 /\ d \in Int
    BY <1>1, <1>3, PeriodsAssumption
<1>5. d - 1 \in AllDates(c) /\ d \in AllDates(c) /\ d + 2 \in AllDates(c)
    BY <1>2, <1>4
<1>6. (d + 3) % 7 = 5
    BY <1>3
<1> HIDE DEF d
<1>7. Weekday(d) = 5 /\ Weekday(d - 1) = 4 /\ Weekday(d + 2) = 0
    <2>1. (d - 1 + 3) % 7 = 4 /\ (d + 2 + 3) % 7 = 0
        BY <1>4, <1>6
    <2> QED BY <1>6, <2>1 DEF Weekday
<1>8. CASE c.solve = "before"
    <2>1. Adjust(c, d) = d - 1 /\ Adjust(c, d - 1) = d - 1
        BY <1>7, <1>8 DEF Adjust, IsSaturday, IsSunday, Weekdays
    <2>2. d # d - 1
        BY <1>4
    <2> QED BY <1>5, <2>1, <2>2 DEF NoneMerged
<1>9. CASE c.solve # "before"
    <2>1. Adjust(c, d) = d + 2 /\ Adjust(c, d + 2) = d + 2
        BY <1>7, <1>9 DEF Adjust, IsSaturday, IsSunday, Weekdays
    <2>2. d # d + 2
        BY <1>4
    <2> QED BY <1>5, <2>1, <2>2 DEF NoneMerged
<1> QED BY <1>8, <1>9

\* What it is to be steady, in terms of places and windows.
LEMMA SteadyMeans ==
    ASSUME NEW s, IsTiming(s.timing), world.month \in Int, Steady(s)
    PROVE  LET c == s.timing
               january == 12 * YearOf(world.month)
           IN  /\ Recurring(c) /\ c.endMode = "never" /\ SameSize(c) /\ NoneMerged(c)
               /\ YearOf(world.month) \in Int /\ january \in Int /\ c.month < january
               /\ Place(c) < (IF InMonths(c) THEN january ELSE FirstOf(january))
               /\ \E d \in RawDates(c, MaxPeriods) : TRUE
               /\ \A d \in RawDates(c, MaxPeriods) : d \in Int /\ FirstOf(january + 12) < d
               /\ Year(c, world.month) =
                    Expand(c, FirstOf(january), FirstOf(january + 12) - 1)
<1> DEFINE c == s.timing
           y == YearOf(world.month)
           january == 12 * y
           dates == UNION {RawDates(c, k) : k \in 0 .. MaxPeriods}
<1>1. Recurring(c) /\ c.endMode = "never" /\ SameSize(c)
    BY DEF Steady, SameSize
<1>2. NoneMerged(c)
    <2>1. IsFiniteSet(dates)
        <3> DEFINE all == {RawDates(c, k) : k \in 0 .. MaxPeriods}
        <3>1. IsFiniteSet(0 .. MaxPeriods)
            BY PeriodsAssumption, FS_Interval
        <3>2. IsFiniteSet(all)
            <4> DEFINE f == [k \in 0 .. MaxPeriods |-> RawDates(c, k)]
            <4>1. f \in Surjection(0 .. MaxPeriods, all)
                BY DEF Surjection
            <4> HIDE DEF f, all
            <4> QED BY <3>1, <4>1, FS_Surjection
        <3>3. \A x \in all : IsFiniteSet(x)
            BY <1>1, RawDatesFinite
        <3> HIDE DEF all
        <3>4. IsFiniteSet(UNION all)
            BY <3>2, <3>3, FS_UNION
        <3> QED BY <3>4 DEF all
    <2>2. Cardinality({Adjust(c, d) : d \in dates}) = Cardinality(dates)
        BY DEF Steady
    <2>3. dates = AllDates(c)
        BY DEF AllDates
    <2> HIDE DEF dates
    <2> QED BY <2>1, <2>2, <2>3, AdjustCounts DEF NoneMerged
<1>3. y \in Int /\ january \in Int /\ c.month < january /\ c.month \in Int /\ c.day \in Int
    <2>1. YearOf(c.month) < y
        BY DEF Steady
    <2>2. c.month \in Int /\ c.day \in Int
        BY DEF IsTiming
    <2> QED BY <2>1, <2>2 DEF YearOf
<1>4. Month(y, 1) = january /\ Month(y + 1, 1) = january + 12
    <2> HIDE DEF y
    <2> QED BY <1>3 DEF Month
<1> HIDE DEF january, y
<1>5. Place(c) < (IF InMonths(c) THEN january ELSE FirstOf(january))
    <2>1. ClampDay(c.month, c.day) < FirstOf(january)
        BY <1>3, ClampDayInMonth, MonthIsBefore
    <2> QED BY <1>3, <2>1 DEF Place
<1>6. \E d \in RawDates(c, MaxPeriods) : TRUE
    <2>1. Cardinality(RawDates(c, MaxPeriods)) = DatesPerPeriod(c)
        BY <1>1, PeriodsAssumption DEF SameSize
    <2>2. Cardinality({}) = 0
        BY FS_EmptySet
    <2>3. RawDates(c, MaxPeriods) # {}
        BY <1>1, <2>1, <2>2, DatesPerPeriodType
    <2> QED BY <2>3
<1>7. \A d \in RawDates(c, MaxPeriods) : d \in Int /\ FirstOf(january + 12) < d
    <2>1. \A d \in RawDates(c, MaxPeriods) : FirstOf(january + 12) + Margin < d
        BY <1>4 DEF Steady, y
    <2>2. RawDates(c, MaxPeriods) \subseteq Int
        BY <1>1, PeriodsAssumption, RawDatesType
    <2>3. FirstOf(january + 12) \in Int
        BY <1>3, FirstOfGrows
    <2> QED BY <2>1, <2>2, <2>3 DEF Margin
<1>8. Year(c, world.month) = Expand(c, FirstOf(january), FirstOf(january + 12) - 1)
    <2>1. (january + 11) + 1 = january + 12
        BY <1>3
    <2> QED BY <1>4, <2>1 DEF Year, LastOf, y
<1> QED BY <1>1, <1>2, <1>3, <1>5, <1>6, <1>7, <1>8 DEF january, y

\* The paydays of a steady schedule's year are those that its frequency counts,
\* but for one period more or less.
LEMMA PaydaysOfYear ==
    ASSUME NEW s, IsTiming(s.timing), world.month \in Int, Steady(s)
    PROVE  LET c == s.timing
               paydays == Cardinality(Year(c, world.month))
               each == DatesPerPeriod(c)
               n == Interval(c)
           IN  /\ paydays \in Nat /\ each \in Nat /\ n \in Nat /\ n >= 1
               /\ Yearly[c.frequency] \in Int
               /\ Yearly[c.frequency] * each - n * paydays =< n * (1 + each)
               /\ -(n * (1 + each)) =< Yearly[c.frequency] * each - n * paydays
<1> DEFINE c == s.timing
           january == 12 * YearOf(world.month)
           from == FirstOf(january)
           next == FirstOf(january + 12)
           to == next - 1
           paydays == Cardinality(Year(c, world.month))
           each == DatesPerPeriod(c)
           n == Interval(c)
           p == Step(c)
           yearly == Yearly[c.frequency]
<1> SUFFICES /\ paydays \in Nat /\ each \in Nat /\ n \in Nat /\ n >= 1
             /\ yearly \in Int
             /\ yearly * each - n * paydays =< n * (1 + each)
             /\ -(n * (1 + each)) =< yearly * each - n * paydays
    OBVIOUS
<1>1. /\ Recurring(c) /\ c.endMode = "never" /\ SameSize(c) /\ NoneMerged(c)
      /\ YearOf(world.month) \in Int /\ january \in Int /\ c.month < january
      /\ Place(c) < (IF InMonths(c) THEN january ELSE from)
      /\ \E d \in RawDates(c, MaxPeriods) : TRUE
      /\ \A d \in RawDates(c, MaxPeriods) : d \in Int /\ next < d
      /\ Year(c, world.month) = Expand(c, from, to)
    BY SteadyMeans
<1>2. /\ n \in Nat /\ n >= 1 /\ p \in Nat /\ p # 0 /\ each \in Nat /\ each >= 1
    BY <1>1, StepType, DatesPerPeriodType
<1>3. from \in Int /\ next \in Int /\ next - from \in {365, 366}
    BY <1>1, FirstOfGrows, YearLength
<1>4. c.frequency \in {"daily", "weekly", "monthly", "yearly"}
    BY <1>1 DEF IsTiming, Yearly
<1> HIDE DEF january, next, paydays, c
<1>5. CASE ~InMonths(c)
    <2>1. from \in Int /\ to \in Int /\ to - from \in {364, 365} /\ Place(c) < from
        BY <1>1, <1>3, <1>5
    <2>2. \A d \in RawDates(c, MaxPeriods) : to < d
        BY <1>1, <1>3
    <2> HIDE DEF from, to
    <2>3. /\ paydays \in Nat
          /\ p * paydays =< 367 + p
          /\ ~c.skipWeekend => p * paydays =< 365 + p
          /\ 364 - p =< p * paydays
        BY <1>1, <1>5, <2>1, <2>2, PaydaysOfDays DEF c, paydays
    <2>4. each = 1
        BY <1>5 DEF DatesPerPeriod, InMonths
    <2> DEFINE m == n * paydays
    <2>5. m \in Nat
        <3> HIDE DEF n
        <3> QED BY <1>2, <2>3
    <2>6. CASE c.frequency = "daily"
        <3>1. p = n /\ Yearly[c.frequency] = 365
            BY <1>2, <2>6 DEF Step, Yearly
        <3>2. ASSUME n = 1, c.skipWeekend PROVE FALSE
            <4>1. MaxPeriods >= 9
                <5>1. PICK d \in RawDates(c, MaxPeriods) : d \in Int /\ to < d
                    BY <1>1, <2>2
                <5>2. d = Place(c) + p * MaxPeriods
                    BY <1>1, <1>5, DateOfPeriod, PeriodsAssumption DEF Place, c
                <5>3. p * MaxPeriods = MaxPeriods
                    BY <3>1, <3>2, PeriodsAssumption
                <5>4. Place(c) \in Int
                    BY <1>1, PlaceType DEF c
                <5> HIDE DEF p
                <5> QED BY <2>1, <5>1, <5>2, <5>3, <5>4, PeriodsAssumption
            <4>2. p = 1
                BY <3>1, <3>2
            <4> QED BY <1>1, <1>5, <3>2, <4>1, <4>2, DailyMerges DEF c
        <3>3. m =< 367 + n /\ 364 - n =< m /\ (~c.skipWeekend => m =< 365 + n)
            BY <2>3, <3>1
        <3> HIDE DEF m, n, each
        <3>4. 365 * each - m =< n * (1 + each) /\ -(n * (1 + each)) =< 365 * each - m
            <4>1. 365 * each = 365 /\ n * (1 + each) = 2 * n
                BY <1>2, <2>4
            <4>2. m =< 365 + 2 * n
                BY <1>2, <2>5, <3>2, <3>3
            <4> QED BY <1>2, <2>5, <3>3, <4>1, <4>2
        <3> QED BY <1>2, <2>3, <3>1, <3>4 DEF m
    <2>7. CASE c.frequency = "weekly"
        <3>1. p = n * 7 /\ Yearly[c.frequency] = 52
            BY <1>2, <2>7 DEF Step, Yearly
        <3>2. p * paydays = 7 * m
            <4> HIDE DEF n, p
            <4> QED BY <1>2, <2>3, <3>1
        <3> HIDE DEF m, n, each, p
        <3>3. 52 * each - m =< n * (1 + each) /\ -(n * (1 + each)) =< 52 * each - m
            <4>1. 52 * each = 52 /\ n * (1 + each) = 2 * n
                BY <1>2, <2>4
            <4> QED BY <1>2, <2>3, <2>5, <3>1, <3>2, <4>1
        <3> QED BY <1>2, <2>3, <3>1, <3>3 DEF m
    <2> QED BY <1>4, <1>5, <2>6, <2>7 DEF InMonths
<1>6. CASE InMonths(c)
    <2>1. \E d \in RawDates(c, MaxPeriods) : next =< d
        <3>1. PICK d \in RawDates(c, MaxPeriods) : d \in Int /\ next < d
            BY <1>1
        <3> QED BY <1>3, <3>1
    <2>2. /\ paydays \in Nat
          /\ p * paydays =< each * (12 + p)
          /\ each * (12 - p) =< p * paydays
        BY <1>1, <1>6, <2>1, PaydaysOfMonths DEF c, paydays, next
    <2> DEFINE m == n * paydays
               q == n * each
    <2>3. m \in Nat /\ q \in Nat /\ n * (1 + each) = n + q
        <3> HIDE DEF n, each
        <3> QED BY <1>2, <2>2
    <2>4. CASE c.frequency = "monthly"
        <3>1. p = n /\ Yearly[c.frequency] = 12
            BY <1>2, <2>4 DEF Step, Yearly
        <3>2. m =< each * (12 + n) /\ each * (12 - n) =< m
            BY <2>2, <3>1
        <3>3. each * (12 + n) = 12 * each + q /\ each * (12 - n) = 12 * each - q
            <4> HIDE DEF n, each
            <4> QED BY <1>2
        <3> HIDE DEF m, n, each, q
        <3>4. 12 * each - m =< n + q /\ -(n + q) =< 12 * each - m
            BY <1>2, <2>3, <3>2, <3>3
        <3> QED BY <1>2, <2>2, <2>3, <3>1, <3>4 DEF m
    <2>5. CASE c.frequency = "yearly"
        <3>1. p = n * 12 /\ Yearly[c.frequency] = 1
            BY <1>2, <2>5 DEF Step, Yearly
        <3>2. p * paydays = 12 * m
            <4> HIDE DEF n, p
            <4> QED BY <1>2, <2>2, <3>1
        <3>3. each * (12 + p) = 12 * each + 12 * q /\ each * (12 - p) = 12 * each - 12 * q
            <4>1. p = n * 12
                BY <3>1
            <4> HIDE DEF n, p, each
            <4> QED BY <1>2, <4>1
        <3> HIDE DEF m, n, each, q, p
        <3>4. 1 * each - m =< n + q /\ -(n + q) =< 1 * each - m
            BY <1>2, <2>2, <2>3, <3>2, <3>3
        <3> QED BY <1>2, <2>2, <2>3, <3>1, <3>4 DEF m
    <2> QED BY <1>4, <1>6, <2>4, <2>5 DEF InMonths
<1> QED BY <1>5, <1>6 DEF c, paydays

\* A twelfth of the year's count, rounded, is a twelfth of what a year pays,
\* but for the periods by which the counts differ.
LEMMA TwelfthOfYear ==
    ASSUME NEW amount \in Int, NEW count \in Int, NEW paydays \in Int,
           NEW n \in Nat, n >= 1, NEW periods \in Nat,
           count - n * paydays =< n * periods, -(n * periods) =< count - n * paydays
    PROVE  Magnitude(12 * Round(amount * count, 12 * n) - amount * paydays)
             =< Magnitude(amount) * periods + 6
<1> DEFINE total == Round(amount * count, 12 * n)
           x == 12 * total - amount * paydays
           size == Magnitude(amount)
           off == count - n * paydays
           error == 2 * ((12 * n) * total - amount * count)
<1>1. total \in Int /\ error =< 12 * n /\ -(12 * n) =< error
    <2> DEFINE a == amount * count
               b == 12 * n
    <2>1. a \in Int /\ b \in Int /\ b # 0 /\ Magnitude(b) = b
        BY DEF Magnitude
    <2> HIDE DEF a, b
    <2>2. /\ Round(a, b) \in Int
          /\ 2 * (b * Round(a, b) - a) =< b /\ -b =< 2 * (b * Round(a, b) - a)
        BY <2>1, RoundError, RoundType
    <2> QED BY <2>2 DEF a, b
<1> HIDE DEF total
<1>2. size \in Nat /\ (size = amount \/ size = -amount)
    BY DEF Magnitude
<1>3. amount * off =< size * (n * periods) /\ -(size * (n * periods)) =< amount * off
    <2> DEFINE most == n * periods
    <2>1. most \in Int /\ off \in Int /\ off =< most /\ -off =< most
        OBVIOUS
    <2> HIDE DEF most, off, size
    <2>2. size * off =< size * most /\ size * (-off) =< size * most
        BY <1>2, <2>1, TimesGrows
    <2>3. size * off \in Int /\ size * most \in Int /\ size * (-off) = -(size * off)
        BY <1>2, <2>1
    <2>4. amount * off = size * off \/ amount * off = -(size * off)
        BY <1>2, <2>1
    <2> QED BY <2>2, <2>3, <2>4 DEF most
<1> DEFINE bound == size * periods + 6
<1>4. n * x =< n * bound /\ -(n * x) =< n * bound
    <2>1. n * bound = size * (n * periods) + 6 * n
        <3> HIDE DEF size
        <3> QED BY <1>2
    <2>2. 2 * (n * x) = error + 2 * (amount * off)
        BY <1>1
    <2> DEFINE r == n * x
               u == amount * off
               v == size * (n * periods)
    <2>3. r \in Int /\ u \in Int /\ v \in Int /\ error \in Int
        <3>1. x \in Int /\ off \in Int
            BY <1>1
        <3> QED BY <1>1, <1>2, <3>1
    <2> HIDE DEF r, u, v, error, bound
    <2> QED BY <1>1, <1>3, <2>1, <2>2, <2>3 DEF r, u, v
<1>5. x \in Int /\ bound \in Int
    BY <1>1, <1>2
<1> HIDE DEF x, bound
<1>6. x =< bound /\ -x =< bound
    <2>1. ASSUME NEW z \in Int, n * z =< n * bound PROVE z =< bound
        <3> SUFFICES ASSUME bound + 1 =< z PROVE FALSE
            BY <1>5
        <3>1. n * (bound + 1) =< n * z /\ n * (bound + 1) = n * bound + n
            BY <1>5, TimesGrows
        <3>2. n * bound \in Int /\ n * z \in Int
            BY <1>5
        <3> QED BY <2>1, <3>1, <3>2
    <2>2. -x \in Int /\ n * (-x) = -(n * x)
        BY <1>5
    <2> QED BY <1>4, <1>5, <2>1, <2>2
<1>7. Magnitude(x) =< bound
    BY <1>5, <1>6 DEF Magnitude
<1> QED BY <1>7 DEF x, bound, total

\* The annualized income of a steady schedule is a twelfth of what its year
\* pays, to one period's dates and the rounding, for any calendar year, any
\* interval and patterns, and wherever weekends move its dates.
THEOREM AverageOfTheYear == Spec => []AnnualizedIsTheYearsAverage
<1>1. ReportInv => AnnualizedIsTheYearsAverage
    <2> SUFFICES ASSUME ReportInv, NEW i \in DOMAIN schedules, Steady(schedules[i])
                 PROVE  LET s == schedules[i]
                            f == AnnualizedFragment(s, world.month)
                            periods == 1 + DatesPerPeriod(s.timing)
                        IN  Magnitude(12 * f.total - f.each * Cardinality(f.dates))
                              <= Magnitude(f.each) * periods + 6
        BY DEF AnnualizedIsTheYearsAverage
    <2> DEFINE s == schedules[i]
               c == s.timing
               f == AnnualizedFragment(s, world.month)
               paydays == Cardinality(Year(c, world.month))
               each == DatesPerPeriod(c)
               n == Interval(c)
               yearly == Yearly[c.frequency]
    <2>1. world.month \in Int
        BY WorldsAssumption DEF ReportInv, TypeOK
    <2>2. IsTiming(c) /\ s.amount \in Int
        BY DEF ReportInv, SchedulesInv, IsIncomeSchedule
    <2>3. /\ paydays \in Nat /\ each \in Nat /\ n \in Nat /\ n >= 1 /\ yearly \in Int
          /\ yearly * each - n * paydays =< n * (1 + each)
          /\ -(n * (1 + each)) =< yearly * each - n * paydays
        BY <2>1, <2>2, PaydaysOfYear
    <2>4. /\ f.total = Round((s.amount * yearly) * each, 12 * n)
          /\ f.each = s.amount /\ f.dates = Year(c, world.month)
        BY DEF AnnualizedFragment, Fragment, Annualized, Interval
    <2> DEFINE amount == s.amount
               count == yearly * each
               periods == 1 + each
    <2> HIDE DEF f, n, each, yearly, paydays
    <2>5. /\ amount \in Int /\ count \in Int /\ periods \in Nat
          /\ (amount * yearly) * each = amount * count
        BY <2>2, <2>3
    <2> HIDE DEF amount
    <2>6. Magnitude(12 * Round(amount * count, 12 * n) - amount * paydays)
            =< Magnitude(amount) * periods + 6
        <3> HIDE DEF count, periods
        <3>1. count - n * paydays =< n * periods /\ -(n * periods) =< count - n * paydays
            BY <2>3 DEF count, periods
        <3>2. amount \in Int /\ count \in Int /\ paydays \in Int /\ periods \in Nat
            BY <2>3, <2>5
        <3>3. n \in Nat /\ n >= 1
            BY <2>3
        <3> QED BY <3>1, <3>2, <3>3, TwelfthOfYear
    <2>7. f.total = Round(amount * count, 12 * n)
        BY <2>4, <2>5 DEF amount
    <2> HIDE DEF count
    <2> QED BY <2>4, <2>6, <2>7 DEF amount, f, each, paydays
<1> QED BY <1>1, ReportInvHolds, PTL
=============================================================================
