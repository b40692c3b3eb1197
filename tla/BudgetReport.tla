--------------------------- MODULE BudgetReport ---------------------------
(***************************************************************************)
(* `abh budget-summary` and `abh budget-details`: one session that reads   *)
(* payees, schedules, totals, the month of the budget, and then one        *)
(* projection for each category (services/actual/budget_data.rs), from     *)
(* which the reports are built and printed before the session closes.      *)
(*                                                                         *)
(* Any request may be refused by the bridge, or fail fatally: then the     *)
(* session is poisoned, and refuses the rest.  A failed projection does not*)
(* end the report.  What Actual and the settings hold is a `world` that    *)
(* does not change; names that the code takes for equal are equal here.    *)
(***************************************************************************)
EXTENDS BudgetSummary

CONSTANT Worlds

IsList(s) == s \in Seq(Range(s))
Optional(S) == S \cup {None}

\* The dates of schedules; their month is None when they cannot be parsed.
Patterns == [type : {"day"} \cup DOMAIN Weekdays, value : Int]
OnceDates == [frequency : {"once"}, month : Optional(Int), day : Int]
RecurringDates ==
    [frequency : DOMAIN Yearly, interval : Optional(Int), patterns : Seq(Patterns),
     skipWeekend : Optional(BOOLEAN), solve : Optional({"before", "after"}),
     month : Optional(Int), day : Int,
     endMode : {"never", "on_date", "after_n_occurrences"}, end : Optional(Int)]

IsSchedule(s) ==
    /\ s.amount \in [low : Int, high : Int]
    /\ s.date \in OnceDates \cup RecurringDates

IsCategory(c) == c.goal \in Optional(Int) /\ c.budgeted \in Optional(Int)

\* Persons, schedules and categories are lists; amounts are in cents.
ASSUME WorldsAssumption == \A w \in Worlds :
    /\ IsList(w.persons) /\ IsList(w.schedules) /\ IsList(w.categories)
    /\ \A i \in DOMAIN w.persons : IsList(w.persons[i].allocations)
    /\ \A i \in DOMAIN w.schedules : IsSchedule(w.schedules[i])
    /\ \A p \in DOMAIN w.totals : w.totals[p] \in Int
    /\ \A i \in DOMAIN w.categories : IsCategory(w.categories[i])
    /\ w.month \in Int

VARIABLES
    world,      \* payees, schedules, totals, categories; persons, options
    stage,      \* the request that is next
    poisoned,   \* has a request failed fatally?
    persons,    \* the persons, with the ids of their payees
    schedules,  \* their income schedules
    totals,     \* what payees without a schedule paid in the month
    categories, \* the categories so far, with their amounts
    failed,     \* how many of them failed to get a projection, by a refusal
    budgeters,  \* the persons with their income
    printed,    \* is the report on stdout?
    exit        \* the outcome of the command

vars == <<world, stage, poisoned, persons, schedules, totals, categories,
          failed, budgeters, printed, exit>>

Requests == {"payees", "schedules", "totals", "month", "project"}

Init ==
    /\ world \in Worlds
    /\ stage = "open"
    /\ poisoned = FALSE
    /\ persons = <<>> /\ schedules = <<>> /\ totals = <<>>
    /\ categories = <<>> /\ failed = 0
    /\ budgeters = <<>>
    /\ printed = FALSE
    /\ exit = "none"

Goto(there) == stage' = there /\ UNCHANGED exit
Return(value) == stage' = "closing" /\ exit' = value

----------------------------------------------------------------------------
(* The answers.                                                            *)

\* PayeeMatch::resolve: the payees with that name.
PayeesNamed(name) == {p \in world.payees : p.name = name}
Names == UNION {{world.persons[i].salary} \cup Range(world.persons[i].allocations) :
                  i \in DOMAIN world.persons}
AllFound == \A name \in Names : Cardinality(PayeesNamed(name)) = 1
PayeeId(name) == (CHOOSE p \in PayeesNamed(name) : TRUE).id
WithIds(p) ==
    [name |-> p.name, salary |-> PayeeId(p.salary),
     allocations |-> [i \in DOMAIN p.allocations |-> PayeeId(p.allocations[i])]]

PayeeIds == UNION {Range(AllPayees(persons[i])) : i \in DOMAIN persons}
Unscheduled(found) == PayeesWithoutSchedule(found, PayeeIds)

IsAddback(c) == c.name \in world.addback

\* The categories a report has, by position; income only if it is added back.
Reportable(c) == ~c.group.hidden /\ ~c.hidden /\ (c.group.income => IsAddback(c))
Shown == {i \in DOMAIN world.categories : Reportable(world.categories[i])}

\* resolve_expense_amount; `projection` is None when there is no goal or the
\* request failed.
\* Variant: of a category without a budgeted amount.
AmountOfUnset(c, projection) ==
    IF projection # None THEN projection
    ELSE IF world.fallback THEN c.budgeted ELSE 0
AmountOf(c, projection) ==
    IF projection # None THEN projection
    ELSE IF world.fallback THEN Else(c.budgeted, 0) ELSE 0

----------------------------------------------------------------------------
(* The command.                                                            *)

Open ==
    /\ stage = "open"
    /\ \/ Goto("payees")
       \/ stage' = "ended" /\ exit' = "error"
    /\ UNCHANGED <<world, poisoned, persons, schedules, totals, categories,
                   failed, budgeters, printed>>

GetPayees ==
    /\ stage = "payees"
    /\ IF AllFound
       THEN /\ persons' = [i \in DOMAIN world.persons |-> WithIds(world.persons[i])]
            /\ Goto("schedules")
       ELSE Return("error") /\ UNCHANGED persons
    /\ UNCHANGED <<world, poisoned, schedules, totals, categories, failed,
                   budgeters, printed>>

GetSchedules ==
    /\ stage = "schedules"
    /\ LET found == ToIncomeSchedules(world.schedules)
       IN  /\ schedules' = found
           /\ Goto(IF Unscheduled(found) = {} THEN "month" ELSE "totals")
    /\ UNCHANGED <<world, poisoned, persons, totals, categories, failed,
                   budgeters, printed>>

GetPayeeTotals ==
    /\ stage = "totals"
    /\ totals' = [p \in Unscheduled(schedules) \cap DOMAIN world.totals |->
                    world.totals[p]]
    /\ Goto("month")
    /\ UNCHANGED <<world, poisoned, persons, schedules, categories, failed,
                   budgeters, printed>>

GetBudgetMonth ==
    /\ stage = "month"
    /\ Goto("project")
    /\ UNCHANGED <<world, poisoned, persons, schedules, totals, categories,
                   failed, budgeters, printed>>

\* The position of the next category, if any is left.
Unresolved == Shown \ DOMAIN categories
NextCategory == {i \in Unresolved : \A j \in Unresolved : i <= j}

Resolved(c, projection) ==
    [name |-> c.name, group |-> c.group.name, mentions |-> c.mentions,
     amount |-> AmountOf(c, projection)]
Resolve(i, projection) ==
    categories' = [j \in DOMAIN categories \cup {i} |->
        IF j = i THEN Resolved(world.categories[i], projection) ELSE categories[j]]

\* An answer; or none: refused, fatal, or the session is poisoned already.
\* The report goes on with what the category falls back to.
GetProjection ==
    /\ stage = "project"
    /\ \E i \in NextCategory :
         \/ /\ ~poisoned /\ Resolve(i, world.categories[i].goal)
            /\ UNCHANGED <<poisoned, failed>>
         \/ ~poisoned /\ Resolve(i, None) /\ failed' = failed + 1 /\ UNCHANGED poisoned
         \/ Resolve(i, None) /\ poisoned' = TRUE /\ UNCHANGED failed
    /\ UNCHANGED <<world, stage, persons, schedules, totals, budgeters, printed, exit>>

\* The report is computed and printed; the closure returns Ok.
PrintReport ==
    /\ stage = "project" /\ Unresolved = {}
    /\ budgeters' = [i \in DOMAIN persons |->
         ComputeSalary(persons[i], schedules, totals, world.month, world.mode)]
    /\ printed' = TRUE
    /\ Return("ok")
    /\ UNCHANGED <<world, poisoned, persons, schedules, totals, categories, failed>>

\* Any request but a projection ends the report when it fails.
RequestFails ==
    /\ stage \in Requests \ {"project"}
    /\ poisoned' \in BOOLEAN
    /\ Return("error")
    /\ UNCHANGED <<world, persons, schedules, totals, categories, failed,
                   budgeters, printed>>

\* The session is closed whatever the closure returned; a poisoned session
\* answers with an error, which is the outcome if the closure had none.
\* Variant: only a close that itself fails is an error.
ClosePoisonedQuietly ==
    /\ stage = "closing"
    /\ stage' = "ended"
    /\ exit' \in {exit, "error"}
    /\ UNCHANGED <<world, poisoned, persons, schedules, totals, categories,
                   failed, budgeters, printed>>

Close ==
    /\ stage = "closing"
    /\ stage' = "ended"
    /\ \/ ~poisoned /\ UNCHANGED exit
       \/ exit' = "error"
    /\ UNCHANGED <<world, poisoned, persons, schedules, totals, categories,
                   failed, budgeters, printed>>

Next ==
    \/ Open \/ GetPayees \/ GetSchedules \/ GetPayeeTotals \/ GetBudgetMonth
    \/ GetProjection \/ PrintReport \/ RequestFails \/ Close

Spec == Init /\ [][Next]_vars

----------------------------------------------------------------------------
(* The two reports.                                                        *)

\* Variant: what is added back to the income stays among the expenses.
AllCategories == categories
Expenses == RestrictValues(categories, LAMBDA c : ~IsAddback(c))

Summary == BuildSummary(budgeters, Expenses)
Details == BuildDetails(categories)

TotalIncome == Total(budgeters, SalaryMonth)
AddbackTotal == Spent(RestrictValues(categories, IsAddback))
IncomeWithAddback == TotalIncome + AddbackTotal

----------------------------------------------------------------------------
(* Properties.                                                             *)

Amount(c) == c.amount

TypeOK ==
    /\ world \in Worlds
    /\ stage \in Requests \cup {"open", "closing", "ended"}
    /\ poisoned \in BOOLEAN /\ printed \in BOOLEAN
    /\ exit \in {"none", "ok", "error"}
    /\ DOMAIN categories \subseteq Shown /\ failed \in 0 .. Cardinality(DOMAIN categories)
    /\ \A i \in DOMAIN categories : Amount(categories[i]) \in Int
    /\ DOMAIN budgeters \in {{}, DOMAIN world.persons}
    /\ \A i \in DOMAIN budgeters : SalaryMonth(budgeters[i]) \in Int
    /\ DOMAIN totals \subseteq DOMAIN world.totals

\* When the command succeeds, each category that is shown has the amount that Actual's goal,
\* or the documented fallback of a category without one, gives it, but for
\* those whose projection the bridge has refused: a bridge that hangs or dies
\* among the projections, whose errors are swallowed, does not go unnoticed
\* (budget_data.rs:131-169, settings.rs:281-294).
SuccessMeansResolved ==
    exit = "ok" /\ stage = "ended" =>
        /\ DOMAIN categories = Shown
        /\ Cardinality({i \in Shown : LET c == world.categories[i] IN
               categories[i].amount # AmountOf(c, c.goal)}) <= failed

\* Of the schedules once they are read: the paydays that twelve reports on
\* single months count are those of the year, also when a weekend moves one
\* into another month (recurrence.rs:133-175).
MonthsMakeTheYear ==
    stage = "month" => \A i \in DOMAIN schedules :
        LET s == schedules[i]
            january == Month(YearOf(world.month), 1)
            InMonth(m) == ActualMonthFragment(s, m).dates
        IN  Recurring(s.timing) =>
              Year(s.timing, world.month) = UNION {InMonth(m) : m \in january .. january + 11}

\* A schedule that began before the year and runs on after it, to where it is
\* followed, whose patterns give each period as many dates, of which no weekend
\* makes two one payday.
Steady(s) ==
    LET c == s.timing
        dates == UNION {RawDates(c, k) : k \in 0 .. MaxPeriods}
        nextYear == Month(YearOf(world.month) + 1, 1)
    IN  /\ Recurring(c) /\ c.endMode = "never"
        /\ YearOf(c.month) < YearOf(world.month)
        /\ \A d \in RawDates(c, MaxPeriods) : FirstOf(nextYear) + Margin < d
        /\ \A k \in 0 .. MaxPeriods : Cardinality(RawDates(c, k)) = DatesPerPeriod(c)
        /\ Cardinality({Adjust(c, d) : d \in dates}) = Cardinality(dates)

\* The annualized income of a steady schedule is a twelfth of what it pays in
\* the year, but for one period more or less and the rounding to a cent
\* (budget_summary.rs:89-91 and 316-361).
AnnualizedIsTheYearsAverage ==
    stage = "month" => \A i \in DOMAIN schedules :
        LET s == schedules[i]
            f == AnnualizedFragment(s, world.month)
            periods == 1 + DatesPerPeriod(s.timing)
        IN  Steady(s) =>
              Magnitude(12 * f.total - f.each * Cardinality(f.dates))
                <= Magnitude(f.each) * periods + 6

\* The budgeters' shares pay for the common expenses, to the rounding of each,
\* and what is left to them is what is left in total, unless a category
\* mentions two of them, or nobody has an income
\* (budget_summary.rs:363-401 and 428-465).
SharesPayTheTotal ==
    LET sharers == Summary.budgeters
        total == Summary.total
        Off(n) == 2 * Magnitude(n) > Cardinality(DOMAIN sharers)
        Mentions(c) == {i \in DOMAIN budgeters :
                          budgeters[i].name # Blank /\ budgeters[i].name \in c.mentions}
        Shared == \E i \in DOMAIN categories : Cardinality(Mentions(categories[i])) > 1
    IN  printed /\ total.salary # 0 =>
          /\ ~Off(total.common - Total(sharers, LAMBDA b : b.common))
          /\ Shared \/ ~Off(total.leftOver - Total(sharers, LAMBDA b : b.leftOver))

\* The two commands tell one story of a month: the income less the expenses of
\* budget-details is what budget-summary leaves over, and each category is in
\* one row of its groups (services budget_summary.rs:50-55, budget_details.rs:
\* 56-67, domain budget_details.rs:35-88).
ReportsAgree ==
    printed =>
        /\ IncomeWithAddback - Details.total = Summary.total.leftOver
        /\ Total(Details.groups,
                 LAMBDA g : Total(g.subGroups, LAMBDA s : Spent(s.rows))) = Details.total
=============================================================================
