--------------------------- MODULE BudgetSummary ---------------------------
(***************************************************************************)
(* The two reports on a month of the household's budget, from the income   *)
(* schedules and the categories with their amounts: what each person earns *)
(* and pays (domain models/budget_summary.rs), and the categories by group *)
(* (models/budget_details.rs).                                             *)
(*                                                                         *)
(* Money is in cents.  f64 quotients are exact here, and rounded half away *)
(* from zero as f64::round does.  A category `mentions` the persons whose  *)
(* names its own name contains, in any case.                               *)
(***************************************************************************)
EXTENDS Recurrence

CONSTANT Blank  \* the name of a person that is empty or all blanks

Total(list, Amount(_)) == SumFunction([i \in DOMAIN list |-> Amount(list[i])])

\* The elements of a list of lists.
Flatten(parts) ==
    [x \in UNION {{i} \X DOMAIN parts[i] : i \in DOMAIN parts} |-> parts[x[1]][x[2]]]

Magnitude(n) == IF n < 0 THEN -n ELSE n
Round(n, d) ==
    LET size == (2 * Magnitude(n) + Magnitude(d)) \div (2 * Magnitude(d))
    IN  IF (n < 0) = (d < 0) THEN size ELSE -size

----------------------------------------------------------------------------
(* Income.                                                                 *)

SchedulesOf(schedules, payee) == RestrictValues(schedules, LAMBDA s : s.payee = payee)
PayeesWithoutSchedule(schedules, payees) ==
    {payee \in payees : DOMAIN SchedulesOf(schedules, payee) = {}}

AllPayees(person) == <<person.salary>> \o person.allocations

Fragment(s, dates, total) ==
    [payee |-> s.payee, dates |-> dates, each |-> s.amount, total |-> total,
     source |-> "schedule"]

ActualMonthFragment(s, month) ==
    LET dates == Expand(s.timing, FirstOf(month), LastOf(month))
    IN  Fragment(s, dates, s.amount * Cardinality(dates))

Year(timing, month) ==
    LET january == Month(YearOf(month), 1)
    IN  Expand(timing, FirstOf(january), LastOf(january + 11))

Yearly == [daily |-> 365, weekly |-> 52, monthly |-> 12, yearly |-> 1]

DatesPerPeriod(c) ==
    IF c.frequency = "monthly" THEN Max({Cardinality(DOMAIN c.patterns), 1}) ELSE 1

\* amount * canonical_occurrences_per_year / 12.
\* Variant: patterns are forgotten.
AnnualizedOncePerPeriod(amount, c) ==
    Round(amount * Yearly[c.frequency], 12 * Max({c.interval, 1}))
Annualized(amount, c) ==
    Round(amount * Yearly[c.frequency] * DatesPerPeriod(c), 12 * Max({c.interval, 1}))

AnnualizedFragment(s, month) ==
    Fragment(s, Year(s.timing, month), Annualized(s.amount, s.timing))

ScheduleFragment(s, month, mode) ==
    IF mode = "annualized" /\ Recurring(s.timing) THEN AnnualizedFragment(s, month)
    ELSE ActualMonthFragment(s, month)

\* A payee without a schedule brings what it paid in the month, if anything.
PayeeFragments(payee, schedules, totals, month, mode) ==
    LET own == SchedulesOf(schedules, payee)
        each == [i \in DOMAIN own |-> ScheduleFragment(own[i], month, mode)]
    IN  IF DOMAIN own # {} THEN RestrictValues(each, LAMBDA f : f.dates # {})
        ELSE IF payee \notin DOMAIN totals THEN <<>>
        ELSE <<[payee |-> payee, dates |-> {}, each |-> totals[payee],
                total |-> totals[payee], source |-> "history"]>>

\* Budgeter<Configured>::compute_salary.
ComputeSalary(person, schedules, totals, month, mode) ==
    LET payees == AllPayees(person)
    IN  [name |-> person.name, payee |-> person.salary,
         fragments |-> Flatten([i \in DOMAIN payees |->
             PayeeFragments(payees[i], schedules, totals, month, mode)])]

SalaryMonth(b) == Total(b.fragments, LAMBDA f : f.total)
OfSalary(b) == RestrictValues(b.fragments, LAMBDA f : f.payee = b.payee)
SalaryOccurrence(b) == Total(OfSalary(b), LAMBDA f : f.each)
AllocationsTotal(b) ==
    Total(RestrictValues(b.fragments, LAMBDA f : f.payee # b.payee), LAMBDA f : f.total)

----------------------------------------------------------------------------
(* Expenses.                                                               *)

BelongsTo(category, name) == name # Blank /\ name \in category.mentions

MatchesAny(category, budgeters) ==
    \E i \in DOMAIN budgeters : BelongsTo(category, budgeters[i].name)

Spent(categories) == Total(categories, LAMBDA c : c.amount)

\* TotalBudgeter::compute_salary and compute_expenses.
ComputeTotal(budgeters, categories) ==
    LET Individual(c) == MatchesAny(c, budgeters)
        salary == Total(budgeters, SalaryMonth)
        individual == RestrictValues(categories, Individual)
        common == RestrictValues(categories, LAMBDA c : ~Individual(c))
    IN  [salary |-> salary,
         occurrence |-> Total(budgeters, SalaryOccurrence),
         allocations |-> Total(budgeters, AllocationsTotal),
         common |-> Spent(common), individual |-> Spent(individual),
         categories |-> individual,
         leftOver |-> salary - Spent(common) - Spent(individual)]

\* The share that a budgeter pays of the common expenses.
\* Variant: by the paycheque instead of the income of the month.
ShareByPaycheque(b, total) ==
    IF total.salary = 0 THEN 0
    ELSE Round(SalaryOccurrence(b) * total.common, total.salary)
Share(b, total) ==
    IF total.salary = 0 THEN 0
    ELSE Round(SalaryMonth(b) * total.common, total.salary)

\* Budgeter<ComputedSalary>::compute_expenses.
ComputeExpenses(b, total) ==
    LET own == Spent(RestrictValues(total.categories, LAMBDA c : BelongsTo(c, b.name)))
    IN  [name |-> b.name, salary |-> SalaryMonth(b), common |-> Share(b, total),
         individual |-> own,
         leftOver |-> SalaryMonth(b) - Share(b, total) - own]

BuildSummary(budgeters, categories) ==
    LET total == ComputeTotal(budgeters, categories)
    IN  [total |-> total,
         budgeters |-> [i \in DOMAIN budgeters |-> ComputeExpenses(budgeters[i], total)]]

----------------------------------------------------------------------------
(* Details.                                                                *)

\* The positions where a value comes first.
Firsts(f) == {i \in DOMAIN f : \A j \in DOMAIN f : j < i => f[j] # f[i]}

\* "Top - sub" is the sub-level `sub` of "Top"; None is no sub-level.
Top(c) == c.group.top
Sub(c) == c.group.sub
Tops(categories) == [i \in DOMAIN categories |-> Top(categories[i])]
Subs(categories) == [i \in DOMAIN categories |-> Sub(categories[i])]

\* Groups and sub-levels have the position of their first category; that
\* groups without named sub-levels are shown last is layout.
Groups(categories) ==
    LET In(top) == RestrictValues(categories, LAMBDA c : Top(c) = top)
        Rows(group, sub) == RestrictValues(group, LAMBDA c : Sub(c) = sub)
        SubGroups(group) ==
            [i \in Firsts(Subs(group)) |->
                [name |-> Sub(group[i]), rows |-> Rows(group, Sub(group[i]))]]
    IN  [i \in Firsts(Tops(categories)) |->
            [name |-> Top(categories[i]),
             subGroups |-> SubGroups(In(Top(categories[i])))]]

BuildDetails(categories) ==
    [groups |-> Groups(categories), total |-> Spent(categories)]
=============================================================================
