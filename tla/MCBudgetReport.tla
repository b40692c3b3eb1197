-------------------------- MODULE MCBudgetReport --------------------------
\* Calendar worlds: one income, any timing.  Category worlds: two persons, any
\* categories.  Ids, names and keys are the same strings.
EXTENDS BudgetReport

Pay(amount) == [low |-> amount, high |-> amount]
Scheduled(payee, amount, date) == [payee |-> payee, amount |-> amount, date |-> date]
Person(name, salary, allocations) ==
    [name |-> name, salary |-> salary, allocations |-> allocations]
Payees(ids) == {[id |-> p, name |-> p] : p \in ids}
Pattern(type, value) == [type |-> type, value |-> value]

Timing(frequency, interval, patterns) ==
    [frequency |-> frequency, interval |-> interval, patterns |-> patterns]
Timings ==
    {Timing("daily", 10, <<>>), Timing("weekly", None, <<>>), Timing("weekly", 2, <<>>),
     Timing("monthly", None, <<>>), Timing("monthly", 0, <<Pattern("day", 31)>>),
     Timing("monthly", 2, <<Pattern("day", 1), Pattern("day", 15)>>),
     Timing("monthly", 1, <<Pattern("fr", 5), Pattern("day", 40)>>),
     Timing("monthly", 1, <<Pattern("mo", 2), Pattern("day", 31)>>),
     Timing("yearly", None, <<>>)}
Weekends == {<<None, None>>, <<TRUE, "before">>, <<TRUE, None>>}
\* The 31st of December 2022 is a Saturday; 2024 is a leap year.
Starts == {<<Month(2022, 12), 31>>, <<Month(2024, 1), 15>>, <<None, 1>>}
Ends == {<<"never", None>>, <<"after_n_occurrences", 5>>, <<"on_date", FirstOf(Month(2024, 3))>>,
         <<"on_date", None>>}

Config(t, w, s, e) ==
    [frequency |-> t.frequency, interval |-> t.interval, patterns |-> t.patterns,
     skipWeekend |-> w[1], solve |-> w[2], month |-> s[1], day |-> s[2],
     endMode |-> e[1], end |-> e[2]]
Once(month, day) == [frequency |-> "once", month |-> month, day |-> day]

CalendarWorld(date, month, mode) ==
    [payees |-> Payees({"pay"}), persons |-> <<Person("ann", "pay", <<>>)>>,
     schedules |-> <<Scheduled("pay", [low |-> 100001, high |-> 100004], date)>>,
     totals |-> [p \in {"pay"} |-> 70], categories |-> <<>>, addback |-> {},
     fallback |-> FALSE, month |-> month, mode |-> mode]
Dates ==
    {Config(t, w, s, e) : t \in Timings, w \in Weekends, s \in Starts, e \in Ends}
    \cup {Once(Month(2024, 2), 29), Once(None, 1)}
CalendarWorlds ==
    {CalendarWorld(d, m, mode) : d \in Dates,
        m \in {Month(2023, 1), Month(2024, 2)}, mode \in {"annualized", "actual"}}

Category(group, name, mentions, hidden, goal, budgeted) ==
    [group |-> group, name |-> name, mentions |-> mentions, hidden |-> hidden,
     goal |-> goal, budgeted |-> budgeted]
Group(top, sub, income, hidden) ==
    [name |-> [top |-> top, sub |-> sub], income |-> income, hidden |-> hidden]
Home == Group("Home", None, FALSE, FALSE)
Own == Group("Home", "own", FALSE, FALSE)
Income == Group("Income", None, TRUE, FALSE)
Gone == Group("Gone", None, FALSE, TRUE)

Household(rent, second, owners, addback, fallback, salary) ==
    [payees |-> Payees({"acme", "state", "shop"}) \cup
                (IF salary = 0 THEN {[id |-> "shop2", name |-> "shop"]} ELSE {}),
     persons |-> <<Person("ann", "acme", <<"state">>), Person(second, "shop", <<>>)>>,
     schedules |-> <<Scheduled("acme", Pay(salary), Config(
                        Timing("monthly", 1, <<>>), <<TRUE, None>>,
                        <<Month(2022, 12), 31>>, <<"never", None>>)),
                     Scheduled("state", Pay(-30), Once(Month(2023, 1), 1)),
                     Scheduled(None, Pay(5), Once(Month(2023, 1), 1))>>,
     totals |-> [p \in {"shop", "acme"} |-> 67],
     categories |-> <<Category(Home, "rent", {}, FALSE, rent, 40),
                      Category(Own, "hobby", owners, FALSE, 25, None),
                      Category(Own, "old", {}, TRUE, 9, 9),
                      Category(Home, "food", {}, FALSE, None, 12),
                      Category(Income, "refund", {"ann"}, FALSE, None, 15),
                      Category(Income, "wages", {}, FALSE, None, 99),
                      Category(Gone, "refund", {}, FALSE, 7, 7)>>,
     addback |-> addback, fallback |-> fallback, month |-> Month(2023, 1),
     mode |-> "annualized"]
CategoryWorlds ==
    {Household(rent, second, owners, addback, fallback, salary) :
        rent \in {None, 31, -8}, second \in {"bob", Blank},
        owners \in SUBSET {"ann", "bob"}, addback \in {{}, {"refund"}, {"rent"}},
        fallback \in BOOLEAN, salary \in {0, 100, -37, -67}}

AllWorlds == CalendarWorlds \cup CategoryWorlds
=============================================================================
