# ab-helpers in TLA+

`abh` (crate `ab-helpers-cli`) posts loan interest to, and reports on, an
[Actual](https://actualbudget.org) budget. It does not speak to the Actual
server itself: every command opens a *bridge session*, a `node index.js serve`
child that keeps a local replica of the budget and syncs it with the server. A
daemon runs the interest commands on cron schedules. This directory models the
parts of that machinery that interleave, fail, time out, are killed and are
retried. Source paths below are relative to `src/crates/`.

## Inventory

| Component | State | Operations | Interacts with |
|---|---|---|---|
| Bridge session (`actual/src/session.rs`) | `State` (Open, Poisoned, Closed), request counter, mutex over the pipes, child handle | `open_session`, `invoke`, `close`, drop | bridge over two pipes; lock (a field, dropped last) |
| Serve loop (`actual/bridge/index.js`) | `opened`, `closedCleanly`, the request in hand, the local replica | read a line, handler, `api.sync()`, answer, shutdown | session over pipes; server by sync |
| Data-dir lock (`actual/src/lock.rs`) | a flock on `.abh-session.lock` | `acquire` (try, poll to a deadline), release by drop or death | every session of every `abh` process on that data dir |
| `with_session` (`ab-helpers-server/src/config/settings.rs`) | none | open, run a closure, always close, choose the outcome | session |
| Plan/execute kernel (`ab-helpers-server/src/execution.rs`) | none | `plan`, then skip, preview or `apply` | services |
| Interest service (`.../services/actual/interest.rs`) | none but the ledger | plan: account, note, last transaction, already applied?, balance; apply: payee, import | ledger through the session |
| Reconcile service, `set-balance` (`.../services/actual/reconcile.rs`, `commands/set_balance.rs`) | none but the ledger | resolve a name, ask the user; plan: match account, balance, difference; apply: add transaction | ledger through the session, the user |
| Daemon (`ab-helpers-cli/src/commands/daemon.rs`) | `DaemonState` in memory and in `daemon-state.json`, missed kinds, scheduler jobs | load, catch up, schedule, run, save, shut down | `with_session`, clock, disk |
| Managed bridge install (`actual/src/managed_bridge.rs`) | files, `node_modules`, a stamp | write if changed, `npm ci`, stamp | other `abh` processes, other versions |
| Settings, `init` (`.../config/settings.rs`, `commands/init.rs`) | `base.toml`, `config.toml` | seed and refresh them; layer files, variables, secret files | file system, environment, every command |
| Budget data service (`.../services/actual/budget_data.rs`) | none | payees, schedules, totals, month, one projection per category | session; both reports |
| Budget domain (`ab-helpers-domain/src/models`) | none | recurrence, summary, details, money | budget data service |
| HTTP server, databases, telemetry, rendering | | | not part of the logic |

What is hard, and what makes each part right:

- **Session.** Callers share an `Arc`; their futures may be dropped between the
  request and its answer; both sides have timeouts of the same length; the child
  may die at any step. Right means: an acknowledged write is on the server, a
  non-fatal error means that nothing was written, a closed session has no child,
  no call hangs.
- **Lock.** It must exclude bridges, not just Rust values; processes are killed.
  Right means: one bridge per replica, no lock that stays held for ever but by a
  user who is asked.
- **Interest.** "Is it there already?" and "post it" are two requests; a failed
  or killed run may have posted; the next tick tries again; transactions left
  in a replica are pushed by somebody else's sync. Right means: a day gets
  interest once, and what a run reports is so.
- **Daemon.** Kills in the middle of a save, overlapping jobs, ticks while the
  process is down or catching up. Right means: no tick without a run, no run
  forgotten, catch-up ends.

- **Set-balance.** The balance is read in one request and corrected in another,
  without a key a retry could look for; names are not unique. Right means: no
  difference is corrected twice, a reported balance is so.
- **Install.** Processes of several versions write one directory without a lock,
  are killed, leave an `npm` behind. Right means: no reader sees a truncated
  file, the stamp vouches for the modules it was written for.
- **Settings.** Inits, kills, upgrades and edits come in any order; five places
  and two kinds of exports set the same key. Right means: overrides and new
  defaults reach the commands, which all come to one replica and one lock.
- **Reports.** A failed projection does not end a report, and the report is
  printed before the session is closed; weekends move paydays between months.
  Right means: success has the amounts it promises, no payday is lost or counted
  twice, the shares and the two reports add up.

`PROJECT.json` lists every component, every hazard with its line, and which
property covers it.

## Modules

| Module | What it is |
|---|---|
| `BridgeSession` | one session, Rust and Node side, with pipes, timeouts and cancellation |
| `SessionContract` | what a session promises, without pipes, processes or callers |
| `BudgetLock` | the lock, the lives of the sessions it protects, kills and orphans |
| `InterestRuns` | runs of the interest service on a replica and a server |
| `Daemon` | state file, catch-up, scheduler |
| `SetBalance` | runs of `set-balance` on a replica and a server |
| `ManagedBridge` | installs of the bridge in the directory all processes share |
| `Settings` | `init`, and the settings a command gets |
| `Recurrence` | calendar and due dates of schedules, as operators |
| `BudgetSummary` | the two reports of a month, as operators |
| `BudgetReport` | the session that reads what they are made from |
| `MC...` | the instances TLC checks |
| `Sums` | lemmas about sums over finite sets, and about counting |
| `..._proofs` | theorems of a module and their proofs; `DataDir_proofs` has those of `Settings` and `BudgetLock` |

They form layers, and each takes from the one below only what that one shows.
`BridgeSession` implements `SessionContract`. `BudgetLock` reduces a session to
spawn, open, close and drop, and uses that a closed or dropped session has no
bridge (`ClosedSessionHasNoBridge`) and that its waits end (`EveryCallReturns`).
`InterestRuns` reduces the lock to the exclusion of the runs of one data dir and
a session to what its requests do to replica and server, failures included.
`Daemon` reduces a run of interest to "ends well or not". `SetBalance` reduces lock
and session as `InterestRuns` does. `BudgetReport` extends `BudgetSummary`, which
extends `Recurrence`; of the session it keeps that a fatal answer poisons it.
`ManagedBridge` and `Settings` are what comes before a session: `OneReplica` is why
one lock per cache dir is one lock.

In the specifications, a definition under a `Variant:` comment is the next one
with a plausible mistake in it. No specification uses it; `PROJECT.json`
("mutants") says which property must fail when it replaces the real one.

### BridgeSession

`phase` says whether `open_session` is still in progress, `state` and `nextId`
are the fields of those names, `holder` is who has the mutex across an await,
`pc`/`req` where each caller is and with what request. `node` is the serve loop
(`read`, `work`, `sync`, `stop`, `exited`), `late` a handler that lost its race
with `withTimeout` and goes on; `stdin`/`stdout` are the pipes. A write is
identified by the id of its request: `local` and `remote` are the writes in the
replica and on the server. `acked`, `rejected`, `closedOk`, `abandoned` are
history.

`invoke` is `Send` (or `RefuseUnusable`, `SendToDeadBridge`), then one of
`Receive`, `EndOfStream`, `Timeout`; the mutex is held from `Send` to there.
`close` is `CloseGate`, an `invoke`, and `Reap`, with the mutex free in between
as in the code. `Cancel` drops a future wherever it waits. `handleOperation` is
`ReadData`, `ApplyWrite`/`RefuseWrite` and `SyncWrite`, or `CloseBudget`;
`HandlerTimeout` is `dispatchOperation`'s own timeout, `Shutdown` the `finally`
of `serve`, `BridgeDies` any other end of the process.

Left out: frames no Rust caller can provoke (`bad-request-json`,
`unknown-operation`, `session-not-open`), an error object of an unexpected shape
(`session.rs:302`, which returns without poisoning), half-written request lines
of a cancelled call. After end of file the code waits for the child without a
timeout (`session.rs:275`); stdout is closed by the exit of the process, so the
model lets that wait end.

### BudgetLock

`pc` follows a task through `with_session`, `owner` is whose open file holds the
flock, `bridge` says whether the bridge a task spawned runs, and as whose child.
`Crash` kills a process: the kernel frees its lock, its bridges become orphans,
which end in their own time (`OrphanEnds`). `Release` is the drop order of the
fields of the session. `Again` lets a task run its next session. Some tasks are
`Interactive`: inside its session `set-balance` asks which account is meant
(`set_balance.rs:65-71` and `182`), and a command may print to a pipe that nobody
reads. `WaitForUser` and `UserAnswers` are such a wait; the lock is held all along,
and no timeout ends it.

### InterestRuns

Transactions have a date and an author (a run, the user, or a match). `server` and
`replica` are the two copies of the account; `stage` is the request a run is at.
Each request that writes has its partial outcomes: refused before it wrote
(`Refused`), fatal or timed out with any part of it done (`Poisoned`), cut by a
kill (`Crash`), finished by the bridge after the kill (`OrphanImports`,
`OrphanSyncs`). `Close` is the close that `with_session` always makes. The user
posts on any day at any moment. Amounts are abstracted: whether the interest
rounds to zero is a free choice, but an empty base has none. The dates are kept,
because they decide what is found: the transaction is dated like the last one
(`plan`), looked up on that date, and its base is what lies before the cutoff.
`importTransactions` adds the run's transaction, or takes it for a similar one that
the account has, of whatever day, which `importTransaction` accepts as well
(`result.updated[0]`, `index.js:837-841`): `ImportLocally` is any of these, `named`
is the transaction whose id is answered. What is similar is for the library to say,
so any transaction may be; a user's own may get the payee of interest by it, and
then is interest, marked `Matched`.

### Daemon

Time goes by in instants, a tick at the start of one. Cron expressions are sets
of ticks. `RunSucceeds` and `Save` are the two halves of recording a run: the
state in memory with the truncated file, then the written file. `missed` is
`missed_kinds`, `jobs` counts runs in progress, which the scheduler may start
while others still run. `boot`, `started`, `begun`, `unsaved` are history.

### SetBalance

`stage` is the request a run is at, `chosen` the name that
`resolve_account_name` hands on (a name, also of an account picked from the
list), `account` what `ReconcileService::plan` found under it, `seen` the
transactions in the balance it read. Names are keys: case and blanks around them
make no difference. Amounts are kept. The user posts, and closes accounts, at any
moment. `Refused`, `Poisoned`, `Close` and `Crash` are as in `InterestRuns`.

### ManagedBridge

The content of a file is the version it came from. `write_if_changed` is `Compare`,
`Create`, `Fill`, `Rename`: `fs::write` truncates before it writes, and a
descriptor follows its file when the name is renamed (`fd`, `Renamed`). `npm ci`
reads the lock file when it begins, goes on when its parent is killed, and leaves
anything when installs have `overlapped`. The stamp is written like the other files,
after it. The user deletes the directory as `README.md` of the repository says.

### Settings

`Begin`, `Copy`, `LookAtConfig` and `WriteStub` are `init`, which may die after each
step; `own` is a `--from` that names the directory it writes to, whose `base.toml`
`fs::copy` then empties. A command is not a step: `Load(e, cwd)` is what one gets that
starts now in an environment `e` (`ABH_CONFIG_FILE`, `ABH_CONFIG_DIR`, a directory
next to the binary, a home, variables, secret files) and a working directory. Five
keys stand for all: `server_url` and `password` are required and set by the user,
`rate` is required and has a shipped default, `payee_name` has a shipped default
and one in the code, `cache_dir` has one in the code only. The paths that settings hold are absolute.

### Recurrence, BudgetSummary, BudgetReport

`Recurrence` computes with days since 1970 and months since year 0 what chrono does,
with sets where the code walks and breaks: its periods come in order, so that
stopping at the first late one leaves out all late ones. A list that the code filters
is a family over the positions of the list it came from: what is left keeps its
position, and two equal rows stay two. `BudgetSummary` is
`compute_salary`, `compute_expenses`, `build` of both reports, in cents; a quotient
that the code takes in `f64` is exact, and rounded half away from zero. A category
`mentions` the persons its name contains. `BudgetReport` is `resolve_budget_data`,
request by request: each may be refused or fatal, and a failed projection goes on.
Categories are one list, each with the record of its group. A `world` is what Actual and the settings hold. Percentages, rendering, a command
without persons and a month that does not parse are left out.

## What TLC checks

| Run | Properties | Instance |
|---|---|---|
| `session` | `TypeOK`, `AckedWritesOnServer`, `RejectedWritesNotApplied`, `ClosedSessionHasNoBridge`, `CleanCloseLosesNothing`, `OneRequestInFlight`, `ImplementsContract` | 2 callers, 4 ids, symmetric |
| `session_live` | `EveryCallReturns` | 2 callers, 3 ids |
| `lock` | `OnlyOrphansShare`, `LockHeldByItsSession`, `LockIsReleased` | daemon with 2 jobs, 2 CLI commands, one of which asks its user; all may be killed |
| `interest_once` | `TypeOK`, `OncePerDay` | 3 runs (one dry), one data dir, 4 days, kills |
| `interest_report` | `ReportedInterestIsOnServer` | 2 runs (one forced), two data dirs, 4 days, kills with orphans |
| `daemon` | `FileIsCurrent`, `TicksAreFollowed`, `SchedulerStarts` | 2 kinds, 5 instants, ticks {1, 3} and {3} |
| `set_balance` | `TypeOK`, `CorrectionsSeeEachOther`, `ReportedBalanceHolds` | 2 live runs (one with a terminal) and a dry one, 3 accounts, two of one name, the user posts once and closes accounts, kills |
| `set_balance_pick` | `PickIsHonoured` is violated | the same without kills |
| `install` | `TypeOK`, `NoTornFile`, `StampOfLastInstall`, `ReadyBridgeIsOwn` | processes of 2 versions, any number of sessions each, kills, a user who deletes |
| `install_torn` | `NoTornFile` is violated | 2 jobs of one daemon, no kills |
| `report` | `TypeOK`, `SuccessMeansResolved`, `MonthsMakeTheYear`, `AnnualizedIsTheYearsAverage`, `SharesPayTheTotal`, `ReportsAgree` | both reports on schedules of every frequency, interval, end and weekend rule, and on every mix of categories of two persons |
| `settings` | `TypeOK`, `OverridesReach`, `RefreshReaches`, `ExportsTakeEffect`, `OneReplica` | 2 versions, 4 edits, 432 environments, 2 working directories |

What the new questions are:

- Set-balance. `CorrectionsSeeEachOther`: of two corrections of an account, one
  was computed from a balance that holds the other, also after a retry of a run
  that failed or was killed after its write. `ReportedBalanceHolds`: what a run
  read and wrote adds up to its target on the server.
- Lock. `LockIsReleased`: whoever holds the lock lets it go, by closing, by failing
  or by dying, or is waiting for its user. A user who does not answer keeps the lock,
  and jobs of the daemon and other commands fail at their deadline meanwhile.
- Interest. `ReportedInterestIsOnServer`: the transaction that a run names when it
  reports interest as applied is on the server, and interest that it reports as there
  already is there for that day. It does not say that the transaction named is of that
  day, or is interest: an import that matched has added nothing.
- Install. `NoTornFile`, `StampOfLastInstall` and `ReadyBridgeIsOwn` relate files,
  stamp and modules over installs that fail or die anywhere. The last two speak of
  installs that never overlapped: with overlaps they are false, and nothing in the
  repository promises them. `ReadyBridgeIsOwn` promises the three files of the binary
  that got the bridge, always, and its modules only if no other version's `npm ci` has
  begun after its own: an older `abh` after an upgrade whose `npm ci` failed gets a
  bridge that need not have its modules (see below).
- Report. `SuccessMeansResolved`: a command that ends well has every amount it
  promises, though failed projections go on and the session is closed after the
  report was made. `MonthsMakeTheYear` and `AnnualizedIsTheYearsAverage` compare
  the paydays and amounts month by month with the whole year, so that a weekend
  rule neither loses a payday nor counts it twice; `SharesPayTheTotal` and
  `ReportsAgree` compare the sums of the two reports. The average is of a `Steady`
  schedule: one that began before the year, is followed beyond it, has as many dates
  in each period, and has no two dates that a weekend makes one payday. In the
  instance every frequency has steady schedules with a weekend rule, and there are
  monthly ones with two patterns.
- Settings. A key that is set where the user may set it reaches the commands
  (`OverridesReach`, `ExportsTakeEffect`), `init --force` brings new defaults
  without touching overrides (`RefreshReaches`), and all commands of a user name
  one replica (`OneReplica`).

Bounds. `MaxId` (a guard of `Begin` and `BeginClose`) limits a session to the
open and three more requests: enough for an abandoned write, a second write that
meets its answer, and a close, of two callers in any order. Three days are the
fewest with a non-empty base before the cutoff; a fourth gives interest on two
days. `LastTime` leaves an instant after the last tick, so that a run of it, a
kill and a restart fit in; kia's second tick coincides with mortgage's. The runs
of `SetBalance` are started once each: a retry is another run. One post of the
user between two runs is what makes a balance stale; three accounts give a name
that is unique and one that is not. Two installs are what overlaps; sessions of
`ManagedBridge` go on for ever. `MaxPeriods` is the code's `MAX_PERIODS` (20 000)
made small: 120 periods are more than any schedule of the instance needs in its
years, so that, as in the code, it is a guard against endless loops and no
schedule meets it. In `BudgetLock` nothing is bounded.

Deadlock is not checked where everything may end for good: a session that was
dropped (`session`, `session_live`), runs that have all ended (`set_balance`,
`set_balance_pick`), a report that was printed (`report`).

Fairness. `BridgeSession`: every step of a caller is strongly fair, for tokio's
mutex is FIFO and its timers fire; nothing is assumed of the bridge, nor of when
callers  that can go on goes on, for
each of its waits is bounded by a timeout, and an orphan ends, for its handlers
and its shutdown have timeouts and end of file stops its loop. `Daemon`:
catch-up, runs and scheduler go on, for runs are bounded by the timeouts below.
Kills, cancellation, failures and the user are never fair. The other modules
state no liveness: their runs are sequences of requests that the session bounds.

### Where the code and its documents disagree

Two properties state what a comment says, and TLC finds executions of the
code's model that violate them (`PROJECT.json`, "findings"):

- `PickIsHonoured` (`set_balance.rs:118-120`): of two open accounts of one name,
  the user may pick one; the picker hands on the name, and
  `reconcile.rs:134-147` finds it ambiguous.
- `NoTornFile` (`managed_bridge.rs:91-93`) for two jobs of one daemon: they share
  the temporary name, and one renames what the other has just truncated.

Seen while modelling, and not given a run, as each is one sentence against one
line, and shows in the actions:

- `lock.rs:1-5`: a killed `abh` frees the lock while its bridge still has the
  replica open. `OnlyOrphansShare` is what holds, and `Exclusion` without kills.
- `index.js:20-22`: a write whose sync failed stays in the replica (`SyncWrite`),
  and the sync of a later session pushes it.
- `commands/interest.rs:16-17`: a forced run is to post "even if one already exists",
  and a run that reports interest as applied is taken to have posted it. The import may
  match a transaction that is there, the interest that `--force` is to add to included:
  then nothing is added, and the run reports it as applied (`ImportLocally`, `named`).
- `managed_bridge.rs:146-147`: the stamp records "that `node_modules` now matches it",
  but stays when a later version's `npm ci` has begun anew and failed. The
  older `abh`, started again, finds its stamp and skips `npm ci` (`NpmFails`,
  `NeedsNpm`).
- `docs/logging.md:16`: an error is logged though the interest has reached the
  server (`SyncImport` of `InterestRuns`, its fatal outcome).
- `commands/interest.rs:12`: the syncs of a dry run push what an earlier run left
  in the replica (`Open`).
- `daemon.rs:352`: a tick that passes during catch-up retries nothing, as the
  scheduler starts after it.
- `budget_data.rs:164` logs "falling back to budgeted" for a projection that is
  refused; without `use_budgeted_fallback` the amount is 0, in a report that ends
  well, while `client.rs:61-64` promises `budgeted` to a category without a goal.
- `commands/budget_summary.rs:14` calls the annualized income a calendar-year
  average. It is that of a `Steady` schedule (`AverageOfTheYear`); of one that ends,
  or of a daily one that skips weekends, `canonical_occurrences_per_year` counts 365
  days a year all the same (`Annualized`).

## What TLAPS proves

All theorems hold for any number of callers, tasks, runs, days, ticks, versions
and ids; they assume only the named ASSUMEs of the modules (a value for "nobody"
that is not a task, a total order of the kinds, and the like) and what their
statement says.

- `BridgeSession_proofs`: `TypeCorrect`, `AckedWritesArrive`,
  `NoBridgeAfterClose`, `CleanClose`. The inductive invariant `SessionInv` adds
  to these properties what they rest on: the holder of the mutex is the one
  caller that awaits (`HolderAwaits`); whoever else is anywhere carries an id
  below `nextId` (`IdsIssued`); so whatever carries the id of the awaited request
  is that request (`SameRequest`), and an Ok frame with that id tells the truth
  (`OkFramesTrue`) however many abandoned requests are in the pipes. `CleanClose`
  rests on `BridgeStages`: a handler goes on late only in a loop that was stopped
  by its own fatal answer, and such a loop never answers `close`.
- `BridgeSession_proofs` also: `RejectedStaysOut`, `OneAtATime`, and
  `SessionImplementsContract`, the refinement. To `SessionInv` they add `OrderInv`:
  the ids in the pipes increase (`PipesInOrder`), so that what was written
  carries no later id than the request in hand (`WritesInOrder`), an error frame
  that is not fatal tells the truth (`ErrorFramesTrue`), and, while no call is
  abandoned, everything in flight is of the holder (`OwnRequestOnly`) and the
  bridge is past whatever was rejected (`RejectedIsOver`).
- `DataDir_proofs`, the lock: `LockTypeCorrect`, `HolderIsAlive`,
  `SharingNeedsOrphan`, and `Exclusion` (if no process can be killed, at most one
  bridge runs on the replica). The inductive step is that a child's task is in a
  holding stage, hence owns the lock, hence is the only one.
- `DataDir_proofs`, the settings: `SettingsNameOneReplica`, for where both
  directories give settings that work, they are the same layers; `TypeCorrect`,
  `WhatIsWrittenReaches`, `DefaultsReach`, `ExportsWin`. Their invariant `FilesInv`
  says what inits leave in the two files: what the user has written is in
  `config.toml` (`WrittenIsThere`), for a file that an init is still writing was
  absent or given up before (`HalfWritten`), and `base.toml` is of the version that
  copied it last (`FreshBase`). From the files to a command it is what the layers of
  `Merged` give for one key.
- `InterestRuns_proofs`: `TypeCorrect`; `InterestOncePerDay` for runs of one
  data dir whose bridges die with them; `ReportsAreTrue` for any data dirs and
  orphans, whatever an import takes the run's transaction for. The invariant of the second, `OnceInv`, says that one run is at work
  (`OneActive`), that what it found missing is missing until it posts
  (`FoundNothing`), that interest gets to the server through the replica
  (`InterestIsLocal`), and that the replica has no day twice (`OnceLocally`). That
  of the third, `ReportInv`, follows each run from what it found or its import named to
  its report, and rests on ledgers that only grow (`LedgersGrow`).
- `SetBalance_proofs`, for one data dir whose bridges die with their runs (as in the
  module): `TypeCorrect`, `NoDoubleCorrection`, `ReportsHold`. `CorrectInv` says that
  one run is at work, that corrections are in the replica before they are anywhere
  else (`CorrectionIsLocal`), and that a run about to write has seen every correction
  of its account there (`FreshBalance`), for `open_session` synced and the lock
  keeps the others out. `BalanceInv` adds what each run stands by (`Stands`): one
  that has nothing to add has read its target, a correction is in the replica from
  the moment it is written, and once the session is closed what was read and
  written is on the server. Balances are sums over ledgers, of which it needs that
  they are integers (`TypeInv`) and that one more transaction adds its amount.
- `ManagedBridge_proofs`: `TypeCorrect`; `NoReaderSeesTorn` when a process installs
  one bridge at a time (`OneInstallEach`), as a temporary file is then its own;
  `StampIsTrue` and `BridgeHandedOutIsOwn` for any processes. Their invariant
  `InstallInv` speaks of installs that have not overlapped: one is under way at
  most (`Alone`), what it has behind it is written (`FilesWritten`), `npm` begins
  only without a stamp of its version, and a stamp is written only after it
  (`NpmInHand`). `StampTruth` is `StampOfLastInstall` without "none is under way",
  and is what a step preserves.
- `Daemon_proofs`: `TypeCorrect`, `RestartForgetsNothing`, `NoTickIsLost` (with
  `MissedIsKnown`: during catch-up, what is not in `missed` has been followed).
- `BudgetReport_proofs`: `TypeCorrect`, `SuccessIsResolved`, `NoPaydayIsLost`,
  `AverageOfTheYear`, `SharesAreEnough`, `OneStory`, for any worlds of which
  `WorldsAssumption` says that lists are lists and amounts are integers. The
  invariant `ReportInv` follows the answers: persons and schedules are finitely
  many and of their types (`PersonsInv`, `SchedulesInv`), incomes are sums of
  integers (`TotalsInv`, `BudgetersInv`), as long as no request was fatal only
  refusals account for a category without its goal (`MissedInv`), and a command that
  ended well had all categories and a session that was not poisoned (`SuccessInv`).
  The equations of the reports then follow from the state: categories fall into those
  a budgeter mentions and those none does, or into groups and the kinds of a group,
  and each part of a finite set is counted once. `SharesAreEnough` adds up one
  rounding error per budgeter. `NoPaydayIsLost` is that the months of a year are its
  days. `AverageOfTheYear` counts the periods that may have a payday in the year and
  those that must, from the lengths of months and of leap years and the two days that
  a weekend moves a date; a daily schedule with a weekend rule is shown not to be
  `Steady`.
- `Sums` has what these need about data. `SumFunctionOnSet` and `Cardinality` are
  defined by recursion; instead of induction, which needs an operator as a parameter,
  its proofs take a smallest counterexample among the subsets of the set
  (`SmallestSubset`), and show that a sum exists and does not depend on an order
  (`SumUnrolls`), splits along a partition (`SumOfParts`), and how far a sum of
  rounded numbers is from the rounded sum (`SumError`). `PointsInWindow` counts the
  points of an arithmetic progression in an interval.

Only model-checked: liveness (`EveryCallReturns`, `LockIsReleased`, `SchedulerStarts`),
which is beyond the prover. Every safety property of a passing
run is a theorem, those with conditions on the code's environment under the
conditions that the run and the property name. The theorems on reports are about the
operators of `Recurrence` and `BudgetSummary`, which are read from the code.

## Not modelled

The single-shot mode of the bridge (kept for debugging), the encoding of arguments
and results in the client facade, the HTTP server, databases, telemetry and
rendering. The amounts and rates of interest, and percentages in reports: what
happens to the amounts, and not what they are, is hard to test. The date of a
correction, which with `--date` may lie after the day of the balance. A kill is one
step: a request that the bridge has under way over the network when it is killed counts
as done before or not at all. The parsing of
notes, of TOML, of cron expressions, of months and of money. The two cron libraries
and the Actual API are external: their effects are modelled from how the code uses
them.

## Plan

What is left, in this order:

1. The amount of interest and its cutoff as operators, on cents, against a
   reference definition over bounded ledgers.
2. Set-balance and interest on one ledger: a correction is a transaction, and the
   last transaction decides the date of interest.
3. Several data dirs and orphans in `SetBalance`, where `CorrectionsSeeEachOther`
   needs the same assumptions as `OncePerDay`.
4. What `InterestRuns` and `SetBalance` promise of a ledger as one abstract
   specification, and the proof that both implement it.
