---------------------------- MODULE InterestRuns ----------------------------
(***************************************************************************)
(* Runs of InterestService (ab-helpers-server, services/actual/interest.rs)*)
(* on one loan account: each is one with_session (config/settings.rs) made *)
(* by a CLI command or a daemon tick, which plans from the local replica,  *)
(* posts an interest transaction dated like the last one of the account,   *)
(* and closes.  Meanwhile the user posts payments on the server.           *)
(*                                                                         *)
(* The session is reduced to what it does to the replica and the server,   *)
(* and BudgetLock to the exclusion it gives to the runs of one data dir;   *)
(* modules BridgeSession and BudgetLock have their inside.  Amounts are    *)
(* abstracted: whether the interest rounds to zero is a free choice, but   *)
(* for an empty base.                                                      *)
(***************************************************************************)
EXTENDS Integers, FiniteSets

CONSTANTS
    Runs,      \* with_session calls
    DirOf,     \* the data dir of each
    Forced,    \* those with --force
    Dry,       \* those with --dry-run
    User,      \* who posts the other transactions
    Matched,   \* marks those that an import has made interest
    LastDay,   \* dates are 1..LastDay
    CanCrash,  \* may a run be killed?
    Detached   \* does its bridge outlive it?

ASSUME RunsAssumption == /\ User \notin Runs /\ Matched \notin Runs \cup {User}
                         /\ Forced \subseteq Runs /\ Dry \subseteq Runs
ASSUME LastDayAssumption == LastDay \in Nat \ {0}
ASSUME CrashAssumption == CanCrash \in BOOLEAN /\ Detached \in BOOLEAN

VARIABLES
    server,   \* the account's transactions on the Actual server
    replica,  \* those in each data dir
    stage,    \* the request each run is at
    plan,     \* last_tx.date of each run
    named,    \* the transaction whose id its import has answered, if any
    result,   \* what its closure returned, then what with_session returns
    orphan    \* the request the bridge of a killed run is still at

vars == <<server, replica, stage, plan, named, result, orphan>>

Days == 1..LastDay
NoDate == 0
Dirs == {DirOf[r] : r \in Runs}
Transactions == [date : Days, by : Runs \cup {User, Matched}]

Reading == {"account", "last", "find", "balance"}
Writing == {"payee", "import", "syncing"}
Active == {"locked", "closing"} \cup Reading \cup Writing
Planned == {"find", "balance", "syncing", "payee", "import"}

Results == {"none", "applied", "already", "nothing", "preview", "error"}

\* The interest transactions of a ledger on a day.
Interest(ledger, d) == {t \in ledger : t.date = d /\ t.by # User}

TypeOK ==
    /\ server \subseteq Transactions
    /\ replica \in [Dirs -> SUBSET Transactions]
    /\ stage \in [Runs -> {"new", "ended", "dead"} \cup Active]
    /\ plan \in [Runs -> Days \cup {NoDate}]
    /\ named \in [Runs -> SUBSET Transactions]
    /\ result \in [Runs -> Results]
    /\ orphan \in [Runs -> {"none", "import", "syncing"}]
    /\ \A r \in Runs :
          stage[r] \in Planned \/ orphan[r] # "none" => plan[r] \in Days

Init ==
    /\ server = {}
    /\ replica = [d \in Dirs |-> {}]
    /\ stage = [r \in Runs |-> "new"]
    /\ plan = [r \in Runs |-> NoDate]
    /\ named = [r \in Runs |-> {}]
    /\ result = [r \in Runs |-> "none"]
    /\ orphan = [r \in Runs |-> "none"]

----------------------------------------------------------------------------
(* What the bridge does to the two copies of the budget.                   *)

Merged(d) == server \cup replica[d]

\* api.sync(), and the sync in api.downloadBudget(): both sides get all.
Sync(d) ==
    /\ server' = Merged(d)
    /\ replica' = [replica EXCEPT ![d] = Merged(d)]

\* A sync that fails may have reached the server.
SyncFails(d) ==
    /\ server' \in {server, Merged(d)}
    /\ UNCHANGED replica

\* importTransaction before its sync.  api.importTransactions adds the run's
\* transaction, or takes it for a similar one that is there, of any day: then
\* it adds none, and may give the user's transaction the payee of interest.
\* `t` is the one whose id is answered, result.added[0] or result.updated[0].
Posted(r) == [date |-> plan[r], by |-> r]
Candidates(r) == replica[DirOf[r]] \cup {Posted(r)}
Gain(r, t) == replica' = [replica EXCEPT ![DirOf[r]] = @ \cup {t}]
ImportLocally(r, t) ==
    \/ t = Posted(r) /\ Gain(r, t)
    \/ /\ t \in replica[DirOf[r]]
       /\ \/ UNCHANGED replica
          \/ t.by = User /\ Gain(r, [t EXCEPT !.by = Matched])

----------------------------------------------------------------------------
(* A run.                                                                  *)

\* Variant: no advisory lock.
NoLock(d) == TRUE
LockFree(d) == \A s \in Runs : DirOf[s] = d => stage[s] \notin Active

Goto(r, there) == stage' = [stage EXCEPT ![r] = there]
Return(r, value) ==
    /\ result' = [result EXCEPT ![r] = value]
    /\ Goto(r, "closing")

\* bridge_config(), the lock, the spawned bridge: all may fail.
Lock(r) ==
    /\ stage[r] = "new"
    /\ \/ LockFree(DirOf[r]) /\ Goto(r, "locked") /\ UNCHANGED result
       \/ /\ Goto(r, "ended")
          /\ result' = [result EXCEPT ![r] = "error"]
    /\ UNCHANGED <<server, replica, plan, named, orphan>>

Open(r) ==
    /\ stage[r] = "locked"
    /\ \/ Sync(DirOf[r]) /\ Goto(r, "account") /\ UNCHANGED result
       \/ /\ SyncFails(DirOf[r])
          /\ Goto(r, "ended")
          /\ result' = [result EXCEPT ![r] = "error"]
    /\ UNCHANGED <<plan, named, orphan>>

\* list_accounts and get_account_note; a closed account is skipped.
ReadAccount(r) ==
    /\ stage[r] = "account"
    /\ \/ Goto(r, "last") /\ UNCHANGED result
       \/ Return(r, "nothing")
    /\ UNCHANGED <<server, replica, plan, named, orphan>>

\* Variant: an account without transactions goes on.
ReadLastOfEmpty(r) ==
    /\ stage[r] = "last"
    /\ plan' = [plan EXCEPT ![r] =
                  IF replica[DirOf[r]] = {} THEN NoDate
                  ELSE CHOOSE d \in {t.date : t \in replica[DirOf[r]]} :
                          \A t \in replica[DirOf[r]] : t.date <= d]
    /\ Goto(r, IF r \in Forced THEN "balance" ELSE "find")
    /\ UNCHANGED <<server, replica, named, result, orphan>>

ReadLast(r) ==
    /\ stage[r] = "last"
    /\ \/ \E last \in replica[DirOf[r]] :
             /\ \A t \in replica[DirOf[r]] : t.date <= last.date
             /\ plan' = [plan EXCEPT ![r] = last.date]
             /\ Goto(r, IF r \in Forced THEN "balance" ELSE "find")
             /\ UNCHANGED result
       \/ /\ replica[DirOf[r]] = {}
          /\ Return(r, "error")
          /\ UNCHANGED plan
    /\ UNCHANGED <<server, replica, named, orphan>>

\* find_transaction: same account, same date, the configured payee.
\* Variant: the date is left out of the query.
ExistingOfPayee(r) == {t \in replica[DirOf[r]] : t.by # User}
Existing(r) == Interest(replica[DirOf[r]], plan[r])

FindExisting(r) ==
    /\ stage[r] = "find"
    /\ \/ Existing(r) # {} /\ Return(r, "already")
       \/ Existing(r) = {} /\ Goto(r, "balance") /\ UNCHANGED result
    /\ UNCHANGED <<server, replica, plan, named, orphan>>

\* get_balance_at(cutoff) is what was there before the cutoff, the day before
\* the last transaction.
CutoffFor(date) == date - 1
Base(r) == {t \in replica[DirOf[r]] : t.date < CutoffFor(plan[r])}

Compute(r) ==
    /\ stage[r] = "balance"
    /\ \/ Return(r, "nothing")
       \/ /\ Base(r) # {} /\ r \notin Dry
          /\ Goto(r, "payee") /\ UNCHANGED result
       \/ Base(r) # {} /\ r \in Dry /\ Return(r, "preview")
    /\ UNCHANGED <<server, replica, plan, named, orphan>>

\* ensure_payee is a write operation too: it syncs.
EnsurePayee(r) ==
    /\ stage[r] = "payee"
    /\ Sync(DirOf[r])
    /\ Goto(r, "import")
    /\ UNCHANGED <<plan, named, result, orphan>>

ImportTransaction(r) ==
    /\ stage[r] = "import"
    /\ \E t \in Candidates(r) :
          ImportLocally(r, t) /\ named' = [named EXCEPT ![r] = {t}]
    /\ Goto(r, "syncing")
    /\ UNCHANGED <<server, plan, result, orphan>>

SyncImport(r) ==
    /\ stage[r] = "syncing"
    /\ Sync(DirOf[r])
    /\ Return(r, "applied")
    /\ UNCHANGED <<plan, named, orphan>>

\* A request is refused, or the import answers no id: the session goes on, and
\* closes.
Refused(r) ==
    /\ stage[r] \in Reading \cup {"payee", "import"}
    /\ Return(r, "error")
    /\ UNCHANGED <<server, replica, plan, named, orphan>>

\* A request fails fatally or times out: the session is poisoned, and close()
\* kills its bridge, whatever that got done.
Poisoned(r) ==
    /\ stage[r] \in Reading \cup Writing
    /\ Goto(r, "ended")
    /\ result' = [result EXCEPT ![r] = "error"]
    /\ \/ UNCHANGED <<server, replica>>
       \/ stage[r] \in Writing /\ SyncFails(DirOf[r])
       \/ /\ stage[r] = "import"
          /\ \E t \in Candidates(r) : ImportLocally(r, t)
          /\ server' \in {server, server \cup replica'[DirOf[r]]}
    /\ UNCHANGED <<plan, named, orphan>>

\* close() syncs; its failure is the outcome, unless the closure failed.
Close(r) ==
    /\ stage[r] = "closing"
    /\ Goto(r, "ended")
    /\ \/ Sync(DirOf[r]) /\ UNCHANGED result
       \/ /\ SyncFails(DirOf[r])
          /\ result' = [result EXCEPT ![r] = "error"]
    /\ UNCHANGED <<plan, named, orphan>>

----------------------------------------------------------------------------
(* Kills, orphans, and the user.                                           *)

Crash(r) ==
    /\ CanCrash /\ stage[r] \in Active
    /\ Goto(r, "dead")
    /\ \/ UNCHANGED <<server, replica>>
       \/ stage[r] \in {"locked", "closing"} \cup Writing /\ SyncFails(DirOf[r])
    /\ orphan' = [orphan EXCEPT ![r] =
                    IF Detached /\ stage[r] \in {"import", "syncing"}
                    THEN stage[r] ELSE "none"]
    /\ UNCHANGED <<plan, named, result>>

\* The bridge of a killed run finishes its request, or does not.
OrphanImports(r) ==
    /\ orphan[r] = "import"
    /\ \E t \in Candidates(r) : ImportLocally(r, t)
    /\ orphan' = [orphan EXCEPT ![r] = "syncing"]
    /\ UNCHANGED <<server, stage, plan, named, result>>

OrphanSyncs(r) ==
    /\ orphan[r] # "none"
    /\ orphan' = [orphan EXCEPT ![r] = "none"]
    /\ Sync(DirOf[r]) \/ SyncFails(DirOf[r])
    /\ UNCHANGED <<stage, plan, named, result>>

\* Any day, in any order: the user may back-date.
UserPosts(d) ==
    /\ server' = server \cup {[date |-> d, by |-> User]}
    /\ UNCHANGED <<replica, stage, plan, named, result, orphan>>

RunStep(r) ==
    \/ Lock(r) \/ Open(r) \/ ReadAccount(r) \/ ReadLast(r) \/ FindExisting(r)
    \/ Compute(r) \/ EnsurePayee(r) \/ ImportTransaction(r) \/ SyncImport(r)
    \/ Refused(r) \/ Poisoned(r) \/ Close(r)

Next ==
    \/ \E r \in Runs : RunStep(r) \/ Crash(r) \/ OrphanImports(r) \/ OrphanSyncs(r)
    \/ \E d \in Days : UserPosts(d)

Spec == Init /\ [][Next]_vars

----------------------------------------------------------------------------
(* Properties.  A `Variant` above is a definition with a mistake that one  *)
(* of them must catch; no specification uses it.                           *)

Everywhere == server \cup UNION {replica[d] : d \in Dirs}

\* Without --force, a day gets interest once: two runs in either order, a run
\* repeated after a failed sync, after a kill, or after an answer that never
\* came (interest.rs:117-129, lock.rs:1-5).  For the runs of one data dir,
\* with bridges that do not outlive their runs.
OncePerDay ==
    \A t, u \in Everywhere :
        /\ t.by \in Runs \ Forced /\ u.by \in Runs \ Forced
        /\ t.date = u.date
        => t = u

\* A run that reports is right: the transaction that it names as interest is
\* on the server, and where it says that interest was there already, interest
\* for that day is (settings.rs:272-294, interest.rs:117-129).  The transaction
\* named need not be of that day, nor be interest: the import may have taken
\* the run's own for it (index.js:837-841).
ReportedInterestIsOnServer ==
    \A r \in Runs :
        stage[r] = "ended" =>
            /\ result[r] = "applied" => named[r] # {} /\ named[r] \subseteq server
            /\ result[r] = "already" => Interest(server, plan[r]) # {}
=============================================================================
