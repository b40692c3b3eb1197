----------------------------- MODULE SetBalance -----------------------------
(***************************************************************************)
(* Runs of `abh set-balance` (commands/set_balance.rs and ReconcileService,*)
(* services/actual/reconcile.rs) on one data dir: each finds an account by *)
(* name, reads its balance from the local replica, and posts what is       *)
(* missing to the target.  Meanwhile the user posts transactions and       *)
(* closes accounts on the server.                                          *)
(*                                                                         *)
(* A transaction has no key of its own that a retry could look for: that   *)
(* two runs do not correct the same difference twice rests on what each of *)
(* them has read.  `seen` remembers that.  The session is reduced as in    *)
(* InterestRuns; names that differ in case or in blanks around them have   *)
(* one `Key`.                                                              *)
(***************************************************************************)
EXTENDS Integers, FiniteSets, Functions

CONSTANTS
    Runs,       \* calls of the command
    Query,      \* the account each asks for, as a key
    Target,     \* the balance each asks for
    Terminal,   \* the runs with a terminal, which may ask the user
    Dry,        \* those with --dry-run
    Accounts,
    Key,        \* the name of each account, as a key
    Posts,      \* the transactions that the user may post
    Amounts,    \* their amounts
    None,
    CanCrash    \* may a run, and its bridge with it, be killed?

ASSUME RunsAssumption == Terminal \subseteq Runs /\ Dry \subseteq Runs
ASSUME TargetAssumption == Amounts \subseteq Int /\ \A r \in Runs : Target[r] \in Int
ASSUME NoneAssumption ==
    /\ None \notin Accounts /\ Runs \cap Posts = {}
    /\ \A a \in Accounts : Key[a] # None
    /\ \A r \in Runs : Query[r] # None

VARIABLES
    server,   \* transactions and closed accounts, on the Actual server
    replica,  \* the same, in the data dir
    stage,    \* the request each run is at
    chosen,   \* the name it goes on with
    picked,   \* the runs that have asked their user
    account,  \* the account found under that name
    seen,     \* the transactions in the balance it has read
    result    \* what its closure returned, then what with_session returns

vars == <<server, replica, stage, chosen, picked, account, seen, result>>

Keys == {Key[a] : a \in Accounts} \cup {Query[r] : r \in Runs}

\* Money is in cents; nothing in the code bounds it but i64.
Transactions == [by : Runs \cup Posts, account : Accounts, amount : Int]

Reading == {"resolve", "match", "balance"}
Writing == {"add", "syncing"}
Active == {"locked", "closing"} \cup Reading \cup Writing
Reported == {"already", "adjusted"}
Results == {"none", "preview", "notfound", "ambiguous", "error"} \cup Reported

Total(ledger, a) ==
    SumFunctionOnSet([t \in ledger |-> t.amount], {t \in ledger : t.account = a})

TypeOK ==
    /\ \A copy \in {server, replica} :
          /\ copy.closed \subseteq Accounts
          /\ \A t \in copy.txs : t \in Transactions
    /\ stage \in [Runs -> {"new", "ended", "dead"} \cup Active]
    /\ chosen \in [Runs -> Keys \cup {None}]
    /\ picked \subseteq Terminal
    /\ account \in [Runs -> Accounts \cup {None}]
    /\ \A r \in Runs : \A t \in seen[r] : t \in Transactions
    /\ result \in [Runs -> Results]
    /\ \A r \in Runs : stage[r] \in Writing \cup {"balance"} => account[r] # None

Init ==
    /\ \E closed \in SUBSET Accounts :
          /\ server = [txs |-> {}, closed |-> closed]
          /\ replica = server
    /\ stage = [r \in Runs |-> "new"]
    /\ chosen = [r \in Runs |-> None]
    /\ picked = {}
    /\ account = [r \in Runs |-> None]
    /\ seen = [r \in Runs |-> {}]
    /\ result = [r \in Runs |-> "none"]

----------------------------------------------------------------------------
(* What the bridge does to the two copies of the budget.                   *)

Merged == [txs |-> server.txs \cup replica.txs, closed |-> server.closed]
Sync == server' = Merged /\ replica' = Merged
SyncFails == server' \in {server, Merged} /\ UNCHANGED replica

\* addTransaction before its sync, with what is missing to the target.
\* Variant: with the difference the wrong way round.
CorrectionReversed(r) ==
    [by |-> r, account |-> account[r],
     amount |-> Total(seen[r], account[r]) - Target[r]]
Correction(r) ==
    [by |-> r, account |-> account[r],
     amount |-> Target[r] - Total(seen[r], account[r])]
WithCorrection(r) == [replica EXCEPT !.txs = @ \cup {Correction(r)}]

----------------------------------------------------------------------------
(* Names.                                                                  *)

Open == Accounts \ replica.closed
Matches(key) == {a \in Open : Key[a] = key}

Found(key) == Cardinality(Matches(key)) = 1
Refusal(key) == IF Matches(key) = {} THEN "notfound" ELSE "ambiguous"

\* The picker shows the accounts that matched, or, if none did, all.
Options(key) == IF Matches(key) = {} THEN Open ELSE Matches(key)

----------------------------------------------------------------------------
(* A run.                                                                  *)

Goto(r, there) == stage' = [stage EXCEPT ![r] = there]
Return(r, value) == Goto(r, "closing") /\ result' = [result EXCEPT ![r] = value]
Fail(r) == Goto(r, "ended") /\ result' = [result EXCEPT ![r] = "error"]

\* Variant: no advisory lock.
NoLock == TRUE
LockFree == \A s \in Runs : stage[s] \notin Active

Lock(r) ==
    /\ stage[r] = "new"
    /\ \/ LockFree /\ Goto(r, "locked") /\ UNCHANGED result
       \/ Fail(r)
    /\ UNCHANGED <<server, replica, chosen, picked, account, seen>>

OpenSession(r) ==
    /\ stage[r] = "locked"
    /\ \/ Sync /\ Goto(r, "resolve") /\ UNCHANGED result
       \/ SyncFails /\ Fail(r)
    /\ UNCHANGED <<chosen, picked, account, seen>>

\* resolve_account_name: what it hands on is a name, also the one picked.
Resolve(r) ==
    /\ stage[r] = "resolve"
    /\ \/ /\ Found(Query[r])
          /\ chosen' = [chosen EXCEPT ![r] = Query[r]]
          /\ Goto(r, "match") /\ UNCHANGED <<picked, result>>
       \/ /\ ~Found(Query[r]) /\ r \in Terminal
          /\ \E a \in Options(Query[r]) : chosen' = [chosen EXCEPT ![r] = Key[a]]
          /\ picked' = picked \cup {r}
          /\ Goto(r, "match") /\ UNCHANGED result
       \/ /\ ~Found(Query[r])  \* no terminal, no option, or the user gives up
          /\ Return(r, Refusal(Query[r]))
          /\ UNCHANGED <<chosen, picked>>
    /\ UNCHANGED <<server, replica, account, seen>>

\* ReconcileService::plan looks the name up again.
\* Variant: of several matches it takes any, of none any account.
MatchAny(r) ==
    /\ stage[r] = "match"
    /\ account' \in {[account EXCEPT ![r] = a] : a \in Matches(chosen[r]) \cup {None}}
    /\ Goto(r, "balance")
    /\ UNCHANGED <<server, replica, chosen, picked, seen, result>>

Match(r) ==
    /\ stage[r] = "match"
    /\ \/ /\ Found(chosen[r])
          /\ account' = [account EXCEPT ![r] = CHOOSE a \in Matches(chosen[r]) : TRUE]
          /\ Goto(r, "balance") /\ UNCHANGED result
       \/ /\ ~Found(chosen[r])
          /\ Return(r, Refusal(chosen[r])) /\ UNCHANGED account
    /\ UNCHANGED <<server, replica, chosen, picked, seen>>

ReadBalance(r) ==
    /\ stage[r] = "balance"
    /\ seen' = [seen EXCEPT ![r] = replica.txs]
    /\ LET missing == Target[r] - Total(replica.txs, account[r])
       IN  \/ missing = 0 /\ Return(r, "already")
           \/ missing # 0 /\ r \in Dry /\ Return(r, "preview")
           \/ missing # 0 /\ r \notin Dry /\ Goto(r, "add") /\ UNCHANGED result
    /\ UNCHANGED <<server, replica, chosen, picked, account>>

AddTransaction(r) ==
    /\ stage[r] = "add"
    /\ replica' = WithCorrection(r)
    /\ Goto(r, "syncing")
    /\ UNCHANGED <<server, chosen, picked, account, seen, result>>

SyncAdd(r) ==
    /\ stage[r] = "syncing"
    /\ Sync
    /\ Return(r, "adjusted")
    /\ UNCHANGED <<chosen, picked, account, seen>>

\* A request is refused, or the sync after the write fails: the session goes
\* on, and closes.
Refused(r) ==
    /\ stage[r] \in Reading \cup Writing
    /\ Return(r, "error")
    /\ UNCHANGED <<server, replica, chosen, picked, account, seen>>

\* A request fails fatally or times out: its bridge is killed, whatever it
\* got done.
Poisoned(r) ==
    /\ stage[r] \in Reading \cup Writing
    /\ Fail(r)
    /\ \/ UNCHANGED <<server, replica>>
       \/ stage[r] = "syncing" /\ SyncFails
       \/ stage[r] = "add" /\ replica' = WithCorrection(r) /\ UNCHANGED server
       \/ /\ stage[r] = "add" /\ replica' = WithCorrection(r)
          /\ server' = [Merged EXCEPT !.txs = @ \cup {Correction(r)}]
    /\ UNCHANGED <<chosen, picked, account, seen>>

Close(r) ==
    /\ stage[r] = "closing"
    /\ \/ Sync /\ Goto(r, "ended") /\ UNCHANGED result
       \/ /\ SyncFails
          /\ IF result[r] \in Reported \cup {"preview"} THEN Fail(r)
             ELSE Goto(r, "ended") /\ UNCHANGED result
    /\ UNCHANGED <<chosen, picked, account, seen>>

Crash(r) ==
    /\ CanCrash /\ stage[r] \in Active
    /\ Goto(r, "dead")
    /\ \/ UNCHANGED <<server, replica>>
       \/ stage[r] \in {"locked", "syncing", "closing"} /\ SyncFails
       \/ stage[r] = "add" /\ replica' = WithCorrection(r) /\ UNCHANGED server
    /\ UNCHANGED <<chosen, picked, account, seen, result>>

----------------------------------------------------------------------------
(* The user of the Actual server.                                          *)

UserPosts(p) ==
    /\ \A t \in server.txs : t.by # p
    /\ \E a \in Accounts \ server.closed, amount \in Amounts :
          server' = [server EXCEPT
                       !.txs = @ \cup {[by |-> p, account |-> a, amount |-> amount]}]
    /\ UNCHANGED <<replica, stage, chosen, picked, account, seen, result>>

UserCloses(a) ==
    /\ server' = [server EXCEPT !.closed = @ \cup {a}]
    /\ UNCHANGED <<replica, stage, chosen, picked, account, seen, result>>

RunStep(r) ==
    \/ Lock(r) \/ OpenSession(r) \/ Resolve(r) \/ Match(r) \/ ReadBalance(r)
    \/ AddTransaction(r) \/ SyncAdd(r) \/ Refused(r) \/ Poisoned(r) \/ Close(r)

Next ==
    \/ \E r \in Runs : RunStep(r) \/ Crash(r)
    \/ \E p \in Posts : UserPosts(p)
    \/ \E a \in Accounts : UserCloses(a)

Spec == Init /\ [][Next]_vars

----------------------------------------------------------------------------
(* Properties.                                                             *)

Everywhere == server.txs \cup replica.txs

\* No difference is corrected twice: of two corrections of an account, one
\* was computed from a balance that holds the other, also when the run of the
\* other has failed, or was killed, before it heard of its success
\* (reconcile.rs:150-152, lock.rs:1-5).
CorrectionsSeeEachOther ==
    \A t, u \in Everywhere :
        /\ t.by \in Runs /\ u.by \in Runs
        /\ t.account = u.account /\ t # u
        => t \in seen[u.by] \/ u \in seen[t.by]

\* When set-balance reports success, the server has the target balance: the
\* transactions that it has read and its own add up to it there
\* (settings.rs:272-294, reconcile.rs:54-72 and 150-158).
ReportedBalanceHolds ==
    \A r \in Runs :
        stage[r] = "ended" /\ result[r] \in Reported
        => Total({t \in server.txs : t \in seen[r] \/ t.by = r}, account[r]) = Target[r]

\* set_balance.rs:118-120: the picker is there for a name that "doesn't match
\* exactly one open account".  Who has picked an account is not told that it
\* is ambiguous.
PickIsHonoured == \A r \in picked : result[r] # "ambiguous"
=============================================================================
