------------------------ MODULE InterestRuns_proofs ------------------------
(***************************************************************************)
(* What InterestRuns guarantees for any number of runs, days and data      *)
(* dirs: the types, and, for the runs of one data dir whose bridges do not *)
(* outlive them, interest at most once a day.                              *)
(***************************************************************************)
EXTENDS InterestRuns, TLAPS

----------------------------------------------------------------------------
(* Types.                                                                  *)

\* The data dir of a run is one.
LEMMA DirOfRun == \A r \in Runs : DirOf[r] \in Dirs
BY DEF Dirs

LEMMA MergedType ==
    ASSUME TypeOK, NEW r \in Runs
    PROVE  Merged(DirOf[r]) \subseteq Transactions
BY DirOfRun DEF TypeOK, Merged

LEMMA PostedType ==
    ASSUME NEW r \in Runs, plan[r] \in Days
    PROVE  Posted(r) \in Transactions
BY DEF Posted, Transactions

\* What an import does to the replica, whichever transaction it names: it adds
\* the run's own, or one marked as matched, or none.
LEMMA ImportGains ==
    ASSUME TypeOK, NEW r \in Runs, NEW t \in Candidates(r), ImportLocally(r, t)
    PROVE  \E gain \in SUBSET {Posted(r), [date |-> t.date, by |-> Matched]} :
              /\ replica' = [replica EXCEPT ![DirOf[r]] = @ \cup gain]
              /\ t \in replica'[DirOf[r]]
<1> DEFINE claimed == [date |-> t.date, by |-> Matched]
<1>1. replica \in [Dirs -> SUBSET Transactions] /\ DirOf[r] \in Dirs
    BY DirOfRun DEF TypeOK
<1>2. CASE t = Posted(r) /\ Gain(r, t)
    <2>1. Posted(r) # claimed
        BY RunsAssumption DEF Posted
    <2>2. {t} \in SUBSET {Posted(r), claimed}
        BY <1>2
    <2> QED BY <1>1, <1>2, <2>1, <2>2 DEF Gain
<1>3. CASE t \in replica[DirOf[r]] /\ UNCHANGED replica
    <2> WITNESS {} \in SUBSET {Posted(r), claimed}
    <2> QED BY <1>1, <1>3
<1>4. CASE t \in replica[DirOf[r]] /\ t.by = User /\ Gain(r, [t EXCEPT !.by = Matched])
    <2>1. [t EXCEPT !.by = Matched] = claimed
        BY <1>1, <1>4 DEF Transactions
    <2> WITNESS {claimed} \in SUBSET {Posted(r), claimed}
    <2> QED BY <1>1, <1>4, <2>1 DEF Gain
<1> QED BY <1>2, <1>3, <1>4 DEF ImportLocally

LEMMA ImportTypes ==
    ASSUME TypeOK, NEW r \in Runs, plan[r] \in Days,
           NEW t \in Candidates(r), ImportLocally(r, t)
    PROVE  /\ t \in Transactions
           /\ replica' \in [Dirs -> SUBSET Transactions]
<1> DEFINE claimed == [date |-> t.date, by |-> Matched]
<1>1. replica \in [Dirs -> SUBSET Transactions] /\ DirOf[r] \in Dirs
    BY DirOfRun DEF TypeOK
<1>2. Posted(r) \in Transactions
    BY PostedType
<1>3. t \in Transactions
    BY <1>1, <1>2 DEF Candidates
<1>4. claimed \in Transactions
    BY <1>3 DEF Transactions
<1> HIDE DEF claimed
<1>5. PICK gain \in SUBSET {Posted(r), claimed} :
          replica' = [replica EXCEPT ![DirOf[r]] = @ \cup gain]
    BY ImportGains DEF claimed
<1>6. gain \subseteq Transactions
    BY <1>2, <1>4
<1> QED BY <1>1, <1>3, <1>5, <1>6

\* The two ledgers keep their types whatever a bridge does to them.
LEMMA LedgerTypes ==
    ASSUME TypeOK, NEW r \in Runs,
           \/ UNCHANGED <<server, replica>>
           \/ Sync(DirOf[r])
           \/ SyncFails(DirOf[r])
           \/ /\ plan[r] \in Days /\ \E t \in Candidates(r) : ImportLocally(r, t)
              /\ server' \in {server, server \cup replica'[DirOf[r]]}
    PROVE  /\ server' \subseteq Transactions
           /\ replica' \in [Dirs -> SUBSET Transactions]
<1> USE DirOfRun, MergedType DEF TypeOK
<1>1. CASE UNCHANGED <<server, replica>>
    BY <1>1
<1>2. CASE Sync(DirOf[r])
    BY <1>2 DEF Sync
<1>3. CASE SyncFails(DirOf[r])
    BY <1>3 DEF SyncFails
<1>4. CASE /\ plan[r] \in Days /\ \E t \in Candidates(r) : ImportLocally(r, t)
           /\ server' \in {server, server \cup replica'[DirOf[r]]}
    <2>1. replica' \in [Dirs -> SUBSET Transactions]
        BY <1>4, ImportTypes
    <2> QED BY <1>4, <2>1
<1> QED BY <1>1, <1>2, <1>3, <1>4

LEMMA InitTypeOK == Init => TypeOK
BY DEF Init, TypeOK, Results, Planned, Active, Reading, Writing

LEMMA NextTypeOK == TypeOK /\ [Next]_vars => TypeOK'
<1> SUFFICES ASSUME TypeOK, [Next]_vars PROVE TypeOK'
    OBVIOUS
<1> DEFINE Control == /\ stage' \in [Runs -> {"new", "ended", "dead"} \cup Active]
                      /\ plan' \in [Runs -> Days \cup {NoDate}]
                      /\ named' \in [Runs -> SUBSET Transactions]
                      /\ result' \in [Runs -> Results]
                      /\ orphan' \in [Runs -> {"none", "import", "syncing"}]
                      /\ \A r \in Runs :
                            stage'[r] \in Planned \/ orphan'[r] # "none"
                            => plan'[r] \in Days
<1> DEFINE Ledgers == /\ server' \subseteq Transactions
                      /\ replica' \in [Dirs -> SUBSET Transactions]
<1> SUFFICES Control /\ Ledgers
    BY DEF TypeOK
<1> USE DEF Goto, Return, Results, Planned, Active, Reading, Writing
<1>1. ASSUME NEW r \in Runs, Lock(r) PROVE Control /\ Ledgers
    BY <1>1 DEF Lock, TypeOK
<1>2. ASSUME NEW r \in Runs, Open(r) PROVE Control /\ Ledgers
    BY <1>2, LedgerTypes DEF Open, TypeOK
<1>3. ASSUME NEW r \in Runs, ReadAccount(r) PROVE Control /\ Ledgers
    BY <1>3 DEF ReadAccount, TypeOK
<1>4. ASSUME NEW r \in Runs, ReadLast(r) PROVE Control /\ Ledgers
    <2>1. \A t \in replica[DirOf[r]] : t.date \in Days
        BY DirOfRun DEF TypeOK, Transactions
    <2> QED BY <1>4, <2>1 DEF ReadLast, TypeOK
<1>5. ASSUME NEW r \in Runs, FindExisting(r) PROVE Control /\ Ledgers
    BY <1>5 DEF FindExisting, TypeOK
<1>6. ASSUME NEW r \in Runs, Compute(r) PROVE Control /\ Ledgers
    BY <1>6 DEF Compute, TypeOK
<1>7. ASSUME NEW r \in Runs, EnsurePayee(r) PROVE Control /\ Ledgers
    BY <1>7, LedgerTypes DEF EnsurePayee, TypeOK
<1>8. ASSUME NEW r \in Runs, ImportTransaction(r) PROVE Control /\ Ledgers
    <2>1. Ledgers
        BY <1>8, LedgerTypes DEF ImportTransaction, TypeOK
    <2>2. \A t \in Candidates(r) : ImportLocally(r, t) => t \in Transactions
        BY <1>8, ImportTypes DEF ImportTransaction, TypeOK
    <2> QED BY <1>8, <2>1, <2>2 DEF ImportTransaction, TypeOK
<1>9. ASSUME NEW r \in Runs, SyncImport(r) PROVE Control /\ Ledgers
    BY <1>9, LedgerTypes DEF SyncImport, TypeOK
<1>10. ASSUME NEW r \in Runs, Refused(r) PROVE Control /\ Ledgers
    BY <1>10 DEF Refused, TypeOK
<1>11. ASSUME NEW r \in Runs, Poisoned(r) PROVE Control /\ Ledgers
    <2>1. Ledgers
        BY <1>11, LedgerTypes DEF Poisoned, TypeOK
    <2> QED BY <1>11, <2>1 DEF Poisoned, TypeOK
<1>12. ASSUME NEW r \in Runs, Close(r) PROVE Control /\ Ledgers
    BY <1>12, LedgerTypes DEF Close, TypeOK
<1>13. ASSUME NEW r \in Runs, Crash(r) PROVE Control /\ Ledgers
    <2>1. Ledgers
        BY <1>13, LedgerTypes DEF Crash
    <2> QED BY <1>13, <2>1 DEF Crash, TypeOK
<1>14. ASSUME NEW r \in Runs, OrphanImports(r) PROVE Control /\ Ledgers
    <2>1. Ledgers
        BY <1>14, LedgerTypes DEF OrphanImports, TypeOK
    <2> QED BY <1>14, <2>1 DEF OrphanImports, TypeOK
<1>15. ASSUME NEW r \in Runs, OrphanSyncs(r) PROVE Control /\ Ledgers
    BY <1>15, LedgerTypes DEF OrphanSyncs, TypeOK
<1>16. ASSUME NEW d \in Days, UserPosts(d) PROVE Control /\ Ledgers
    BY <1>16 DEF UserPosts, TypeOK, Transactions
<1>17. CASE UNCHANGED vars
    BY <1>17 DEF vars, TypeOK
<1> HIDE DEF Control, Ledgers
<1> QED
    BY <1>1, <1>2, <1>3, <1>4, <1>5, <1>6, <1>7, <1>8, <1>9, <1>10, <1>11,
       <1>12, <1>13, <1>14, <1>15, <1>16, <1>17
       DEF Next, RunStep

\* The ledgers hold transactions of the account, and a run that posts, or its
\* orphan, has a date to post on (interest.rs:115-160).
THEOREM TypeCorrect == Spec => []TypeOK
BY InitTypeOK, NextTypeOK, PTL DEF Spec

----------------------------------------------------------------------------
(* Once a day.                                                             *)

OneDir == \A r, s \in Runs : DirOf[r] = DirOf[s]

\* The lock: of the runs of a data dir, one has a session.
OneActive ==
    \A r, s \in Runs :
        stage[r] \in Active /\ stage[s] \in Active /\ DirOf[r] = DirOf[s] => r = s

NoOrphans == \A r \in Runs : orphan[r] = "none"

\* Interest is posted in the data dir first.
InterestIsLocal ==
    \A t \in server : t.by # User => \A d \in Dirs : t \in replica[d]

\* What an ordinary run found stays true until it posts.
FoundNothing ==
    \A r \in Runs \ Forced :
        stage[r] \in {"balance", "payee", "import"} => Existing(r) = {}

\* No two ordinary runs posted on one day, in the data dir.
OnceLocally ==
    \A d \in Dirs : \A t, u \in replica[d] :
        t.by \in Runs \ Forced /\ u.by \in Runs \ Forced /\ t.date = u.date
        => t = u

OnceInv == OneActive /\ NoOrphans /\ InterestIsLocal /\ FoundNothing /\ OnceLocally

\* With one data dir, what it holds of interest is all there is.
LEMMA OnceEverywhere ==
    ASSUME TypeOK, OneDir, OnceInv
    PROVE  OncePerDay
<1> USE RunsAssumption
<1> SUFFICES ASSUME NEW t \in Everywhere, NEW u \in Everywhere,
                    t.by \in Runs \ Forced, u.by \in Runs \ Forced,
                    t.date = u.date
             PROVE  t = u
    BY DEF OncePerDay
<1>1. PICK d \in Dirs : t \in replica[d]
    <2>1. CASE t \in server
        BY <2>1 DEF OnceInv, InterestIsLocal, Dirs
    <2>2. CASE t \notin server
        BY <2>2 DEF Everywhere
    <2> QED BY <2>1, <2>2
<1>2. PICK e \in Dirs : u \in replica[e]
    <2>1. CASE u \in server
        BY <2>1 DEF OnceInv, InterestIsLocal, Dirs
    <2>2. CASE u \notin server
        BY <2>2 DEF Everywhere
    <2> QED BY <2>1, <2>2
<1>3. d = e
    BY DEF OneDir, Dirs
<1> QED BY <1>1, <1>2, <1>3 DEF OnceInv, OnceLocally

LEMMA InitOnceInv == Init => OnceInv
BY DEF Init, OnceInv, OneActive, NoOrphans, InterestIsLocal, FoundNothing,
       OnceLocally, Active, Reading, Writing

\* What posts no interest: the ledgers gain what the other already has, or
\* what the user posts.
Quiet ==
    /\ \A t \in server' : t.by # User => \A d \in Dirs : t \in replica[d]
    /\ \A d \in Dirs : /\ replica[d] \subseteq replica'[d]
                       /\ \A t \in replica'[d] : t.by # User => t \in replica[d]

LEMMA QuietSync ==
    ASSUME TypeOK, OneDir, OnceInv, NEW r \in Runs,
           \/ UNCHANGED <<server, replica>>
           \/ Sync(DirOf[r])
           \/ SyncFails(DirOf[r])
    PROVE  Quiet
<1> USE DirOfRun DEF TypeOK, OnceInv, InterestIsLocal, Quiet
<1>0. \A d \in Dirs : d = DirOf[r]
    BY DEF OneDir, Dirs
<1>1. CASE UNCHANGED <<server, replica>>
    BY <1>1
<1>2. CASE Sync(DirOf[r])
    BY <1>0, <1>2 DEF Sync, Merged
<1>3. CASE SyncFails(DirOf[r])
    BY <1>0, <1>3 DEF SyncFails, Merged
<1> QED BY <1>1, <1>2, <1>3

LEMMA QuietKeeps ==
    ASSUME TypeOK, OnceInv, Quiet
    PROVE  /\ InterestIsLocal' /\ OnceLocally'
           /\ \A r \in Runs : plan'[r] = plan[r] /\ Existing(r) = {}
                              => Existing(r)' = {}
<1> USE RunsAssumption, DirOfRun
<1>1. InterestIsLocal'
    BY DEF Quiet, InterestIsLocal
<1>2. OnceLocally'
    BY DEF Quiet, OnceInv, OnceLocally
<1>3. ASSUME NEW r \in Runs, plan'[r] = plan[r], Existing(r) = {}
      PROVE  Existing(r)' = {}
    BY <1>3 DEF Quiet, Existing, Interest
<1> QED BY <1>1, <1>2, <1>3

\* A step of an ordinary run, or of none, that posts no interest.
LEMMA QuietStep ==
    ASSUME TypeOK, OnceInv, Quiet, OneActive', NoOrphans',
           \A r \in Runs \ Forced :
               stage'[r] \in {"balance", "payee", "import"} =>
                   /\ plan'[r] = plan[r]
                   /\ \/ stage[r] \in {"balance", "payee", "import"}
                      \/ Existing(r) = {}
    PROVE  OnceInv'
BY QuietKeeps DEF OnceInv, FoundNothing

\* The import itself, alone or at once with its sync.
LEMMA ImportStep ==
    ASSUME TypeOK, OneDir, OnceInv, NEW r \in Runs,
           stage[r] = "import", stage'[r] \notin {"balance", "payee", "import"},
           \A s \in Runs : s # r => stage'[s] = stage[s],
           plan' = plan, orphan' = orphan, OneActive',
           NEW t \in Candidates(r), ImportLocally(r, t),
           server' \subseteq server \cup replica'[DirOf[r]]
    PROVE  OnceInv'
<1> USE RunsAssumption, DirOfRun DEF TypeOK
<1>0. \A d \in Dirs : d = DirOf[r]
    BY DEF OneDir, Dirs
<1>1. PICK gain \in SUBSET {Posted(r), [date |-> t.date, by |-> Matched]} :
          replica' = [replica EXCEPT ![DirOf[r]] = @ \cup gain]
    BY ImportGains
<1>2. InterestIsLocal'
    BY <1>0, <1>1 DEF OnceInv, InterestIsLocal
<1>3. OnceLocally'
    <2> SUFFICES ASSUME NEW v \in replica[DirOf[r]] \cup {Posted(r)},
                        NEW u \in replica[DirOf[r]] \cup {Posted(r)},
                        v.by \in Runs \ Forced, u.by \in Runs \ Forced,
                        v.date = u.date
                 PROVE  v = u
        BY <1>0, <1>1 DEF OnceLocally
    <2>1. ASSUME NEW w \in replica[DirOf[r]], w.by \in Runs,
                 r \notin Forced, w.date = plan[r]
          PROVE  FALSE
        BY <2>1 DEF OnceInv, FoundNothing, Existing, Interest
    <2>2. Posted(r).by = r /\ Posted(r).date = plan[r]
        BY DEF Posted
    <2> QED BY <2>1, <2>2 DEF OnceInv, OnceLocally
<1>4. FoundNothing'
    <2> SUFFICES ASSUME NEW s \in Runs \ Forced,
                        stage'[s] \in {"balance", "payee", "import"}
                 PROVE  FALSE
        BY DEF FoundNothing
    <2> QED BY <1>0 DEF OnceInv, OneActive, Active, Reading, Writing
<1> QED BY <1>2, <1>3, <1>4 DEF OnceInv, NoOrphans

LEMMA NextOnceInv ==
    ASSUME OneDir, ~Detached, TypeOK, OnceInv, [Next]_vars
    PROVE  OnceInv'
<1> USE CrashAssumption DEF Goto, Return, Active, Reading, Writing
<1> DEFINE Control ==
        /\ OneActive' /\ NoOrphans'
        /\ \A r \in Runs \ Forced :
               stage'[r] \in {"balance", "payee", "import"} =>
                   /\ plan'[r] = plan[r]
                   /\ \/ stage[r] \in {"balance", "payee", "import"}
                      \/ Existing(r) = {}
<1>0. ASSUME NEW r \in Runs, Control,
             \/ UNCHANGED <<server, replica>>
             \/ Sync(DirOf[r])
             \/ SyncFails(DirOf[r])
      PROVE  OnceInv'
    BY <1>0, QuietSync, QuietStep
<1>1. ASSUME NEW r \in Runs, Lock(r) PROVE OnceInv'
    <2>1. Control
        BY <1>1 DEF Lock, LockFree, TypeOK, OnceInv, OneActive, NoOrphans
    <2> QED BY <1>0, <1>1, <2>1 DEF Lock
<1>2. ASSUME NEW r \in Runs, Open(r) PROVE OnceInv'
    <2>1. Control
        BY <1>2 DEF Open, TypeOK, OnceInv, OneActive, NoOrphans
    <2> QED BY <1>0, <1>2, <2>1 DEF Open
<1>3. ASSUME NEW r \in Runs, ReadAccount(r) PROVE OnceInv'
    <2>1. Control
        BY <1>3 DEF ReadAccount, TypeOK, OnceInv, OneActive, NoOrphans
    <2> QED BY <1>0, <1>3, <2>1 DEF ReadAccount
<1>4. ASSUME NEW r \in Runs, ReadLast(r) PROVE OnceInv'
    <2>1. Control
        BY <1>4 DEF ReadLast, TypeOK, OnceInv, OneActive, NoOrphans
    <2> QED BY <1>0, <1>4, <2>1 DEF ReadLast
<1>5. ASSUME NEW r \in Runs, FindExisting(r) PROVE OnceInv'
    <2>1. Control
        BY <1>5 DEF FindExisting, TypeOK, OnceInv, OneActive, NoOrphans
    <2> QED BY <1>0, <1>5, <2>1 DEF FindExisting
<1>6. ASSUME NEW r \in Runs, Compute(r) PROVE OnceInv'
    <2>1. Control
        BY <1>6 DEF Compute, TypeOK, OnceInv, OneActive, NoOrphans
    <2> QED BY <1>0, <1>6, <2>1 DEF Compute
<1>7. ASSUME NEW r \in Runs, EnsurePayee(r) PROVE OnceInv'
    <2>1. Control
        BY <1>7 DEF EnsurePayee, TypeOK, OnceInv, OneActive, NoOrphans
    <2> QED BY <1>0, <1>7, <2>1 DEF EnsurePayee
<1>8. ASSUME NEW r \in Runs, ImportTransaction(r) PROVE OnceInv'
    <2>1. OneActive'
        BY <1>8 DEF ImportTransaction, TypeOK, OnceInv, OneActive
    <2>2. PICK t \in Candidates(r) : ImportLocally(r, t)
        BY <1>8 DEF ImportTransaction
    <2>3. \A s \in Runs : s # r => stage'[s] = stage[s]
        BY <1>8 DEF ImportTransaction, TypeOK
    <2>4. stage[r] = "import" /\ stage'[r] = "syncing"
        BY <1>8 DEF ImportTransaction, TypeOK
    <2>5. plan' = plan /\ orphan' = orphan /\ server' = server
        BY <1>8 DEF ImportTransaction
    <2> QED BY <2>1, <2>2, <2>3, <2>4, <2>5, ImportStep
<1>9. ASSUME NEW r \in Runs, SyncImport(r) PROVE OnceInv'
    <2>1. Control
        BY <1>9 DEF SyncImport, TypeOK, OnceInv, OneActive, NoOrphans
    <2> QED BY <1>0, <1>9, <2>1 DEF SyncImport
<1>10. ASSUME NEW r \in Runs, Refused(r) PROVE OnceInv'
    <2>1. Control
        BY <1>10 DEF Refused, TypeOK, OnceInv, OneActive, NoOrphans
    <2> QED BY <1>0, <1>10, <2>1 DEF Refused
<1>11. ASSUME NEW r \in Runs, Poisoned(r) PROVE OnceInv'
    <2>1. Control
        BY <1>11 DEF Poisoned, TypeOK, OnceInv, OneActive, NoOrphans
    <2>2. ASSUME NEW t \in Candidates(r), stage[r] = "import", ImportLocally(r, t),
                 server' \in {server, server \cup replica'[DirOf[r]]}
          PROVE  OnceInv'
        <3>1. \A s \in Runs : s # r => stage'[s] = stage[s]
            BY <1>11 DEF Poisoned, TypeOK
        <3>2. stage'[r] = "ended" /\ plan' = plan /\ orphan' = orphan
            BY <1>11 DEF Poisoned, TypeOK
        <3> QED BY <2>1, <2>2, <3>1, <3>2, ImportStep
    <2>3. CASE UNCHANGED <<server, replica>> \/ SyncFails(DirOf[r])
        BY <1>0, <2>1, <2>3
    <2> QED BY <1>11, <2>2, <2>3 DEF Poisoned
<1>12. ASSUME NEW r \in Runs, Close(r) PROVE OnceInv'
    <2>1. Control
        BY <1>12 DEF Close, TypeOK, OnceInv, OneActive, NoOrphans
    <2> QED BY <1>0, <1>12, <2>1 DEF Close
<1>13. ASSUME NEW r \in Runs, Crash(r) PROVE OnceInv'
    <2>1. Control
        BY <1>13 DEF Crash, TypeOK, OnceInv, OneActive, NoOrphans
    <2> QED BY <1>0, <1>13, <2>1 DEF Crash
<1>14. ASSUME NEW r \in Runs, OrphanImports(r) \/ OrphanSyncs(r) PROVE FALSE
    BY <1>14 DEF OrphanImports, OrphanSyncs, OnceInv, NoOrphans
<1>15. ASSUME NEW d \in Days, UserPosts(d) PROVE OnceInv'
    <2>1. Control
        BY <1>15 DEF UserPosts, OnceInv, OneActive, NoOrphans
    <2>2. Quiet
        BY <1>15 DEF UserPosts, Quiet, OnceInv, InterestIsLocal
    <2> QED BY <2>1, <2>2, QuietStep
<1>16. CASE UNCHANGED vars
    <2>1. Control
        BY <1>16 DEF vars, OnceInv, OneActive, NoOrphans
    <2>2. Quiet
        BY <1>16 DEF vars, Quiet, OnceInv, InterestIsLocal
    <2> QED BY <2>1, <2>2, QuietStep
<1> QED
    BY <1>1, <1>2, <1>3, <1>4, <1>5, <1>6, <1>7, <1>8, <1>9, <1>10, <1>11,
       <1>12, <1>13, <1>14, <1>15, <1>16
       DEF Next, RunStep

\* Interest once a day and data dir, for any number of runs in any order,
\* repeated after whatever failure or kill, however the user posts
\* (interest.rs:117-129, lock.rs:1-5).
THEOREM InterestOncePerDay == OneDir /\ ~Detached => (Spec => []OncePerDay)
<1> SUFFICES ASSUME OneDir, ~Detached PROVE Spec => []OncePerDay
    OBVIOUS
<1>1. Init => TypeOK /\ OnceInv
    BY InitTypeOK, InitOnceInv
<1>2. TypeOK /\ OnceInv /\ [Next]_vars => (TypeOK /\ OnceInv)'
    BY NextTypeOK, NextOnceInv
<1>3. TypeOK /\ OnceInv => OncePerDay
    BY OnceEverywhere
<1> QED BY <1>1, <1>2, <1>3, PTL DEF Spec

----------------------------------------------------------------------------
(* Reports.                                                                *)

Reports == {"applied", "already"}

\* What is reported is in the replica until the session is closed, and then
\* on the server.
ReportedIn(r, ledger) ==
    /\ result[r] = "applied" => named[r] # {} /\ named[r] \subseteq ledger
    /\ result[r] = "already" => Interest(ledger, plan[r]) # {}

ReportedOf(r) ==
    /\ stage[r] = "syncing" => named[r] # {} /\ named[r] \subseteq replica[DirOf[r]]
    /\ result[r] \in Reports => stage[r] \in {"closing", "ended", "dead"}
    /\ stage[r] = "closing" => ReportedIn(r, replica[DirOf[r]])
    /\ stage[r] = "ended" => ReportedIn(r, server)

ReportInv == \A r \in Runs : ReportedOf(r)

\* No ledger loses a transaction.
Grows == server \subseteq server' /\ \A d \in Dirs : replica[d] \subseteq replica'[d]

LEMMA LedgersGrow ==
    ASSUME TypeOK, NEW r \in Runs,
           \/ UNCHANGED <<server, replica>>
           \/ Sync(DirOf[r]) \/ SyncFails(DirOf[r])
           \/ /\ \E t \in Candidates(r) : ImportLocally(r, t)
              /\ server' \in {server, server \cup replica'[DirOf[r]]}
    PROVE  Grows
<1> USE DirOfRun DEF Grows, TypeOK
<1>1. CASE UNCHANGED <<server, replica>> \/ Sync(DirOf[r]) \/ SyncFails(DirOf[r])
    BY <1>1 DEF Sync, SyncFails, Merged
<1>2. ASSUME NEW t \in Candidates(r), ImportLocally(r, t),
             server' \in {server, server \cup replica'[DirOf[r]]}
      PROVE  Grows
    <2>1. PICK gain : replica' = [replica EXCEPT ![DirOf[r]] = @ \cup gain]
        BY <1>2, ImportGains
    <2> QED BY <1>2, <2>1
<1> QED BY <1>1, <1>2

LEMMA KeepsReport ==
    ASSUME Grows, NEW r \in Runs, ReportedOf(r),
           UNCHANGED <<stage[r], plan[r], named[r], result[r]>>
    PROVE  ReportedOf(r)'
<1>1. replica[DirOf[r]] \subseteq replica'[DirOf[r]] /\ server \subseteq server'
    BY DirOfRun DEF Grows
<1>2. /\ Interest(replica[DirOf[r]], plan[r]) \subseteq Interest(replica'[DirOf[r]], plan[r])
      /\ Interest(server, plan[r]) \subseteq Interest(server', plan[r])
    BY <1>1 DEF Interest
<1> QED BY <1>1, <1>2 DEF ReportedOf, ReportedIn

LEMMA NextReportInv ==
    ASSUME TypeOK, ReportInv, [Next]_vars
    PROVE  ReportInv'
<1> USE DEF Goto, Return, Reports
<1>1. ASSUME NEW r \in Runs, Grows, ReportedOf(r)',
             \A s \in Runs \ {r} : UNCHANGED <<stage[s], plan[s], named[s], result[s]>>
      PROVE  ReportInv'
    BY <1>1, KeepsReport DEF ReportInv
<1>2. ASSUME NEW r \in Runs, RunStep(r) \/ Crash(r) \/ OrphanImports(r) \/ OrphanSyncs(r)
      PROVE  ReportInv'
    <2> USE DEF TypeOK, ReportInv, ReportedOf, ReportedIn
    <2>1. ReportedOf(r)
        OBVIOUS
    <2>2. Grows
        <3>1. \/ UNCHANGED <<server, replica>>
              \/ Sync(DirOf[r]) \/ SyncFails(DirOf[r])
              \/ /\ \E t \in Candidates(r) : ImportLocally(r, t)
                 /\ server' \in {server, server \cup replica'[DirOf[r]]}
            BY <1>2
               DEF RunStep, Lock, Open, ReadAccount, ReadLast, FindExisting, Compute,
                   EnsurePayee, ImportTransaction, SyncImport, Refused, Poisoned,
                   Close, Crash, OrphanImports, OrphanSyncs
        <3> QED BY <3>1, LedgersGrow
    <2>3. \A s \in Runs \ {r} : UNCHANGED <<stage[s], plan[s], named[s], result[s]>>
        BY <1>2
           DEF RunStep, Lock, Open, ReadAccount, ReadLast, FindExisting, Compute,
               EnsurePayee, ImportTransaction, SyncImport, Refused, Poisoned,
               Close, Crash, OrphanImports, OrphanSyncs
    <2>4. ReportedOf(r)'
        <3>1. CASE Lock(r) \/ Open(r) \/ ReadAccount(r) \/ ReadLast(r) \/ Refused(r)
            BY <3>1 DEF Lock, Open, ReadAccount, ReadLast, Refused, Reading, Writing
        <3>2. CASE FindExisting(r)
            BY <3>2 DEF FindExisting, Existing
        <3>3. CASE Compute(r) \/ EnsurePayee(r)
            BY <3>3 DEF Compute, EnsurePayee
        <3>4. CASE ImportTransaction(r)
            <4>1. PICK t \in Candidates(r) :
                      ImportLocally(r, t) /\ named' = [named EXCEPT ![r] = {t}]
                BY <3>4 DEF ImportTransaction
            <4>2. t \in replica'[DirOf[r]]
                BY <4>1, ImportGains
            <4> QED BY <3>4, <4>1, <4>2 DEF ImportTransaction
        <3>5. CASE SyncImport(r)
            <4>1. named[r] \subseteq replica'[DirOf[r]]
                BY <2>2, <3>5, DirOfRun DEF SyncImport, Grows
            <4> QED BY <3>5, <4>1 DEF SyncImport
        <3>6. CASE Poisoned(r)
            BY <3>6 DEF Poisoned
        <3>7. CASE Close(r)
            <4>1. CASE Sync(DirOf[r]) /\ UNCHANGED result
                <5>1. /\ replica[DirOf[r]] \subseteq server'
                      /\ Interest(replica[DirOf[r]], plan[r])
                            \subseteq Interest(server', plan[r])
                    BY <4>1 DEF Sync, Merged, Interest
                <5> QED BY <3>7, <4>1, <5>1 DEF Close
            <4>2. CASE result' = [result EXCEPT ![r] = "error"]
                BY <3>7, <4>2 DEF Close
            <4> QED BY <3>7, <4>1, <4>2 DEF Close
        <3>8. CASE Crash(r)
            BY <3>8 DEF Crash, Active, Reading, Writing
        <3>9. CASE OrphanImports(r) \/ OrphanSyncs(r)
            BY <2>1, <2>2, <3>9, KeepsReport DEF OrphanImports, OrphanSyncs
        <3> QED BY <1>2, <3>1, <3>2, <3>3, <3>4, <3>5, <3>6, <3>7, <3>8, <3>9
                DEF RunStep
    <2> QED BY <1>1, <2>2, <2>3, <2>4
<1>3. ASSUME Grows, UNCHANGED <<stage, plan, named, result>>
      PROVE  ReportInv'
    BY <1>3, KeepsReport DEF ReportInv
<1>4. ASSUME NEW d \in Days, UserPosts(d) PROVE ReportInv'
    BY <1>3, <1>4 DEF UserPosts, Grows
<1>5. CASE UNCHANGED vars
    BY <1>3, <1>5 DEF vars, Grows
<1> QED BY <1>2, <1>4, <1>5 DEF Next

\* The transaction that a run names as interest is on the server, whether its
\* import added it or took its own for it, and interest that it found is, for
\* any number of runs and data dirs, forced or not, and bridges that outlive
\* their runs (settings.rs:272-294, interest.rs:117-129, index.js:837-841).
THEOREM ReportsAreTrue == Spec => []ReportedInterestIsOnServer
<1>1. Init => ReportInv
    BY DEF Init, ReportInv, ReportedOf, Reports
<1>2. TypeOK /\ ReportInv => ReportedInterestIsOnServer
    BY DEF ReportInv, ReportedOf, ReportedIn, ReportedInterestIsOnServer
<1> QED BY <1>1, <1>2, InitTypeOK, NextTypeOK, NextReportInv, PTL DEF Spec
=============================================================================
