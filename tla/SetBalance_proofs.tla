------------------------- MODULE SetBalance_proofs -------------------------
(***************************************************************************)
(* What SetBalance guarantees for any number of runs, accounts, targets    *)
(* and transactions of the user: which transactions a correction was       *)
(* computed from, which does not depend on their amounts; the types; and   *)
(* what a reported balance adds up to.                                     *)
(***************************************************************************)
EXTENDS SetBalance, Sums

----------------------------------------------------------------------------
(* The inductive invariant.                                                *)

\* What the arguments below need of the types.
Shape ==
    /\ server = [txs |-> server.txs, closed |-> server.closed]
    /\ replica = [txs |-> replica.txs, closed |-> replica.closed]
    /\ stage \in [Runs -> {"new", "ended", "dead"} \cup Active]
    /\ account \in [Runs -> Accounts \cup {None}]
    /\ seen = [r \in Runs |-> seen[r]]

\* The lock: one run is at work.
OneActive ==
    \A r, s \in Runs : stage[r] \in Active /\ stage[s] \in Active => r = s

\* Corrections get to the server through the replica.
CorrectionIsLocal ==
    \A t \in server.txs : t.by \in Runs => t \in replica.txs

\* A run whose correction is there has read its balance before, and reads no
\* more.
Unwritten == {"new", "locked", "add"} \cup Reading

CorrectionIsOwn ==
    \A t \in replica.txs : t.by \in Runs =>
        t = Correction(t.by) /\ stage[t.by] \notin Unwritten

\* No correction comes between a balance and what is computed from it.
FreshBalance ==
    \A r \in Runs : stage[r] = "add" =>
        \A t \in replica.txs : t.by \in Runs => t \in seen[r]

SeenInReplica ==
    \A t, u \in replica.txs :
        /\ t.by \in Runs /\ u.by \in Runs
        /\ t.account = u.account /\ t # u
        => t \in seen[u.by] \/ u \in seen[t.by]

CorrectInv ==
    /\ Shape /\ OneActive /\ CorrectionIsLocal /\ CorrectionIsOwn
    /\ FreshBalance /\ SeenInReplica

LEMMA InitCorrectInv == Init => CorrectInv
BY DEF Init, CorrectInv, Shape, OneActive, CorrectionIsLocal, CorrectionIsOwn,
       FreshBalance, SeenInReplica, Active, Reading, Writing

----------------------------------------------------------------------------
(* What groups of steps have in common.                                    *)

\* A step without a correction: the ones that are there stay what they are.
LEMMA QuietStep ==
    ASSUME CorrectInv, Shape', OneActive',
           \A t \in replica'.txs : t.by \in Runs => t \in replica.txs,
           \A t \in replica.txs : t.by \in Runs => t \in replica'.txs,
           \A t \in server'.txs : t.by \in Runs => t \in replica'.txs,
           \A r \in Runs : stage[r] \notin Unwritten =>
               /\ stage'[r] \notin Unwritten
               /\ account'[r] = account[r] /\ seen'[r] = seen[r],
           \A r \in Runs : stage'[r] = "add" =>
               \A t \in replica.txs : t.by \in Runs => t \in seen'[r]
    PROVE  CorrectInv'
<1>1. \A r \in Runs : stage[r] \notin Unwritten => Correction(r)' = Correction(r)
    BY DEF Correction
<1>2. CorrectionIsLocal'
    BY DEF CorrectionIsLocal
<1>3. CorrectionIsOwn'
    BY <1>1 DEF CorrectInv, CorrectionIsOwn
<1>4. FreshBalance'
    BY DEF FreshBalance
<1>5. SeenInReplica'
    BY DEF CorrectInv, SeenInReplica, CorrectionIsOwn
<1> QED BY <1>2, <1>3, <1>4, <1>5 DEF CorrectInv

\* The correction itself, alone or at once with its sync.
LEMMA AddStep ==
    ASSUME CorrectInv, Shape', OneActive',
           NEW r \in Runs, stage[r] = "add", stage'[r] \notin Unwritten,
           replica' = WithCorrection(r),
           \A t \in server'.txs : t \in server.txs \/ t \in replica'.txs,
           \A s \in Runs : s # r => stage'[s] = stage[s],
           UNCHANGED <<account, seen>>
    PROVE  CorrectInv'
<1>1. replica'.txs = replica.txs \cup {Correction(r)}
    BY DEF CorrectInv, Shape, WithCorrection
<1>2. Correction(r).by = r /\ \A s \in Runs : Correction(s)' = Correction(s)
    BY DEF Correction
<1>3. CorrectionIsLocal'
    BY <1>1 DEF CorrectInv, CorrectionIsLocal
<1>4. CorrectionIsOwn'
    BY <1>1, <1>2 DEF CorrectInv, CorrectionIsOwn
<1>5. FreshBalance'
    BY DEF CorrectInv, FreshBalance, OneActive, Active, Writing, Unwritten
<1>6. SeenInReplica'
    <2>1. \A t \in replica.txs : t.by \in Runs => t \in seen[r]
        BY DEF CorrectInv, FreshBalance
    <2> QED BY <1>1, <1>2, <2>1 DEF CorrectInv, SeenInReplica
<1> QED BY <1>3, <1>4, <1>5, <1>6 DEF CorrectInv

\* What a sync, whole or failed, does to corrections.
LEMMA SyncKeepsCorrections ==
    ASSUME CorrectInv, UNCHANGED <<server, replica>> \/ Sync \/ SyncFails
    PROVE  /\ \A t \in replica'.txs : t.by \in Runs => t \in replica.txs
           /\ \A t \in replica.txs : t \in replica'.txs
           /\ \A t \in server'.txs : t.by \in Runs => t \in replica'.txs
           /\ server' = [txs |-> server'.txs, closed |-> server'.closed]
           /\ replica' = [txs |-> replica'.txs, closed |-> replica'.closed]
BY DEF CorrectInv, Shape, CorrectionIsLocal, Sync, SyncFails, Merged

----------------------------------------------------------------------------
(* Each action.                                                            *)

LEMMA NextCorrectInv ==
    ASSUME CorrectInv, [Next]_vars
    PROVE  CorrectInv'
<1> USE DEF Goto, Return, Fail, Active, Reading, Writing, Unwritten
<1>s. Shape /\ OneActive
    BY DEF CorrectInv
<1> DEFINE Control ==
        /\ stage' \in [Runs -> {"new", "ended", "dead"} \cup Active]
        /\ account' \in [Runs -> Accounts \cup {None}]
        /\ seen' = [r \in Runs |-> seen'[r]]
        /\ OneActive'
        /\ \A r \in Runs : stage[r] \notin Unwritten =>
               /\ stage'[r] \notin Unwritten
               /\ account'[r] = account[r] /\ seen'[r] = seen[r]
<1> DEFINE Computes ==
        \A r \in Runs : stage'[r] = "add" =>
            \/ seen'[r] = seen[r] /\ stage[r] = "add"
            \/ seen'[r] = replica.txs
<1>0. ASSUME Control, Computes,
             UNCHANGED <<server, replica>> \/ Sync \/ SyncFails
      PROVE  CorrectInv'
    <2>1. Shape'
        BY <1>0, SyncKeepsCorrections DEF Shape
    <2>2. \A r \in Runs : stage'[r] = "add" =>
               \A t \in replica.txs : t.by \in Runs => t \in seen'[r]
        BY <1>0 DEF CorrectInv, FreshBalance
    <2> QED BY <1>0, <2>1, <2>2, SyncKeepsCorrections, QuietStep
<1>1. ASSUME NEW r \in Runs, Lock(r) PROVE CorrectInv'
    <2>1. Control /\ Computes
        BY <1>1, <1>s DEF Lock, LockFree, Shape, OneActive
    <2> QED BY <1>0, <1>1, <2>1 DEF Lock
<1>2. ASSUME NEW r \in Runs, OpenSession(r) PROVE CorrectInv'
    <2>1. Control /\ Computes
        BY <1>2, <1>s DEF OpenSession, Shape, OneActive
    <2> QED BY <1>0, <1>2, <2>1 DEF OpenSession
<1>3. ASSUME NEW r \in Runs, Resolve(r) PROVE CorrectInv'
    <2>1. Control /\ Computes
        BY <1>3, <1>s DEF Resolve, Shape, OneActive
    <2> QED BY <1>0, <1>3, <2>1 DEF Resolve
<1>4. ASSUME NEW r \in Runs, Match(r) PROVE CorrectInv'
    <2>1. Found(chosen[r]) => Matches(chosen[r]) # {}
        BY FS_EmptySet DEF Found
    <2>2. Found(chosen[r]) =>
              (CHOOSE a \in Matches(chosen[r]) : TRUE) \in Accounts
        BY <2>1 DEF Matches, Open
    <2>3. PICK a \in Accounts \cup {None} :
              account' = [account EXCEPT ![r] = a] \/ UNCHANGED account
        BY <1>4, <2>2 DEF Match
    <2>4. stage[r] = "match" /\ UNCHANGED seen
          /\ stage' \in {[stage EXCEPT ![r] = there] : there \in {"balance", "closing"}}
        BY <1>4 DEF Match
    <2>5. Control /\ Computes
        BY <1>s, <2>3, <2>4 DEF Shape, OneActive
    <2> QED BY <1>0, <1>4, <2>5 DEF Match
<1>5. ASSUME NEW r \in Runs, ReadBalance(r) PROVE CorrectInv'
    <2>1. Control /\ Computes
        BY <1>5, <1>s DEF ReadBalance, Shape, OneActive
    <2> QED BY <1>0, <1>5, <2>1 DEF ReadBalance
<1>6. ASSUME NEW r \in Runs, AddTransaction(r) PROVE CorrectInv'
    <2>1. Control
        BY <1>6, <1>s DEF AddTransaction, Shape, OneActive
    <2>2. Shape'
        BY <1>6, <1>s, <2>1 DEF AddTransaction, WithCorrection, Shape
    <2> QED BY <1>6, <1>s, <2>1, <2>2, AddStep DEF AddTransaction, Shape
<1>7. ASSUME NEW r \in Runs, SyncAdd(r) PROVE CorrectInv'
    <2>1. Control /\ Computes
        BY <1>7, <1>s DEF SyncAdd, Shape, OneActive
    <2> QED BY <1>0, <1>7, <2>1 DEF SyncAdd
<1>8. ASSUME NEW r \in Runs, Refused(r) PROVE CorrectInv'
    <2>1. Control /\ Computes
        BY <1>8, <1>s DEF Refused, Shape, OneActive
    <2> QED BY <1>0, <1>8, <2>1 DEF Refused
<1>9. ASSUME NEW r \in Runs, Poisoned(r) \/ Crash(r) PROVE CorrectInv'
    <2>1. Control /\ Computes
        BY <1>9, <1>s DEF Poisoned, Crash, Shape, OneActive
    <2>2. CASE stage[r] = "add" /\ replica' = WithCorrection(r)
        <3>1. \/ server' = server
              \/ server' = [Merged EXCEPT !.txs = @ \cup {Correction(r)}]
            BY <1>9, <2>2 DEF Poisoned, Crash, SyncFails
        <3>2. Shape' /\ \A t \in server'.txs : t \in server.txs \/ t \in replica'.txs
            <4> DEFINE c == Correction(r)
            <4> HIDE DEF c
            <4>1. /\ replica'.txs = replica.txs \cup {c}
                  /\ replica' = [txs |-> replica'.txs, closed |-> replica'.closed]
                BY <1>s, <2>2 DEF Shape, WithCorrection, c
            <4>2. CASE server' = server
                BY <1>s, <2>1, <4>1, <4>2 DEF Shape
            <4>3. CASE server' = [Merged EXCEPT !.txs = @ \cup {c}]
                <5>1. /\ server'.txs = server.txs \cup replica.txs \cup {c}
                      /\ server' = [txs |-> server'.txs, closed |-> server'.closed]
                    BY <4>3 DEF Merged
                <5> QED BY <2>1, <4>1, <5>1 DEF Shape
            <4> QED BY <3>1, <4>2, <4>3 DEF c
        <3>3. UNCHANGED <<account, seen>>
              /\ stage' \in {[stage EXCEPT ![r] = there] : there \in {"ended", "dead"}}
            BY <1>9 DEF Poisoned, Crash
        <3>4. stage'[r] \notin Unwritten /\ \A s \in Runs : s # r => stage'[s] = stage[s]
            BY <1>s, <3>3 DEF Shape
        <3> HIDE DEF Control, Computes
        <3> QED BY <2>1, <2>2, <3>2, <3>3, <3>4, AddStep DEF Control
    <2>3. CASE UNCHANGED <<server, replica>> \/ SyncFails
        BY <1>0, <2>1, <2>3
    <2> QED BY <1>9, <2>2, <2>3 DEF Poisoned, Crash
<1>10. ASSUME NEW r \in Runs, Close(r) PROVE CorrectInv'
    <2>1. Control /\ Computes
        BY <1>10, <1>s DEF Close, Shape, OneActive
    <2> QED BY <1>0, <1>10, <2>1 DEF Close
<1>11. ASSUME NEW p \in Posts, UserPosts(p) PROVE CorrectInv'
    <2>1. Shape' /\ OneActive'
        BY <1>11, <1>s DEF UserPosts, Shape, OneActive
    <2>2. \A t \in server'.txs : t \in server.txs \/ t.by = p
        BY <1>11, <1>s DEF UserPosts, Shape
    <2>3. \A t \in server'.txs : t.by \in Runs => t \in replica'.txs
        BY <1>11, <2>2, NoneAssumption DEF UserPosts, CorrectInv, CorrectionIsLocal
    <2>4. UNCHANGED <<replica, stage, account, seen>>
        BY <1>11 DEF UserPosts
    <2> QED BY <2>1, <2>3, <2>4, QuietStep DEF CorrectInv, FreshBalance
<1>12. ASSUME NEW a \in Accounts, UserCloses(a) PROVE CorrectInv'
    <2>1. Shape' /\ OneActive'
        BY <1>12, <1>s DEF UserCloses, Shape, OneActive
    <2>2. server'.txs = server.txs /\ UNCHANGED <<replica, stage, account, seen>>
        BY <1>12, <1>s DEF UserCloses, Shape
    <2> QED BY <2>1, <2>2, QuietStep DEF CorrectInv, FreshBalance, CorrectionIsLocal
<1>13. CASE UNCHANGED vars
    BY <1>13, <1>s, <1>0 DEF vars, Shape, OneActive
<1> QED
    BY <1>1, <1>2, <1>3, <1>4, <1>5, <1>6, <1>7, <1>8, <1>9, <1>10, <1>11,
       <1>12, <1>13
       DEF Next, RunStep

\* No difference is corrected twice, for any number of runs of one data dir,
\* repeated after whatever failure or kill, however the user posts and closes
\* accounts (reconcile.rs:150-152, lock.rs:1-5).
THEOREM NoDoubleCorrection == Spec => []CorrectionsSeeEachOther
<1>1. CorrectInv => CorrectionsSeeEachOther
    BY DEF CorrectInv, CorrectionsSeeEachOther, Everywhere, CorrectionIsLocal,
           SeenInReplica
<1> QED BY <1>1, InitCorrectInv, NextCorrectInv, PTL DEF Spec

----------------------------------------------------------------------------
(* Types.                                                                  *)

Finite == IsFiniteSet(server.txs) /\ IsFiniteSet(replica.txs)

\* Nothing that a run has read disappears from the replica; a run reads its
\* balance before it writes.
SeenIsKept ==
    \A r \in Runs : seen[r] \subseteq replica.txs /\ \A t \in seen[r] : t.by # r

TypeInv == TypeOK /\ Finite /\ SeenIsKept

\* The balance of a finite ledger is a number.
LEMMA TotalType ==
    ASSUME NEW ledger, IsFiniteSet(ledger), \A t \in ledger : t \in Transactions, NEW a
    PROVE  Total(ledger, a) \in Int
<1> DEFINE amounts == [t \in ledger |-> t.amount]
           own == {t \in ledger : t.account = a}
<1>1. IsFiniteSet(own)
    BY FS_Subset
<1>2. \A t \in own : amounts[t] \in Int
    BY DEF Transactions
<1> HIDE DEF amounts, own
<1>3. SumFunctionOnSet(amounts, own) \in Int
    BY <1>1, <1>2, SumType
<1> QED BY <1>3 DEF Total, amounts, own

LEMMA CorrectionType ==
    ASSUME TypeInv, NEW r \in Runs, account[r] \in Accounts
    PROVE  Correction(r) \in Transactions
<1>1. IsFiniteSet(seen[r]) /\ \A t \in seen[r] : t \in Transactions
    BY FS_Subset DEF TypeInv, TypeOK, Finite, SeenIsKept
<1>2. Total(seen[r], account[r]) \in Int
    BY <1>1, TotalType
<1>3. Target[r] - Total(seen[r], account[r]) \in Int
    BY <1>2, TargetAssumption
<1> QED BY <1>3 DEF Correction, Transactions

LEMMA InitTypeInv == Init => TypeInv
<1> SUFFICES ASSUME Init PROVE TypeInv
    OBVIOUS
<1>1. server.txs = {} /\ replica.txs = {} /\ server.closed \subseteq Accounts
      /\ replica.closed \subseteq Accounts
    BY DEF Init
<1>2. TypeOK
    BY <1>1 DEF Init, TypeOK, Active, Reading, Writing, Results
<1> QED BY <1>1, <1>2, FS_EmptySet DEF Init, TypeInv, Finite, SeenIsKept

\* What a step may do to the copies of the budget.
Kept ==
    /\ server.txs \subseteq server'.txs /\ replica.txs \subseteq replica'.txs
    /\ IsFiniteSet(server'.txs) /\ IsFiniteSet(replica'.txs)
    /\ \A t \in server'.txs \cup replica'.txs : t \in Transactions
    /\ server'.closed \subseteq Accounts /\ replica'.closed \subseteq Accounts

LEMMA SyncKeeps ==
    ASSUME CorrectInv, TypeInv, UNCHANGED <<server, replica>> \/ Sync \/ SyncFails
    PROVE  Kept
<1>1. IsFiniteSet(server.txs \cup replica.txs)
    BY FS_Union DEF TypeInv, Finite
<1>2. /\ server.closed \subseteq Accounts /\ replica.closed \subseteq Accounts
      /\ \A t \in server.txs \cup replica.txs : t \in Transactions
      /\ IsFiniteSet(server.txs) /\ IsFiniteSet(replica.txs)
    BY DEF TypeInv, TypeOK, Finite
<1>3. /\ server' \in {server, Merged} /\ replica' \in {replica, Merged}
      /\ Merged.txs = server.txs \cup replica.txs /\ Merged.closed = server.closed
    BY DEF Sync, SyncFails, Merged
<1> HIDE DEF Merged
<1> QED BY <1>1, <1>2, <1>3 DEF Kept

LEMMA CorrectionKeeps ==
    ASSUME CorrectInv, TypeInv, NEW r \in Runs, stage[r] = "add",
           replica' = WithCorrection(r),
           \/ server' = server
           \/ server' = [Merged EXCEPT !.txs = @ \cup {Correction(r)}]
    PROVE  Kept
<1>1. account[r] \in Accounts
    BY DEF TypeInv, TypeOK, Writing
<1> DEFINE c == Correction(r)
<1>2. c \in Transactions
    BY <1>1, CorrectionType
<1>3. replica'.txs = replica.txs \cup {c} /\ replica'.closed = replica.closed
    BY DEF CorrectInv, Shape, WithCorrection
<1>4. \/ server' = server
      \/ /\ server'.txs = server.txs \cup replica.txs \cup {c}
         /\ server'.closed = server.closed
    BY DEF Merged
<1>5. /\ IsFiniteSet(server.txs) /\ IsFiniteSet(replica.txs \cup {c})
      /\ IsFiniteSet(server.txs \cup replica.txs \cup {c})
    <2>1. IsFiniteSet(server.txs \cup replica.txs)
        BY FS_Union DEF TypeInv, Finite
    <2> HIDE DEF c
    <2> QED BY <2>1, FS_AddElement DEF TypeInv, Finite
<1>6. /\ server.closed \subseteq Accounts /\ replica.closed \subseteq Accounts
      /\ \A t \in server.txs \cup replica.txs : t \in Transactions
    BY DEF TypeInv, TypeOK
<1> HIDE DEF c
<1> QED BY <1>2, <1>3, <1>4, <1>5, <1>6 DEF Kept

LEMMA UserKeeps ==
    ASSUME CorrectInv, TypeInv, NEW p \in Posts, UserPosts(p)
    PROVE  Kept
<1>1. PICK t \in Transactions : server' = [server EXCEPT !.txs = @ \cup {t}]
    BY TargetAssumption DEF UserPosts, Transactions
<1>2. server'.txs = server.txs \cup {t} /\ server'.closed = server.closed
    BY <1>1 DEF CorrectInv, Shape
<1>3. IsFiniteSet(server.txs \cup {t})
    BY FS_AddElement DEF TypeInv, Finite
<1>4. /\ server.closed \subseteq Accounts /\ replica.closed \subseteq Accounts
      /\ \A u \in server.txs \cup replica.txs : u \in Transactions
      /\ IsFiniteSet(replica.txs)
    BY DEF TypeInv, TypeOK, Finite
<1> QED BY <1>2, <1>3, <1>4 DEF Kept, UserPosts

\* Every step keeps what the copies hold.
LEMMA LedgersKept == ASSUME CorrectInv, TypeInv, [Next]_vars PROVE Kept
<1>1. ASSUME UNCHANGED <<server, replica>> \/ Sync \/ SyncFails PROVE Kept
    BY <1>1, SyncKeeps
<1>2. ASSUME NEW r \in Runs, AddTransaction(r) \/ Poisoned(r) \/ Crash(r) PROVE Kept
    <2>1. CASE stage[r] = "add" /\ replica' = WithCorrection(r)
        <3>1. \/ server' = server
              \/ server' = [Merged EXCEPT !.txs = @ \cup {Correction(r)}]
            BY <1>2, <2>1 DEF AddTransaction, Poisoned, Crash, SyncFails
        <3> QED BY <2>1, <3>1, CorrectionKeeps
    <2>2. CASE UNCHANGED <<server, replica>> \/ SyncFails
        BY <1>1, <2>2
    <2> QED BY <1>2, <2>1, <2>2 DEF AddTransaction, Poisoned, Crash
<1>3. ASSUME NEW r \in Runs,
             \/ Lock(r) \/ OpenSession(r) \/ Resolve(r) \/ Match(r) \/ ReadBalance(r)
             \/ SyncAdd(r) \/ Refused(r) \/ Close(r)
      PROVE  Kept
    BY <1>1, <1>3 DEF Lock, OpenSession, Resolve, Match, ReadBalance, SyncAdd,
                      Refused, Close
<1>4. ASSUME NEW a \in Accounts, UserCloses(a) PROVE Kept
    <2>1. /\ server'.txs = server.txs /\ replica' = replica
          /\ server'.closed = server.closed \cup {a}
        BY <1>4 DEF CorrectInv, Shape, UserCloses
    <2>2. /\ server.closed \subseteq Accounts /\ replica.closed \subseteq Accounts
          /\ \A u \in server.txs \cup replica.txs : u \in Transactions
          /\ IsFiniteSet(server.txs) /\ IsFiniteSet(replica.txs)
        BY DEF TypeInv, TypeOK, Finite
    <2> QED BY <2>1, <2>2 DEF Kept
<1>5. CASE UNCHANGED vars
    BY <1>1, <1>5 DEF vars
<1> QED BY <1>2, <1>3, <1>4, <1>5, UserKeeps DEF Next, RunStep

LEMMA NextTypeInv == ASSUME CorrectInv, TypeInv, [Next]_vars PROVE TypeInv'
<1> USE DEF Goto, Return, Fail
<1>k. Kept
    BY LedgersKept
<1> DEFINE Control ==
        /\ stage' \in [Runs -> {"new", "ended", "dead"} \cup Active]
        /\ chosen' \in [Runs -> Keys \cup {None}]
        /\ picked' \subseteq Terminal
        /\ account' \in [Runs -> Accounts \cup {None}]
        /\ result' \in [Runs -> Results]
        /\ \A r \in Runs : stage'[r] \in Writing \cup {"balance"} => account'[r] # None
           Reads ==
        \A r \in Runs :
            \/ seen'[r] = seen[r]
            \/ /\ seen'[r] = replica.txs
               /\ \A t \in replica.txs : t.by # r
<1>t. /\ stage \in [Runs -> {"new", "ended", "dead"} \cup Active]
      /\ chosen \in [Runs -> Keys \cup {None}]
      /\ picked \subseteq Terminal
      /\ account \in [Runs -> Accounts \cup {None}]
      /\ result \in [Runs -> Results]
      /\ \A r \in Runs : stage[r] \in Writing \cup {"balance"} => account[r] # None
    BY DEF TypeInv, TypeOK
<1> USE DEF Active, Reading, Writing, Reported, Results
<1>0. ASSUME Control, Reads PROVE TypeInv'
    <2>1. SeenIsKept'
        BY <1>0, <1>k DEF TypeInv, SeenIsKept, Kept
    <2>2. \A r \in Runs : \A t \in seen'[r] : t \in Transactions
        BY <2>1, <1>k DEF SeenIsKept, Kept
    <2>3. /\ \A t \in server'.txs : t \in Transactions
          /\ \A t \in replica'.txs : t \in Transactions
          /\ server'.closed \subseteq Accounts /\ replica'.closed \subseteq Accounts
          /\ Finite'
        BY <1>k DEF Kept, Finite
    <2>4. \A copy \in {server', replica'} :
              copy.closed \subseteq Accounts /\ \A t \in copy.txs : t \in Transactions
        BY <2>3
    <2> QED BY <1>0, <2>1, <2>2, <2>3, <2>4 DEF TypeInv, TypeOK
<1>1. ASSUME NEW r \in Runs, Lock(r) \/ OpenSession(r) \/ SyncAdd(r) \/ Refused(r)
                             \/ AddTransaction(r) \/ Close(r) \/ Poisoned(r) \/ Crash(r)
      PROVE  TypeInv'
    <2>1. Reads
        BY <1>1 DEF Lock, OpenSession, SyncAdd, Refused, AddTransaction, Close,
                    Poisoned, Crash
    <2>2. UNCHANGED <<chosen, picked, account>>
        BY <1>1 DEF Lock, OpenSession, SyncAdd, Refused, AddTransaction, Close,
                    Poisoned, Crash
    <2>3. \E there \in {"ended", "dead"} \cup Active, value \in Results :
              /\ stage' = [stage EXCEPT ![r] = there]
              /\ result' = [result EXCEPT ![r] = value] \/ UNCHANGED result
              /\ there \in Writing \cup {"balance"} => stage[r] \in Writing
        BY <1>1 DEF Lock, OpenSession, SyncAdd, Refused, AddTransaction, Close,
                    Poisoned, Crash
    <2>4. Control
        BY <1>t, <2>2, <2>3
    <2> QED BY <1>0, <2>1, <2>4
<1>2. ASSUME NEW r \in Runs, Resolve(r) PROVE TypeInv'
    <2>1. Reads
        BY <1>2 DEF Resolve
    <2>2. \E key \in Keys : chosen' = [chosen EXCEPT ![r] = key] \/ UNCHANGED chosen
        <3>1. Query[r] \in Keys
            BY DEF Keys
        <3>2. \A a \in Options(Query[r]) : Key[a] \in Keys
            BY DEF Options, Matches, Open, Keys
        <3> QED BY <1>2, <3>1, <3>2 DEF Resolve
    <2>3. /\ picked' \subseteq Terminal /\ UNCHANGED account
          /\ \E there \in {"match", "closing"} : stage' = [stage EXCEPT ![r] = there]
          /\ \E value \in Results :
                result' = [result EXCEPT ![r] = value] \/ UNCHANGED result
        BY <1>2, <1>t DEF Resolve, Refusal
    <2>4. Control
        BY <1>t, <2>2, <2>3
    <2> QED BY <1>0, <2>1, <2>4
<1>3. ASSUME NEW r \in Runs, Match(r) PROVE TypeInv'
    <2>1. Reads
        BY <1>3 DEF Match
    <2>2. Found(chosen[r]) =>
              (CHOOSE a \in Matches(chosen[r]) : TRUE) \in Accounts
        <3>1. Found(chosen[r]) => Matches(chosen[r]) # {}
            BY FS_EmptySet DEF Found
        <3> QED BY <3>1 DEF Matches, Open
    <2>3. \/ \E a \in Accounts : /\ account' = [account EXCEPT ![r] = a]
                                 /\ stage' = [stage EXCEPT ![r] = "balance"]
                                 /\ UNCHANGED result
          \/ /\ UNCHANGED account
             /\ stage' = [stage EXCEPT ![r] = "closing"]
             /\ \E value \in Results : result' = [result EXCEPT ![r] = value]
        BY <1>3, <2>2 DEF Match, Refusal
    <2>4. UNCHANGED <<chosen, picked>>
        BY <1>3 DEF Match
    <2>5. Control
        BY <1>t, <2>3, <2>4, NoneAssumption
    <2> QED BY <1>0, <2>1, <2>5
<1>4. ASSUME NEW r \in Runs, ReadBalance(r) PROVE TypeInv'
    <2>1. \A t \in replica.txs : t.by # r
        BY <1>4 DEF ReadBalance, CorrectInv, CorrectionIsOwn, Unwritten
    <2>2. Reads
        BY <1>4, <2>1 DEF ReadBalance, CorrectInv, Shape
    <2>3. \E there \in {"add", "closing"}, value \in Results :
              /\ stage' = [stage EXCEPT ![r] = there]
              /\ result' = [result EXCEPT ![r] = value] \/ UNCHANGED result
        BY <1>4 DEF ReadBalance
    <2>4. Control
        BY <1>4, <1>t, <2>3 DEF ReadBalance
    <2> QED BY <1>0, <2>2, <2>4
<1>5. ASSUME UNCHANGED <<stage, chosen, picked, account, seen, result>>
      PROVE  TypeInv'
    BY <1>0, <1>5, <1>t
<1> QED BY <1>1, <1>2, <1>3, <1>4, <1>5 DEF Next, RunStep, UserPosts, UserCloses, vars

\* Runs, accounts and transactions keep their types, for any number of them.
THEOREM TypeCorrect == Spec => []TypeOK
<1>1. TypeInv => TypeOK
    BY DEF TypeInv
<1> QED BY <1>1, InitCorrectInv, NextCorrectInv, InitTypeInv, NextTypeInv, PTL DEF Spec

----------------------------------------------------------------------------
(* What a reported success rests on.                                       *)

Late == {"closing", "ended", "dead"}

\* A run that has nothing to add has the target in what it has read; the
\* correction of another is in the replica from the moment it is written, and
\* once its session is closed all of this is on the server.
Stands(r) ==
    /\ result[r] # "none" => stage[r] \in Late
    /\ stage[r] = "syncing" \/ result[r] = "adjusted" => Correction(r) \in replica.txs
    /\ result[r] = "already" =>
          /\ Total(seen[r], account[r]) = Target[r]
          /\ \A t \in replica.txs : t.by # r
    /\ stage[r] = "ended" /\ result[r] \in Reported =>
          /\ seen[r] \subseteq server.txs
          /\ result[r] = "adjusted" => Correction(r) \in server.txs

BalanceInv == CorrectInv /\ TypeInv /\ \A r \in Runs : Stands(r)

LEMMA InitBalanceInv == Init => BalanceInv
BY InitCorrectInv, InitTypeInv DEF Init, BalanceInv, Stands, Reported, Late

\* A transaction adds its amount to the balance of its account.
LEMMA TotalAdd ==
    ASSUME NEW ledger, IsFiniteSet(ledger), \A t \in ledger : t \in Transactions,
           NEW c \in Transactions, c \notin ledger
    PROVE  Total(ledger \cup {c}, c.account) = Total(ledger, c.account) + c.amount
<1> DEFINE before == [t \in ledger |-> t.amount]
           after == [t \in ledger \cup {c} |-> t.amount]
           own == {t \in ledger : t.account = c.account}
           all == {t \in ledger \cup {c} : t.account = c.account}
<1>1. all = own \cup {c} /\ c \notin own
    OBVIOUS
<1>2. IsFiniteSet(own) /\ IsFiniteSet(all)
    BY <1>1, FS_Subset, FS_AddElement
<1>3. \A t \in all : after[t] \in Int
    BY DEF Transactions
<1>4. \A t \in own : before[t] \in Int /\ before[t] = after[t]
    BY DEF Transactions
<1>5. after[c] = c.amount /\ c.amount \in Int /\ all \ {c} = own
    BY <1>1 DEF Transactions
<1> HIDE DEF before, after, own, all
<1>6. SumFunctionOnSet(after, all) = c.amount + SumFunctionOnSet(after, own)
    BY <1>1, <1>2, <1>3, <1>5, SumRemove
<1>7. SumFunctionOnSet(before, own) = SumFunctionOnSet(after, own)
    BY <1>2, <1>4, SumSame
<1>8. SumFunctionOnSet(before, own) \in Int
    BY <1>2, <1>4, SumType
<1>9. /\ Total(ledger, c.account) = SumFunctionOnSet(before, own)
      /\ Total(ledger \cup {c}, c.account) = SumFunctionOnSet(after, all)
    BY DEF Total, before, after, own, all
<1> QED BY <1>5, <1>6, <1>7, <1>8, <1>9

LEMMA BalanceHolds == BalanceInv => ReportedBalanceHolds
<1> SUFFICES ASSUME BalanceInv, NEW r \in Runs, stage[r] = "ended", result[r] \in Reported
             PROVE  Total({t \in server.txs : t \in seen[r] \/ t.by = r}, account[r])
                      = Target[r]
    BY DEF ReportedBalanceHolds
<1> DEFINE counted == {t \in server.txs : t \in seen[r] \/ t.by = r}
<1>1. /\ seen[r] \subseteq server.txs
      /\ \A t \in server.txs : t.by = r => t \in replica.txs
    BY DEF BalanceInv, Stands, CorrectInv, CorrectionIsLocal
<1>2. CASE result[r] = "already"
    <2>1. counted = seen[r]
        BY <1>1, <1>2 DEF BalanceInv, Stands
    <2> QED BY <1>2, <2>1 DEF BalanceInv, Stands
<1>3. CASE result[r] = "adjusted"
    <2> DEFINE c == Correction(r)
    <2>1. c \in server.txs /\ \A t \in server.txs : t.by = r => t = c
        BY <1>1, <1>3 DEF BalanceInv, Stands, CorrectInv, CorrectionIsOwn, Reported
    <2>2. c.by = r /\ c.account = account[r]
          /\ c.amount = Target[r] - Total(seen[r], account[r])
        BY DEF Correction
    <2>3. c \in Transactions /\ c \notin seen[r]
        BY <2>1, <2>2 DEF BalanceInv, TypeInv, TypeOK, SeenIsKept
    <2>4. /\ IsFiniteSet(seen[r]) /\ \A t \in seen[r] : t \in Transactions
        BY FS_Subset DEF BalanceInv, TypeInv, TypeOK, Finite, SeenIsKept
    <2> HIDE DEF c
    <2>5. counted = seen[r] \cup {c}
        BY <1>1, <2>1, <2>2
    <2>6. Total(counted, account[r]) = Total(seen[r], account[r]) + c.amount
        BY <2>2, <2>3, <2>4, <2>5, TotalAdd
    <2>7. Total(seen[r], account[r]) \in Int /\ Target[r] \in Int
        BY <2>4, TotalType, TargetAssumption
    <2> QED BY <2>2, <2>6, <2>7
<1> QED BY <1>2, <1>3 DEF Reported

\* A run that a step does not concern, or only kills.
LEMMA StandsKept ==
    ASSUME BalanceInv, Kept, NEW r \in Runs,
           account'[r] = account[r], seen'[r] = seen[r], result'[r] = result[r],
           stage'[r] = stage[r] \/ stage'[r] = "dead",
           \A t \in replica'.txs : t.by = r => t \in replica.txs
    PROVE  Stands(r)'
<1>1. Correction(r)' = Correction(r)
    BY DEF Correction
<1> QED BY <1>1 DEF BalanceInv, Stands, Kept, Late

\* Transactions that a step brings to the replica are no corrections, or those
\* of the run that takes the step.
LEMMA NewInReplica ==
    ASSUME BalanceInv, NEW r \in Runs, RunStep(r) \/ Crash(r)
    PROVE  \A t \in replica'.txs : t.by \in Runs \ {r} => t \in replica.txs
<1>1. CASE UNCHANGED replica
    BY <1>1
<1>2. CASE Sync
    BY <1>2 DEF Sync, Merged, BalanceInv, CorrectInv, CorrectionIsLocal
<1>3. CASE replica' = WithCorrection(r)
    <2>1. replica'.txs = replica.txs \cup {Correction(r)} /\ Correction(r).by = r
        BY <1>3 DEF BalanceInv, CorrectInv, Shape, WithCorrection, Correction
    <2> QED BY <2>1
<1> QED
    BY <1>1, <1>2, <1>3
       DEF RunStep, Lock, OpenSession, Resolve, Match, ReadBalance, AddTransaction,
           SyncAdd, Refused, Poisoned, Close, Crash, SyncFails

\* The run that takes a step.
LEMMA StandsAfterOwnStep ==
    ASSUME BalanceInv, [Next]_vars, NEW r \in Runs, RunStep(r) \/ Crash(r)
    PROVE  Stands(r)'
<1> USE DEF Goto, Return, Fail, Late, Reported
<1>k. Kept
    BY LedgersKept DEF BalanceInv
<1>t. Shape /\ Stands(r) /\ result \in [Runs -> Results]
    BY DEF BalanceInv, CorrectInv, TypeInv, TypeOK
<1>n. stage[r] \notin Late => result[r] = "none"
    BY <1>t DEF Stands
<1>1. ASSUME result'[r] = "none", stage'[r] # "syncing" PROVE Stands(r)'
    BY <1>1 DEF Stands
<1>2. ASSUME result'[r] \notin Reported, stage'[r] \in Late PROVE Stands(r)'
    BY <1>2 DEF Stands
<1>3. CASE Lock(r)
    BY <1>1, <1>2, <1>3, <1>n, <1>t DEF Lock, Shape
<1>4. CASE OpenSession(r)
    BY <1>1, <1>2, <1>4, <1>n, <1>t DEF OpenSession, Shape
<1>5. CASE Resolve(r)
    BY <1>1, <1>2, <1>5, <1>n, <1>t DEF Resolve, Shape, Refusal
<1>6. CASE Match(r)
    BY <1>1, <1>2, <1>6, <1>n, <1>t DEF Match, Shape, Refusal
<1>7. CASE ReadBalance(r)
    <2>1. CASE result' = [result EXCEPT ![r] = "already"]
        <3>1. /\ seen'[r] = replica.txs /\ account' = account /\ replica' = replica
              /\ Target[r] - Total(replica.txs, account[r]) = 0
              /\ stage'[r] = "closing" /\ result'[r] = "already"
            BY <1>7, <1>n, <1>t, <2>1 DEF ReadBalance, Shape, Results
        <3>2. \A t \in replica.txs : t.by # r
            BY <1>7 DEF ReadBalance, BalanceInv, CorrectInv, CorrectionIsOwn,
                        Unwritten, Reading
        <3>3. Total(replica.txs, account[r]) \in Int
            BY TotalType DEF BalanceInv, TypeInv, TypeOK, Finite
        <3>4. Total(replica.txs, account[r]) = Target[r]
            BY <3>1, <3>3, TargetAssumption
        <3> QED BY <3>1, <3>2, <3>4 DEF Stands
    <2>2. CASE result' = [result EXCEPT ![r] = "preview"] \/ UNCHANGED result
        BY <1>1, <1>2, <1>7, <1>n, <1>t, <2>2 DEF ReadBalance, Shape, Results
    <2> QED BY <1>7, <2>1, <2>2 DEF ReadBalance
<1>8. CASE AddTransaction(r)
    <2>1. Correction(r) \in replica'.txs /\ Correction(r)' = Correction(r)
        BY <1>8, <1>t DEF AddTransaction, WithCorrection, Correction, Shape
    <2>2. stage'[r] = "syncing" /\ result'[r] = "none"
        BY <1>8, <1>n, <1>t DEF AddTransaction, Shape
    <2> QED BY <2>1, <2>2 DEF Stands
<1>9. CASE SyncAdd(r)
    <2>1. stage'[r] = "closing" /\ result'[r] = "adjusted" /\ stage[r] = "syncing"
        BY <1>9, <1>t DEF SyncAdd, Shape
    <2>2. Correction(r)' = Correction(r)
        BY <1>9 DEF SyncAdd, Correction
    <2> QED BY <1>k, <1>t, <2>1, <2>2 DEF Stands, Kept
<1>10. CASE Refused(r)
    BY <1>2, <1>10, <1>t DEF Refused, Shape
<1>11. CASE Poisoned(r)
    BY <1>2, <1>11, <1>t DEF Poisoned, Shape
<1>12. CASE Close(r)
    <2>1. CASE Sync /\ Goto(r, "ended") /\ UNCHANGED result
        <3>1. /\ stage'[r] = "ended" /\ stage[r] = "closing"
              /\ UNCHANGED <<account, seen, result>>
            BY <1>12, <1>t, <2>1 DEF Close, Shape
        <3>2. server'.txs = server.txs \cup replica.txs /\ replica' = server'
            BY <2>1 DEF Sync, Merged
        <3>3. Correction(r)' = Correction(r)
            BY <3>1 DEF Correction
        <3>4. seen[r] \subseteq replica.txs
            BY DEF BalanceInv, TypeInv, SeenIsKept
        <3>5. \A t \in server.txs : t.by = r => t \in replica.txs
            BY DEF BalanceInv, CorrectInv, CorrectionIsLocal
        <3> QED BY <1>t, <3>1, <3>2, <3>3, <3>4, <3>5 DEF Stands
    <2>2. CASE result'[r] = "error" /\ stage'[r] = "ended"
        BY <1>2, <2>2
    <2>3. CASE result[r] \notin Reported /\ Goto(r, "ended") /\ UNCHANGED result
        BY <1>2, <1>t, <2>3 DEF Shape
    <2> QED BY <1>12, <1>t, <2>1, <2>2, <2>3 DEF Close, Shape
<1>13. CASE Crash(r)
    <2>1. stage'[r] = "dead" /\ UNCHANGED <<account, seen, result>>
        BY <1>13, <1>t DEF Crash, Shape
    <2>2. CASE result[r] = "none"
        BY <1>1, <2>1, <2>2
    <2>3. CASE result[r] # "none"
        <3>1. UNCHANGED replica
            BY <1>13, <1>t, <2>3 DEF Crash, SyncFails, Stands
        <3> QED BY <1>k, <2>1, <3>1, StandsKept
    <2> QED BY <2>2, <2>3
<1> QED
    BY <1>3, <1>4, <1>5, <1>6, <1>7, <1>8, <1>9, <1>10, <1>11, <1>12, <1>13
       DEF RunStep

\* A run leaves the others where they are.
LEMMA OthersAlone ==
    ASSUME Shape, result \in [Runs -> Results],
           NEW r \in Runs, RunStep(r) \/ Crash(r), NEW s \in Runs, s # r
    PROVE  /\ stage'[s] = stage[s] /\ result'[s] = result[s]
           /\ account'[s] = account[s] /\ seen'[s] = seen[s]
<1> USE DEF Goto, Return, Fail, Shape
<1>1. CASE ReadBalance(r)
    BY <1>1 DEF ReadBalance
<1>2. CASE Match(r)
    BY <1>2 DEF Match
<1> QED
    BY <1>1, <1>2
       DEF RunStep, Lock, OpenSession, Resolve, AddTransaction,
           SyncAdd, Refused, Poisoned, Close, Crash

LEMMA NextBalanceInv == ASSUME BalanceInv, [Next]_vars PROVE BalanceInv'
<1>1. CorrectInv' /\ TypeInv' /\ Kept
    BY NextCorrectInv, NextTypeInv, LedgersKept DEF BalanceInv
<1>2. ASSUME NEW r \in Runs, RunStep(r) \/ Crash(r), NEW s \in Runs PROVE Stands(s)'
    <2>1. CASE s = r
        BY <1>2, <2>1, StandsAfterOwnStep
    <2>2. CASE s # r
        <3>1. /\ stage'[s] = stage[s] /\ result'[s] = result[s]
              /\ account'[s] = account[s] /\ seen'[s] = seen[s]
            BY <1>2, <2>2, OthersAlone DEF BalanceInv, CorrectInv, TypeInv, TypeOK
        <3>2. \A t \in replica'.txs : t.by = s => t \in replica.txs
            BY <1>2, <2>2, NewInReplica
        <3> QED BY <1>1, <3>1, <3>2, StandsKept
    <2> QED BY <2>1, <2>2
<1>3. ASSUME UNCHANGED <<replica, stage, account, seen, result>>, NEW s \in Runs
      PROVE  Stands(s)'
    BY <1>1, <1>3, StandsKept
<1>4. \A s \in Runs : Stands(s)'
    BY <1>2, <1>3 DEF Next, UserPosts, UserCloses, vars
<1> QED BY <1>1, <1>4 DEF BalanceInv

\* When set-balance reports success, what it has read and its own correction
\* add up to the target on the server, for any number of runs, users and
\* accounts, and any ledger (settings.rs:272-294, reconcile.rs:54-72 and
\* 150-158).
THEOREM ReportsHold == Spec => []ReportedBalanceHolds
BY InitBalanceInv, NextBalanceInv, BalanceHolds, PTL DEF Spec
=============================================================================
