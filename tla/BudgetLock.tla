----------------------------- MODULE BudgetLock -----------------------------
(***************************************************************************)
(* The advisory lock on the data dir (crates/actual/src/lock.rs) and the   *)
(* life of the sessions it protects: tasks of one or several `abh`         *)
(* processes acquire it in BridgeConfig::open_session, spawn a bridge that *)
(* opens the local budget replica, use it, and let both go.  A process may *)
(* be killed; its bridge child is not killed with it.                      *)
(*                                                                         *)
(* A session is the few steps of its life that matter to the lock; module  *)
(* BridgeSession has the inside of it, and shows that a closed or dropped  *)
(* session has no running bridge.                                          *)
(***************************************************************************)
EXTENDS Naturals, FiniteSets

CONSTANTS
    Tasks,       \* runs of with_session: CLI commands, daemon ticks
    Processes,   \* abh processes
    ProcessOf,   \* the process each task runs in
    Crashable,   \* the processes that may be killed
    Interactive, \* the tasks that may wait for somebody at a terminal
    Nobody       \* the lock is free

ASSUME TasksAssumption == Nobody \notin Tasks
ASSUME ProcessAssumption == /\ ProcessOf \in [Tasks -> Processes]
                            /\ Crashable \subseteq Processes
ASSUME InteractiveAssumption == Interactive \subseteq Tasks

VARIABLES
    pc,      \* where each task is
    owner,   \* whose File holds the lock of .abh-session.lock
    bridge   \* the bridge each task spawned: "none", "child", or "orphan"

lockVars == <<pc, owner, bridge>>

Stages == {"start", "waiting", "locked", "opening", "session", "user",
           "closed", "done", "dead"}

\* The stages in which the task owns a BudgetLock value.
Holding == {"locked", "opening", "session", "user", "closed"}

LockTypeOK ==
    /\ pc \in [Tasks -> Stages]
    /\ owner \in Tasks \cup {Nobody}
    /\ bridge \in [Tasks -> {"none", "child", "orphan"}]

LockInit ==
    /\ pc = [t \in Tasks |-> "start"]
    /\ owner = Nobody
    /\ bridge = [t \in Tasks |-> "none"]

----------------------------------------------------------------------------
\* Variant: a lock that belongs to the process, like fcntl's.
LockFreePosix(t) ==
    owner \in {Nobody} \cup {u \in Tasks : ProcessOf[u] = ProcessOf[t]}

\* flock belongs to the open file: two tasks of one process exclude each
\* other like tasks of two processes.
LockFree(t) == owner = Nobody

Lock(t) ==
    /\ LockFree(t)
    /\ owner' = t
    /\ pc' = [pc EXCEPT ![t] = "locked"]
    /\ UNCHANGED bridge

\* The first try_lock of acquire_blocking.
TryLock(t) ==
    /\ pc[t] = "start"
    /\ \/ Lock(t)
       \/ /\ ~LockFree(t)
          /\ pc' = [pc EXCEPT ![t] = "waiting"]
          /\ UNCHANGED <<owner, bridge>>

\* The polls that follow, up to the deadline.
PollLock(t) ==
    /\ pc[t] = "waiting"
    /\ \/ Lock(t)
       \/ /\ ~LockFree(t)
          /\ pc' = [pc EXCEPT ![t] = "done"]
          /\ UNCHANGED <<owner, bridge>>

\* The cache dir or the lock file cannot be created or locked.
LockFails(t) ==
    /\ pc[t] \in {"start", "waiting"}
    /\ pc' = [pc EXCEPT ![t] = "done"]
    /\ UNCHANGED <<owner, bridge>>

Spawn(t) ==
    /\ pc[t] = "locked"
    /\ pc' = [pc EXCEPT ![t] = "opening"]
    /\ bridge' = [bridge EXCEPT ![t] = "child"]
    /\ UNCHANGED owner

\* The fields of the session are dropped in order: `io` kills the child, then
\* `_lock` lets the lock go.
Release(t) ==
    /\ pc' = [pc EXCEPT ![t] = "done"]
    /\ bridge' = [bridge EXCEPT ![t] = "none"]
    /\ owner' = Nobody

SpawnFails(t) == pc[t] = "locked" /\ Release(t)

Opened(t) ==
    /\ pc[t] = "opening"
    /\ pc' = [pc EXCEPT ![t] = "session"]
    /\ UNCHANGED <<owner, bridge>>

OpenFails(t) == pc[t] = "opening" /\ Release(t)

\* Inside the session set-balance asks which account is meant, and what a
\* command prints may go to a pipe that nobody reads: either waits without a
\* limit, the lock held and the bridge idle.
WaitForUser(t) ==
    /\ t \in Interactive /\ pc[t] = "session"
    /\ pc' = [pc EXCEPT ![t] = "user"]
    /\ UNCHANGED <<owner, bridge>>

\* An account is picked, the question is cancelled, or the output is read: the
\* closure goes on, if only to return its error.
UserAnswers(t) ==
    /\ pc[t] = "user"
    /\ pc' = [pc EXCEPT ![t] = "session"]
    /\ UNCHANGED <<owner, bridge>>

\* with_session always closes; the bridge has exited or been killed by then.
CloseSession(t) ==
    /\ pc[t] = "session"
    /\ pc' = [pc EXCEPT ![t] = "closed"]
    /\ bridge' = [bridge EXCEPT ![t] = "none"]
    /\ UNCHANGED owner

\* Variant: a session that was not closed forgets the lock.
DropSessionForgettingLock(t) ==
    /\ pc[t] \in {"session", "closed"}
    /\ pc' = [pc EXCEPT ![t] = "done"]
    /\ bridge' = [bridge EXCEPT ![t] = "none"]
    /\ owner' = IF pc[t] = "closed" THEN Nobody ELSE owner

\* The session value is dropped, closed or not (its future was cancelled).
DropSession(t) == pc[t] \in {"session", "closed"} /\ Release(t)

\* The bridge ends by itself: a fatal error, a crash of its own.
BridgeEnds(t) ==
    /\ bridge[t] = "child"
    /\ bridge' = [bridge EXCEPT ![t] = "none"]
    /\ UNCHANGED <<pc, owner>>

\* The task's next session: the next tick, the next command.
Again(t) ==
    /\ pc[t] \in {"done", "dead"} /\ bridge[t] = "none"
    /\ pc' = [pc EXCEPT ![t] = "start"]
    /\ UNCHANGED <<owner, bridge>>

----------------------------------------------------------------------------
\* A process is killed (SIGKILL, power of the container): the kernel closes
\* its files, hence releases its lock; no destructor runs, hence nothing kills
\* its bridges.
Killed(p, t) == ProcessOf[t] = p

\* Variant: a lock that is a file, which a kill leaves behind.
CrashKeepingLock(p) ==
    /\ p \in Crashable
    /\ pc' = [t \in Tasks |-> IF Killed(p, t) THEN "dead" ELSE pc[t]]
    /\ bridge' = [t \in Tasks |-> IF Killed(p, t) /\ bridge[t] = "child"
                                  THEN "orphan" ELSE bridge[t]]
    /\ UNCHANGED owner

Crash(p) ==
    /\ p \in Crashable
    /\ pc' = [t \in Tasks |-> IF Killed(p, t) THEN "dead" ELSE pc[t]]
    /\ owner' = IF owner # Nobody /\ Killed(p, owner) THEN Nobody ELSE owner
    /\ bridge' = [t \in Tasks |-> IF Killed(p, t) /\ bridge[t] = "child"
                                  THEN "orphan" ELSE bridge[t]]

\* An orphan answers the request it has, reads end of file on its stdin and
\* leaves (index.js:156-160, 231-245).
OrphanEnds(t) ==
    /\ bridge[t] = "orphan"
    /\ bridge' = [bridge EXCEPT ![t] = "none"]
    /\ UNCHANGED <<pc, owner>>

----------------------------------------------------------------------------
TaskStep(t) ==
    \/ TryLock(t) \/ PollLock(t) \/ LockFails(t)
    \/ Spawn(t) \/ SpawnFails(t) \/ Opened(t) \/ OpenFails(t)
    \/ WaitForUser(t) \/ CloseSession(t) \/ DropSession(t)

LockNext ==
    \/ \E t \in Tasks :
          TaskStep(t) \/ UserAnswers(t) \/ BridgeEnds(t) \/ OrphanEnds(t) \/ Again(t)
    \/ \E p \in Processes : Crash(p)

LockSpec == LockInit /\ [][LockNext]_lockVars

\* Every wait of a task that is not for a user is bounded: the lock is polled
\* until its deadline, and calls and closes return (EveryCallReturns of
\* BridgeSession).  Nothing is assumed of users, of kills, or of bridges.
LockFairness == \A t \in Tasks : WF_lockVars(TaskStep(t))

FairLockSpec == LockSpec /\ LockFairness

----------------------------------------------------------------------------
(* Properties.  A `Variant` above is a definition with a mistake that one  *)
(* of them must catch; no specification uses it.                           *)

Running(t) == bridge[t] # "none"

\* lock.rs:3-5: sessions "never open the same local budget replica at once".
\* True when no process may be killed (Exclusion in DataDir_proofs).
ReplicaExclusive == \A t, u \in Tasks : Running(t) /\ Running(u) => t = u

\* What the code gives when processes may be killed: of two bridges on the
\* same replica, one has lost its parent (session.rs:71, lock.rs:7-9).
OnlyOrphansShare ==
    \A t, u \in Tasks :
        t # u /\ Running(t) /\ Running(u)
        => bridge[t] = "orphan" \/ bridge[u] = "orphan"

\* The lock is held by a living task that has yet to let it go, so that "a
\* crashed holder never wedges it permanently" (lock.rs:7-9).
LockHeldByItsSession ==
    \A t \in Tasks : owner = t <=> pc[t] \in Holding

\* Whoever holds the lock lets it go, however it ends, unless it waits for its
\* user, whom no timeout hurries (lock.rs:7-9, set_balance.rs:182): nothing
\* else can wedge the lock.
LockIsReleased ==
    \A t \in Tasks : owner = t ~> owner # t \/ pc[t] = "user"
=============================================================================
