------------------------------- MODULE Daemon -------------------------------
(***************************************************************************)
(* `abh daemon` (ab-helpers-cli, commands/daemon.rs): it loads when each   *)
(* kind of interest was last run, catches up with the ticks it missed, and *)
(* only then starts the cron scheduler, whose jobs run in parallel and     *)
(* share the in-memory state and its file.                                 *)
(*                                                                         *)
(* An instant is the time from one minute to the next: a tick is at its    *)
(* start, whatever else happens in it comes after.  A run of interest ends *)
(* well or not (module InterestRuns has what it does); cron expressions    *)
(* are the sets of their ticks.                                            *)
(***************************************************************************)
EXTENDS Naturals

CONSTANTS
    Kinds,      \* kinds of interest
    Rank,       \* their order in catch-up
    Ticks,      \* when the cron expression of each kind fires
    LastTime,   \* bound: the instants are 0..LastTime
    Never,      \* Option::None
    Absent, Corrupt   \* daemon-state.json is not there, or does not parse

Time == 0..LastTime
Records == [Kinds -> Time \cup {Never}]

ASSUME RankAssumption ==
    Rank \in [Kinds -> Nat] /\ \A k, l \in Kinds : Rank[k] = Rank[l] => k = l
ASSUME TimeAssumption == /\ LastTime \in Nat
                         /\ Ticks \in [Kinds -> SUBSET Time]
ASSUME ValuesAssumption == /\ Never \notin Time
                           /\ {Absent, Corrupt} \cap Records = {}

VARIABLES
    now,      \* the clock
    proc,     \* "down", "catchup", or "scheduled"
    mem,      \* the Arc<Mutex<DaemonState>>
    file,     \* daemon-state.json
    saving,   \* save_state has truncated the file; its task has the mutex
    missed,   \* missed_kinds yet to be run
    jobs,     \* how many runs of each kind are in progress
    boot,     \* history: when this process computed missed_kinds
    started,  \* history: when it started the scheduler
    begun,    \* history: when the last run of each kind began
    unsaved   \* history: the disk failed since the last save

vars == <<now, proc, mem, file, saving, missed, jobs, boot, started, begun,
          unsaved>>
dates == <<boot, started, begun>>
history == <<dates, unsaved>>

TypeOK ==
    /\ now \in Time
    /\ proc \in {"down", "catchup", "scheduled"}
    /\ mem \in Records
    /\ file \in Records \cup {Absent, Corrupt}
    /\ saving \in BOOLEAN
    /\ missed \subseteq Kinds
    /\ jobs \in [Kinds -> Nat]
    /\ boot \in Time /\ started \in Time
    /\ begun \in Records
    /\ unsaved \in BOOLEAN

Fresh == [k \in Kinds |-> Never]

Init ==
    /\ now = 0 /\ proc = "down" /\ mem = Fresh /\ file = Absent
    /\ saving = FALSE /\ missed = {} /\ jobs = [k \in Kinds |-> 0]
    /\ boot = 0 /\ started = 0 /\ begun = Fresh /\ unsaved = FALSE

----------------------------------------------------------------------------
\* load_state: a file that is not there or does not parse starts fresh.
Loaded(f) == IF f \in {Absent, Corrupt} THEN Fresh ELSE f

\* Variant: a kind that was never run has missed nothing.
MissedIfRunBefore(k, last) == last # Never /\ \E t \in Ticks[k] : last < t /\ t <= now

\* tick_was_missed, and its `is_none_or`.
Missed(k, last) == \/ last = Never
                   \/ \E t \in Ticks[k] : last < t /\ t <= now

Running == {k \in Kinds : jobs[k] > 0}

\* Up to the computation of missed_kinds; a file that cannot be read is taken
\* for none.
Boot ==
    /\ proc = "down"
    /\ proc' = "catchup"
    /\ mem' \in {Loaded(file), Fresh}
    /\ unsaved' = (mem' # Loaded(file))
    /\ missed' = {k \in Kinds : Missed(k, mem'[k])}
    /\ boot' = now
    /\ UNCHANGED <<now, file, saving, jobs, started, begun>>

\* One catch-up run at a time; wait_for_bridge_ready only takes time.
CatchUp(k) ==
    /\ proc = "catchup" /\ Running = {} /\ ~saving
    /\ k \in missed /\ \A l \in missed : Rank[k] <= Rank[l]
    /\ missed' = missed \ {k}
    /\ jobs' = [jobs EXCEPT ![k] = 1]
    /\ begun' = [begun EXCEPT ![k] = now]
    /\ UNCHANGED <<now, proc, mem, file, saving, boot, started, unsaved>>

StartScheduler ==
    /\ proc = "catchup" /\ Running = {} /\ ~saving /\ missed = {}
    /\ proc' = "scheduled"
    /\ started' = now
    /\ UNCHANGED <<now, mem, file, saving, missed, jobs, boot, begun,
                   unsaved>>

\* A minute goes by; the scheduler spawns the jobs whose tick it is.
Firing(k) == proc = "scheduled" /\ now + 1 \in Ticks[k]

Minute ==
    /\ now < LastTime
    /\ now' = now + 1
    /\ jobs' = [k \in Kinds |-> IF Firing(k) THEN jobs[k] + 1 ELSE jobs[k]]
    /\ begun' = [k \in Kinds |-> IF Firing(k) THEN now + 1 ELSE begun[k]]
    /\ UNCHANGED <<proc, mem, file, saving, missed, boot, started, unsaved>>

\* Variant: the outcome of a run that posts nothing is recorded, not saved.
RunSucceedsUnsaved(k) ==
    /\ proc # "down" /\ jobs[k] > 0 /\ ~saving
    /\ jobs' = [jobs EXCEPT ![k] = @ - 1]
    /\ mem' = [mem EXCEPT ![k] = now]
    /\ \/ file' = Corrupt /\ saving' = TRUE
       \/ UNCHANGED <<file, saving>>
    /\ UNCHANGED <<now, proc, missed, history>>

\* The run of a kind ends with Ok: under the mutex it records the time, and
\* fs::write truncates the file.  Without the data dir nothing is written.
RunSucceeds(k) ==
    /\ proc # "down" /\ jobs[k] > 0 /\ ~saving
    /\ jobs' = [jobs EXCEPT ![k] = @ - 1]
    /\ mem' = [mem EXCEPT ![k] = now]
    /\ \/ file' = Corrupt /\ saving' = TRUE /\ UNCHANGED unsaved
       \/ unsaved' = TRUE /\ UNCHANGED <<file, saving>>
    /\ UNCHANGED <<now, proc, missed, dates>>

\* fs::write goes on.
Save ==
    /\ proc # "down" /\ saving
    /\ saving' = FALSE
    /\ \/ file' = mem /\ unsaved' = FALSE
       \/ unsaved' = TRUE /\ UNCHANGED file
    /\ UNCHANGED <<now, proc, mem, missed, jobs, dates>>

\* Variant: catch-up tries a failed kind again.
RunFailsRequeued(k) ==
    /\ proc # "down" /\ jobs[k] > 0
    /\ jobs' = [jobs EXCEPT ![k] = @ - 1]
    /\ missed' = IF proc = "catchup" THEN missed \cup {k} ELSE missed
    /\ UNCHANGED <<now, proc, mem, file, saving, history>>

RunFails(k) ==
    /\ proc # "down" /\ jobs[k] > 0
    /\ jobs' = [jobs EXCEPT ![k] = @ - 1]
    /\ UNCHANGED <<now, proc, mem, file, saving, missed, history>>

\* ctrl-c is noticed once the scheduler runs; the runs in progress are
\* dropped, a save in progress has no await and is finished first.
Stop ==
    /\ proc' = "down"
    /\ saving' = FALSE /\ missed' = {} /\ jobs' = [k \in Kinds |-> 0]
    /\ UNCHANGED <<now, mem, file, history>>

Shutdown == proc = "scheduled" /\ ~saving /\ Stop

\* A kill comes at any moment, in the middle of a save too.
Crash == proc # "down" /\ Stop

RunStep == Save \/ \E k \in Kinds : RunSucceeds(k) \/ RunFails(k)

Next == \/ Boot \/ (\E k \in Kinds : CatchUp(k)) \/ StartScheduler \/ Minute
        \/ RunStep \/ Shutdown \/ Crash

Spec == Init /\ [][Next]_vars

\* Every run ends (EveryCallReturns of BridgeSession, the deadline of the
\* lock; an npm ci has no timeout and is assumed to end), and the process goes
\* on with what it has to do.
Fairness == /\ \A k \in Kinds : WF_vars(CatchUp(k))
           /\ WF_vars(StartScheduler) /\ WF_vars(RunStep)
FairSpec == Spec /\ Fairness

----------------------------------------------------------------------------
(* Properties.  A `Variant` above is a definition with a mistake that one  *)
(* of them must catch; no specification uses it.                           *)

\* Between two saves the file says what the daemon knows, of both kinds, so
\* that a restart forgets nothing (daemon.rs:128-149, 326-328, 344-346).
\* Until the disk fails, and again after the next save.
FileIsCurrent == proc # "down" /\ ~saving /\ ~unsaved => Loaded(file) = mem

\* Of the ticks of a kind up to the boot, and of those since the scheduler was
\* started, each was followed by the start of a run, or by a recorded one
\* (daemon.rs:204-235, 238-270).
TicksAreFollowed ==
    proc = "scheduled" =>
        \A k \in Kinds : \A t \in Ticks[k] :
            (t <= boot \/ started < t) /\ t <= now
            => \/ begun[k] # Never /\ begun[k] >= t
               \/ mem[k] # Never /\ mem[k] >= t

\* A daemon that catches up gets to schedule, unless it is stopped.
SchedulerStarts == proc = "catchup" ~> proc # "catchup"
=============================================================================
