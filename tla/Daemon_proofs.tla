---------------------------- MODULE Daemon_proofs ----------------------------
(***************************************************************************)
(* What Daemon guarantees for any kinds and any cron expressions: no tick  *)
(* goes by without a run, but for those during catch-up, and no restart    *)
(* forgets a run but one whose record the disk refused.                    *)
(***************************************************************************)
EXTENDS Daemon, TLAPS

LEMMA InitTypeOK == Init => TypeOK
<1> SUFFICES ASSUME Init PROVE TypeOK
    OBVIOUS
<1>1. /\ 0 \in Time /\ now = 0 /\ boot = 0 /\ started = 0
      /\ proc = "down" /\ file = Absent /\ missed = {}
    BY TimeAssumption DEF Init, Time
<1>2. mem \in Records /\ begun \in Records
    BY DEF Init, Records, Fresh
<1>3. jobs \in [Kinds -> Nat]
    BY DEF Init
<1>4. saving \in BOOLEAN /\ unsaved \in BOOLEAN
    BY Zenon DEF Init
<1> QED BY <1>1, <1>2, <1>3, <1>4 DEF TypeOK

LEMMA LoadedType ==
    ASSUME TypeOK
    PROVE  Fresh \in Records /\ Loaded(file) \in Records
BY DEF TypeOK, Loaded, Fresh, Records

LEMMA NextTypeOK == TypeOK /\ [Next]_vars => TypeOK'
<1> SUFFICES ASSUME TypeOK, [Next]_vars PROVE TypeOK'
    OBVIOUS
<1> USE TimeAssumption DEF TypeOK, history, dates
<1>u. unsaved' \in BOOLEAN
    BY Zenon DEF Next, RunStep, Boot, CatchUp, StartScheduler, Minute, RunSucceeds,
                 RunFails, Save, Shutdown, Crash, Stop, vars
<1>1. CASE Boot
    BY <1>1, <1>u, LoadedType DEF Boot
<1>2. ASSUME NEW k \in Kinds, CatchUp(k) PROVE TypeOK'
    BY <1>2 DEF CatchUp, Records
<1>3. CASE StartScheduler
    BY <1>3 DEF StartScheduler
<1>4. CASE Minute
    <2>1. now' \in Time
        BY <1>4 DEF Minute, Time
    <2>2. jobs' \in [Kinds -> Nat]
        BY <1>4 DEF Minute
    <2>3. begun' \in Records
        BY <1>4, <2>1 DEF Minute, Records
    <2> QED BY <1>4, <2>1, <2>2, <2>3 DEF Minute
<1>5. ASSUME NEW k \in Kinds, RunSucceeds(k) PROVE TypeOK'
    <2>1. mem' \in Records
        BY <1>5 DEF RunSucceeds, Records
    <2>2. jobs' \in [Kinds -> Nat]
        BY <1>5 DEF RunSucceeds
    <2> QED BY <1>5, <2>1, <2>2 DEF RunSucceeds
<1>6. ASSUME NEW k \in Kinds, RunFails(k) PROVE TypeOK'
    <2>1. jobs' \in [Kinds -> Nat]
        BY <1>6 DEF RunFails
    <2> QED BY <1>6, <2>1 DEF RunFails
<1>7. CASE Save
    BY <1>7 DEF Save
<1>8. CASE Shutdown \/ Crash
    <2>1. Stop
        BY <1>8 DEF Shutdown, Crash
    <2>2. jobs' \in [Kinds -> Nat]
        BY <2>1 DEF Stop
    <2>3. saving' \in BOOLEAN
        BY Zenon, <2>1 DEF Stop
    <2> QED BY <2>1, <2>2, <2>3 DEF Stop
<1>9. CASE UNCHANGED vars
    BY <1>9 DEF vars
<1> QED
    BY <1>1, <1>2, <1>3, <1>4, <1>5, <1>6, <1>7, <1>8, <1>9 DEF Next, RunStep

\* The state, its file and the clock keep their types (daemon.rs:72-99).
THEOREM TypeCorrect == Spec => []TypeOK
BY InitTypeOK, NextTypeOK, PTL DEF Spec

----------------------------------------------------------------------------
(* The state file.                                                         *)

LEMMA NextFileIsCurrent ==
    ASSUME TypeOK, FileIsCurrent, [Next]_vars
    PROVE  FileIsCurrent'
<1> USE DEF FileIsCurrent, TypeOK
<1>1. CASE Boot
    BY <1>1 DEF Boot, Loaded
<1>2. ASSUME NEW k \in Kinds, CatchUp(k) PROVE FileIsCurrent'
    BY <1>2 DEF CatchUp, Loaded
<1>3. CASE StartScheduler \/ Minute
    BY <1>3 DEF StartScheduler, Minute, Loaded
<1>4. ASSUME NEW k \in Kinds, RunSucceeds(k) \/ RunFails(k) PROVE FileIsCurrent'
    BY <1>4 DEF RunSucceeds, RunFails, Loaded, history, dates
<1>5. CASE Save
    BY <1>5, ValuesAssumption DEF Save, Loaded
<1>6. CASE Shutdown \/ Crash
    BY <1>6 DEF Shutdown, Crash, Stop
<1>7. CASE UNCHANGED vars
    BY <1>7 DEF vars, Loaded
<1> QED BY <1>1, <1>2, <1>3, <1>4, <1>5, <1>6, <1>7 DEF Next, RunStep

\* Unless the disk has just failed, the file has what the daemon knows of
\* every kind whenever it is not being written, whatever jobs run at once
\* (daemon.rs:128-149, 326-328, 344-346).
THEOREM RestartForgetsNothing == Spec => []FileIsCurrent
<1>1. Init => FileIsCurrent
    BY DEF Init, FileIsCurrent
<1>2. TypeOK /\ FileIsCurrent /\ [Next]_vars => FileIsCurrent'
    BY NextFileIsCurrent
<1> QED BY <1>1, <1>2, TypeCorrect, PTL DEF Spec

----------------------------------------------------------------------------
(* The ticks.                                                              *)

\* A run of the kind began, or was recorded, at the tick or after it.
FollowedBy(k, t) ==
    \/ begun[k] # Never /\ begun[k] >= t
    \/ mem[k] # Never /\ mem[k] >= t

\* Nothing is dated later than now.
NothingInTheFuture == boot <= now /\ started <= now

\* What catch-up has not done yet is in `missed`.
MissedIsKnown ==
    proc = "catchup" =>
        \A k \in Kinds \ missed : \A t \in Ticks[k] : t <= boot => FollowedBy(k, t)

TicksInv == TypeOK /\ NothingInTheFuture /\ MissedIsKnown /\ TicksAreFollowed

\* A step that dates a run of a kind `now` follows all that was followed.
LEMMA FollowedStays ==
    ASSUME TypeOK, TypeOK',
           \A k \in Kinds : begun'[k] \in {begun[k], now'},
           \A k \in Kinds : mem'[k] \in {mem[k], now}, now' >= now,
           NEW k \in Kinds, NEW t \in Ticks[k], t <= now, FollowedBy(k, t)
    PROVE  FollowedBy(k, t)'
<1>1. t \in Nat /\ now \in Nat /\ now' \in Nat
      /\ now \in Time /\ now' \in Time
    BY TimeAssumption, ValuesAssumption DEF TypeOK, Time
<1>2. /\ begun[k] # Never => begun[k] \in Nat
      /\ mem[k] # Never => mem[k] \in Nat
    BY DEF TypeOK, Records, Time
<1>3. now # Never /\ now' # Never
    BY <1>1, ValuesAssumption
<1> QED BY <1>1, <1>2, <1>3 DEF FollowedBy

LEMMA NextTicksInv ==
    ASSUME TypeOK, NothingInTheFuture, MissedIsKnown, TicksAreFollowed, [Next]_vars
    PROVE  NothingInTheFuture' /\ MissedIsKnown' /\ TicksAreFollowed'
<1> USE TimeAssumption DEF NothingInTheFuture, MissedIsKnown
<1>t. TypeOK'
    BY NextTypeOK
<1>n. \A k \in Kinds : \A t \in Ticks[k] : t \in Time /\ t \in Nat
    BY DEF Time
<1>v. /\ now \in Time /\ now \in Nat /\ now # Never
      /\ boot \in Nat /\ started \in Nat
    BY ValuesAssumption DEF TypeOK, Time
<1>f. TicksAreFollowed
        <=> (proc = "scheduled" =>
               \A k \in Kinds : \A t \in Ticks[k] :
                   (t <= boot \/ started < t) /\ t <= now => FollowedBy(k, t))
    BY DEF TicksAreFollowed, FollowedBy
<1>g. TicksAreFollowed'
        <=> (proc' = "scheduled" =>
               \A k \in Kinds : \A t \in Ticks[k] :
                   (t <= boot' \/ started' < t) /\ t <= now' => FollowedBy(k, t)')
    BY DEF TicksAreFollowed, FollowedBy
<1>1. CASE Boot
    <2> SUFFICES ASSUME NEW k \in Kinds, k \notin missed',
                        NEW t \in Ticks[k], t <= now
                 PROVE  FollowedBy(k, t)'
        BY <1>1, <1>g, <1>v DEF Boot
    <2>1. mem'[k] # Never /\ ~(mem'[k] < t)
        BY <1>1 DEF Boot, Missed
    <2>2. mem'[k] \in Nat
        BY <1>t, <2>1 DEF TypeOK, Records, Time
    <2> QED BY <1>n, <2>1, <2>2 DEF FollowedBy
<1>2. ASSUME NEW k \in Kinds, CatchUp(k)
      PROVE  NothingInTheFuture' /\ MissedIsKnown' /\ TicksAreFollowed'
    <2>1. \A l \in Kinds : \A t \in Ticks[l] :
              t <= now /\ FollowedBy(l, t) => FollowedBy(l, t)'
        BY <1>2, <1>t, <1>v, FollowedStays DEF CatchUp, TypeOK, Records
    <2>2. \A t \in Ticks[k] : t <= now => FollowedBy(k, t)'
        BY <1>2, <1>v, <1>n DEF CatchUp, FollowedBy, TypeOK, Records
    <2> QED BY <1>2, <1>g, <1>n, <1>v, <2>1, <2>2 DEF CatchUp
<1>3. CASE StartScheduler
    <2>1. \A l \in Kinds : \A t \in Ticks[l] :
              FollowedBy(l, t) => FollowedBy(l, t)'
        BY <1>3 DEF StartScheduler, FollowedBy
    <2> QED BY <1>3, <1>g, <1>n, <1>v, <2>1 DEF StartScheduler
<1>4. CASE Minute
    <2>0. now' = now + 1 /\ now' \in Nat /\ now' # Never
        BY <1>4, <1>t, <1>v, ValuesAssumption DEF Minute, TypeOK
    <2>1. \A l \in Kinds : \A t \in Ticks[l] :
              t <= now /\ FollowedBy(l, t) => FollowedBy(l, t)'
        <3>1. /\ \A l \in Kinds : begun'[l] \in {begun[l], now'}
              /\ mem' = mem
            BY <1>4, <2>0 DEF Minute
        <3> QED BY <1>t, <1>v, <2>0, <3>1, FollowedStays
    <2>2. ASSUME NEW l \in Kinds, NEW t \in Ticks[l], proc = "scheduled",
                 t = now + 1
          PROVE  FollowedBy(l, t)'
        <3>1. begun'[l] = now'
            BY <1>4, <2>0, <2>2 DEF Minute, Firing
        <3> QED BY <2>0, <2>2, <3>1 DEF FollowedBy
    <2>3. \A t \in Nat : t <= now + 1 => t <= now \/ t = now + 1
        BY <1>v
    <2> QED BY <1>4, <1>f, <1>g, <1>n, <1>v, <2>0, <2>1, <2>2, <2>3 DEF Minute
<1>5. ASSUME NEW k \in Kinds, RunSucceeds(k)
      PROVE  NothingInTheFuture' /\ MissedIsKnown' /\ TicksAreFollowed'
    <2>1. \A l \in Kinds : \A t \in Ticks[l] :
              t <= now /\ FollowedBy(l, t) => FollowedBy(l, t)'
        BY <1>5, <1>t, <1>v, FollowedStays
           DEF RunSucceeds, history, dates, TypeOK, Records
    <2> QED BY <1>5, <1>f, <1>g, <1>n, <1>v, <2>1 DEF RunSucceeds, history, dates
<1>6. ASSUME (\E k \in Kinds : RunFails(k)) \/ Save \/ UNCHANGED vars
      PROVE  NothingInTheFuture' /\ MissedIsKnown' /\ TicksAreFollowed'
    <2>1. UNCHANGED <<now, proc, mem, missed, boot, started, begun>>
        BY <1>6 DEF RunFails, Save, vars, history, dates
    <2> QED BY <2>1, <1>f, <1>g DEF FollowedBy
<1>7. CASE Shutdown \/ Crash
    BY <1>7, <1>g DEF Shutdown, Crash, Stop, history, dates
<1> QED BY <1>1, <1>2, <1>3, <1>4, <1>5, <1>6, <1>7 DEF Next, RunStep

\* Every tick before the daemon came up, and every tick since it schedules, is
\* followed by a run, whatever failed, and whenever it was killed
\* (daemon.rs:204-270).
THEOREM NoTickIsLost == Spec => []TicksAreFollowed
<1>1. Init => TicksInv
    BY InitTypeOK, TimeAssumption
       DEF Init, TicksInv, NothingInTheFuture, MissedIsKnown, TicksAreFollowed
<1>2. TicksInv /\ [Next]_vars => TicksInv'
    BY NextTypeOK, NextTicksInv DEF TicksInv
<1>3. TicksInv => TicksAreFollowed
    BY DEF TicksInv
<1> QED BY <1>1, <1>2, <1>3, PTL DEF Spec
=============================================================================
