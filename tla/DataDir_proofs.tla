--------------------------- MODULE DataDir_proofs ---------------------------
(***************************************************************************)
(* Why the data dir has one user at a time: all commands of one user come  *)
(* to one replica, whatever they are started with (Settings), and the lock *)
(* of that replica is held by one living session (BudgetLock).             *)
(*                                                                         *)
(* What Settings guarantees holds for any files, environments and versions *)
(* of abh: which replica a command comes to depends on which layers there  *)
(* are, not on how they are merged; and what is in the user's two files    *)
(* after any inits, kills and upgrades reaches the commands.  What         *)
(* BudgetLock guarantees holds for every set of tasks and processes.       *)
(***************************************************************************)
EXTENDS Settings, BudgetLock, TLAPS

----------------------------------------------------------------------------
(* One replica.                                                            *)

LEMMA SameLayersSameMerge ==
    ASSUME NEW e, NEW c, NEW d, Layers(e, c) = Layers(e, d)
    PROVE  Merged(e, c) = Merged(e, d)
BY DEF Merged

LEMMA SameLayersSameLoad ==
    ASSUME NEW e, NEW c, NEW d, Layers(e, c) = Layers(e, d)
    PROVE  Load(e, c) = Load(e, d)
<1>1. Missing(e, c) <=> Missing(e, d)
    BY DEF Missing
<1> QED BY <1>1, SameLayersSameMerge DEF Load

\* Only a checkout, of one who has no other settings, is found by the working
\* directory, and elsewhere such a command does not work.
LEMMA WorkingDirIsIrrelevant ==
    ASSUME NEW e, Works(e, "elsewhere")
    PROVE  Layers(e, "checkout") = Layers(e, "elsewhere")
BY DEF Works, Load, Layers

\* All commands of a user come to one replica, and so to one lock, for any
\* files, environments and versions of abh (settings.rs:319-324).
THEOREM SettingsNameOneReplica == Spec => []OneReplica
<1>1. OneReplica
    <2> SUFFICES ASSUME NEW e \in Environments,
                        \A cwd \in Dirs : Works(e, cwd),
                        e.home \/ \A cwd \in Dirs : Load(e, cwd).cache_dir # Empty
                 PROVE  CacheDir(e, "elsewhere") = CacheDir(e, "checkout")
        BY DEF OneReplica
    <2>1. Load(e, "checkout") = Load(e, "elsewhere")
        BY WorkingDirIsIrrelevant, SameLayersSameLoad DEF Dirs
    <2> QED BY <2>1 DEF CacheDir, DefaultCacheDir, Dirs
<1> QED BY <1>1, PTL

----------------------------------------------------------------------------
(* The two files.                                                          *)

\* What the user has written is in config.toml: whoever empties that file has
\* found it absent, or was told to overwrite it.
WrittenIsThere ==
    \A k \in DOMAIN written :
        config # Absent /\ k \in DOMAIN config /\ config[k] = written[k]

\* Half a stub is an empty file.
HalfWritten == stage = "writing" => config = NoKeys

FreshBase == refreshed # None => base = Shipped(refreshed)

FilesInv == TypeOK /\ WrittenIsThere /\ HalfWritten /\ FreshBase

LEMMA NoKeysIsEmpty == DOMAIN NoKeys = {}
BY DEF NoKeys

LEMMA InitFilesInv == Init => FilesInv
BY NoKeysIsEmpty
   DEF Init, FilesInv, TypeOK, WrittenIsThere, HalfWritten, FreshBase

LEMMA NextFilesInv == FilesInv /\ [Next]_vars => FilesInv'
<1> SUFFICES ASSUME FilesInv, [Next]_vars PROVE FilesInv'
    OBVIOUS
<1> USE NoKeysIsEmpty, ContentsAssumption
        DEF FilesInv, TypeOK, WrittenIsThere, HalfWritten, FreshBase
<1> HIDE DEF NoKeys, Stub
<1>1. CASE Begin
    BY <1>1 DEF Begin
<1>2. CASE Copy
    BY <1>2 DEF Copy
<1>3. CASE LookAtConfig
    BY <1>3 DEF LookAtConfig, KeepsConfig
<1>4. CASE WriteStub
    BY <1>4 DEF WriteStub
<1>5. CASE InitDies
    BY <1>5 DEF InitDies
<1>6. CASE Upgrade
    BY <1>6 DEF Upgrade
<1>7. CASE Edit
    BY <1>7 DEF Edit
<1>8. CASE DeleteFile
    BY <1>8 DEF DeleteFile
<1>9. CASE UNCHANGED vars
    BY <1>9 DEF vars
<1> QED BY <1>1, <1>2, <1>3, <1>4, <1>5, <1>6, <1>7, <1>8, <1>9 DEF Next

LEMMA FilesInvariance == Spec => []FilesInv
BY InitFilesInv, NextFilesInv, PTL DEF Spec

\* The two files, what the user wrote into one and the version that the other
\* was copied from keep their types, for any versions and edits.
THEOREM TypeCorrect == Spec => []TypeOK
<1>1. FilesInv => TypeOK
    BY DEF FilesInv
<1> QED BY <1>1, FilesInvariance, PTL

----------------------------------------------------------------------------
(* What commands run with.                                                 *)

\* Settings that can be built are the files, under what is exported, over the
\* defaults.
LEMMA LoadLookup ==
    ASSUME NEW e, NEW cwd, Works(e, cwd)
    PROVE  LET files == FromFiles(Layers(e, cwd))
           IN  /\ \A k \in DOMAIN e.secrets : Load(e, cwd)[k] = e.secrets[k]
               /\ \A k \in DOMAIN e.variables \ DOMAIN e.secrets :
                     Load(e, cwd)[k] = e.variables[k]
               /\ \A k \in DOMAIN files \ Exported(e) : Load(e, cwd)[k] = files[k]
<1> DEFINE files == FromFiles(Layers(e, cwd))
           under == Over(files, e.variables)
<1>1. Load(e, cwd) = Over(Defaults, Over(under, e.secrets))
    BY DEF Works, Load, Merged
<1> HIDE DEF files
<1>2. /\ \A k \in DOMAIN e.variables : k \in DOMAIN under /\ under[k] = e.variables[k]
      /\ \A k \in DOMAIN files \ DOMAIN e.variables :
            k \in DOMAIN under /\ under[k] = files[k]
    BY DEF Over
<1> HIDE DEF under
<1>3. /\ \A k \in DOMAIN e.secrets : Load(e, cwd)[k] = e.secrets[k]
      /\ \A k \in DOMAIN under \ DOMAIN e.secrets : Load(e, cwd)[k] = under[k]
    BY <1>1 DEF Over
<1> QED BY <1>2, <1>3 DEF Exported, files

\* An installed abh reads base.toml and, over it, config.toml.
LEMMA UserFiles ==
    ASSUME NEW e, NEW cwd, Installed(e), base # Absent \/ config # Absent
    PROVE  LET files == FromFiles(Layers(e, cwd))
               under == IF base = Absent THEN NoKeys ELSE base
               over == IF config = Absent THEN NoKeys ELSE config
           IN  files = Over(under, over)
<1>1. Layers(e, cwd) = <<May(base), May(config)>>
    BY DEF Installed, Layers, HasUserConfig, InUserDir
<1>2. /\ Content(<<May(base), May(config)>>, 1) = IF base = Absent THEN NoKeys ELSE base
      /\ Content(<<May(base), May(config)>>, 2) = IF config = Absent THEN NoKeys ELSE config
    BY DEF Content, May
<1> QED BY <1>1, <1>2 DEF FromFiles

\* What the user has written is what every command runs with unless something
\* exported says otherwise, after any inits, finished or killed, and upgrades
\* (README.md:48-50, init.rs:100-112).
THEOREM WhatIsWrittenReaches == Spec => []OverridesReach
<1>1. FilesInv => OverridesReach
    <2> SUFFICES ASSUME FilesInv, NEW e \in Environments, NEW cwd \in Dirs,
                        Installed(e), Works(e, cwd),
                        NEW k \in DOMAIN written \ Exported(e)
                 PROVE  Load(e, cwd)[k] = written[k]
        BY DEF OverridesReach
    <2>1. config # Absent /\ k \in DOMAIN config /\ config[k] = written[k]
        BY DEF FilesInv, WrittenIsThere
    <2> DEFINE files == FromFiles(Layers(e, cwd))
    <2>2. k \in DOMAIN files /\ files[k] = written[k]
        BY <2>1, UserFiles DEF Over
    <2> HIDE DEF files
    <2>3. \A j \in DOMAIN files \ Exported(e) : Load(e, cwd)[j] = files[j]
        BY LoadLookup DEF files
    <2> QED BY <2>2, <2>3
<1> QED BY <1>1, FilesInvariance, PTL

\* The defaults of the abh that ran the last init reach every command in all
\* that config.toml does not set and nothing exported overrides, whatever was
\* there before (README.md:48-49, init.rs:85-92).
THEOREM DefaultsReach == Spec => []RefreshReaches
<1>1. FilesInv => RefreshReaches
    <2> DEFINE default == Shipped(refreshed)
    <2> SUFFICES ASSUME FilesInv, refreshed # None,
                        NEW e \in Environments, NEW cwd \in Dirs,
                        Installed(e), Works(e, cwd),
                        NEW k \in DOMAIN default, k \notin Exported(e),
                        k \notin IF config = Absent THEN {} ELSE DOMAIN config
                 PROVE  Load(e, cwd)[k] = default[k]
        BY DEF RefreshReaches
    <2>1. base = default /\ base # Absent
        BY ContentsAssumption DEF FilesInv, FreshBase, TypeOK
    <2> DEFINE files == FromFiles(Layers(e, cwd))
    <2>2. k \in DOMAIN files /\ files[k] = base[k]
        <3> HIDE DEF default
        <3> QED BY <2>1, UserFiles, NoKeysIsEmpty DEF Over
    <2> HIDE DEF files
    <2>3. \A j \in DOMAIN files \ Exported(e) : Load(e, cwd)[j] = files[j]
        BY LoadLookup DEF files
    <2> QED BY <2>1, <2>2, <2>3
<1> QED BY <1>1, FilesInvariance, PTL

\* What is exported takes effect or is refused, in any environment, over any
\* files (README.md:77-79, settings.rs:508-527 and 530-544).
THEOREM ExportsWin == Spec => []ExportsTakeEffect
<1>1. ExportsTakeEffect
    <2> SUFFICES ASSUME NEW e \in Environments, NEW cwd \in Dirs, Works(e, cwd)
                 PROVE  /\ \A k \in DOMAIN e.secrets : Load(e, cwd)[k] = e.secrets[k]
                        /\ \A k \in DOMAIN e.variables :
                              e.variables[k] # Empty => Load(e, cwd)[k] = e.variables[k]
        BY DEF ExportsTakeEffect
    <2>1. ~Conflict(e)
        BY DEF Works, Load
    <2> QED BY <2>1, LoadLookup DEF Conflict
<1> QED BY <1>1, PTL

----------------------------------------------------------------------------
(* One session: the lock is always held by a session that is alive, only an*)
(* orphan can share the replica with another bridge, and where no process  *)
(* is killed nobody shares it.                                             *)

\* A bridge that still has its parent belongs to a task that holds the lock.
ChildHoldsLock == \A t \in Tasks : bridge[t] = "child" => pc[t] \in Holding

\* Orphans are made by kills only.
OrphansNeedKills == Crashable = {} => \A t \in Tasks : bridge[t] # "orphan"

\* The inductive invariant: exclusion itself says nothing of who holds the
\* lock, so it is not inductive; these conjuncts tie bridges to stages and
\* stages to the lock.
LockInv ==
    /\ LockTypeOK
    /\ LockHeldByItsSession
    /\ ChildHoldsLock
    /\ OrphansNeedKills

LEMMA InitLockInv == LockInit => LockInv
BY TasksAssumption
   DEF LockInit, LockInv, LockTypeOK, LockHeldByItsSession, ChildHoldsLock,
       OrphansNeedKills, Stages, Holding

\* One step of the specification preserves LockInv.
LEMMA NextLockInv == LockInv /\ [LockNext]_lockVars => LockInv'
<1> SUFFICES ASSUME LockInv, [LockNext]_lockVars PROVE LockInv'
    OBVIOUS
<1> USE TasksAssumption, ProcessAssumption
        DEF LockInv, LockTypeOK, LockHeldByItsSession, ChildHoldsLock,
            OrphansNeedKills, Stages, Holding
<1>1. ASSUME NEW t \in Tasks, TryLock(t) PROVE LockInv'
    BY <1>1 DEF TryLock, Lock, LockFree
<1>2. ASSUME NEW t \in Tasks, PollLock(t) PROVE LockInv'
    BY <1>2 DEF PollLock, Lock, LockFree
<1>3. ASSUME NEW t \in Tasks, LockFails(t) PROVE LockInv'
    BY <1>3 DEF LockFails
<1>4. ASSUME NEW t \in Tasks, Spawn(t) PROVE LockInv'
    BY <1>4 DEF Spawn
<1>5. ASSUME NEW t \in Tasks, pc[t] \in Holding, Release(t) PROVE LockInv'
    BY <1>5 DEF Release
<1>6. ASSUME NEW t \in Tasks,
             SpawnFails(t) \/ OpenFails(t) \/ DropSession(t)
      PROVE  LockInv'
    BY <1>5, <1>6 DEF SpawnFails, OpenFails, DropSession
<1>7. ASSUME NEW t \in Tasks, Opened(t) PROVE LockInv'
    BY <1>7 DEF Opened
<1>8. ASSUME NEW t \in Tasks, CloseSession(t) \/ WaitForUser(t) \/ UserAnswers(t)
      PROVE  LockInv'
    BY <1>8 DEF CloseSession, WaitForUser, UserAnswers
<1>9. ASSUME NEW t \in Tasks, BridgeEnds(t) \/ OrphanEnds(t) PROVE LockInv'
    BY <1>9 DEF BridgeEnds, OrphanEnds
<1>10. ASSUME NEW t \in Tasks, Again(t) PROVE LockInv'
    BY <1>10 DEF Again
<1>11. ASSUME NEW p \in Processes, Crash(p) PROVE LockInv'
    <2>1. LockTypeOK'
        BY <1>11 DEF Crash
    <2>2. LockHeldByItsSession'
        BY <1>11 DEF Crash
    <2>3. ChildHoldsLock'
        BY <1>11 DEF Crash
    <2>4. OrphansNeedKills'
        BY <1>11 DEF Crash
    <2> QED BY <2>1, <2>2, <2>3, <2>4
<1>12. CASE UNCHANGED lockVars
    BY <1>12 DEF lockVars
<1> QED
    BY <1>1, <1>2, <1>3, <1>4, <1>6, <1>7, <1>8, <1>9, <1>10, <1>11, <1>12
       DEF LockNext, TaskStep

LEMMA LockInvariance == LockSpec => []LockInv
BY InitLockInv, NextLockInv, PTL DEF LockSpec

\* The stages, the lock and the bridges keep their types (lock.rs:20-23,
\* session.rs:36-55).
THEOREM LockTypeCorrect == LockSpec => []LockTypeOK
<1>1. LockInv => LockTypeOK
    BY DEF LockInv
<1> QED BY <1>1, LockInvariance, PTL

\* The lock is held by a task that is alive and inside a session, and by no
\* other: a killed holder never keeps it (lock.rs:7-9).
THEOREM HolderIsAlive == LockSpec => []LockHeldByItsSession
<1>1. LockInv => LockHeldByItsSession
    BY DEF LockInv
<1> QED BY <1>1, LockInvariance, PTL

\* Of two bridges on the same replica at once, one is an orphan, however many
\* processes are killed and whenever.
THEOREM SharingNeedsOrphan == LockSpec => []OnlyOrphansShare
<1>1. LockInv => OnlyOrphansShare
    BY DEF LockInv, LockTypeOK, LockHeldByItsSession, ChildHoldsLock,
           OnlyOrphansShare, Running
<1> QED BY <1>1, LockInvariance, PTL

\* Where no process is killed, two sessions never have the replica open at
\* once: what lock.rs:1-5 promises.
THEOREM Exclusion == Crashable = {} => (LockSpec => []ReplicaExclusive)
<1> SUFFICES ASSUME Crashable = {} PROVE LockSpec => []ReplicaExclusive
    OBVIOUS
<1>1. LockInv => ReplicaExclusive
    BY DEF LockInv, LockTypeOK, LockHeldByItsSession, ChildHoldsLock,
           OrphansNeedKills, ReplicaExclusive, Running
<1> QED BY <1>1, LockInvariance, PTL
=============================================================================
