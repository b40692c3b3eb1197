--------------------------- MODULE ManagedBridge ---------------------------
(***************************************************************************)
(* The copy of the Node bridge that abh installs for itself                *)
(* (actual/managed_bridge.rs): three embedded files, node_modules from     *)
(* `npm ci`, and a stamp that says which lock file they were made from.    *)
(* Every session begins with it (ActualSettings::bridge_config), in a      *)
(* directory that all abh processes of a user share, whatever their        *)
(* version, and that nothing locks.                                        *)
(*                                                                         *)
(* The content of a file is the version of the binary it came from.  A     *)
(* file descriptor stays with its inode when the name it was opened by is  *)
(* renamed: `fd` follows it.                                               *)
(***************************************************************************)
EXTENDS Naturals, Sequences

CONSTANTS
    Tasks,      \* calls of bridge_config
    ProcessOf,  \* the abh process of each
    VersionOf,  \* the version of abh of each process
    Absent, Torn,    \* contents of a file that is missing, or truncated
    Partial,         \* node_modules that npm has not completed
    CanCrash         \* may a process be killed?

Processes == {ProcessOf[t] : t \in Tasks}
Versions == {VersionOf[p] : p \in Processes}
Version(t) == VersionOf[ProcessOf[t]]

ASSUME ContentsAreDistinct ==
    /\ Absent # Torn /\ Absent # Partial
    /\ Versions \cap {Absent, Torn, Partial} = {}
ASSUME CrashAssumption == CanCrash \in BOOLEAN

Embedded == <<"index.js", "package.json", "package-lock.json">>
Stamp == ".lockfile-hash"
Written == Append(Embedded, Stamp)
Files == {Written[i] : i \in DOMAIN Written}
Contents == Versions \cup {Absent, Torn}

VARIABLES
    disk,     \* the content of each file
    tmp,      \* that of the temporary file of each name
    modules,  \* node_modules
    stage,    \* where each call is
    at,       \* the file it is at, an index of Written
    fd,       \* where the temporary file it has open is now
    npm,      \* the lock file that its `npm ci` has read
    begun,    \* that of the last `npm ci` to begin
    overlapped  \* have two installs ever been under way together?

vars == <<disk, tmp, modules, stage, at, fd, npm, begun, overlapped>>

Writing == {"compare", "create", "fill", "rename"}
Installing == Writing \cup {"check", "npm"}
NpmRuns(t) == npm[t] # Absent
Busy(t) == stage[t] \in Installing \/ NpmRuns(t)

\* Variant: one temporary name for all processes.
SharedTmp(t) == <<Written[at[t]], CHOOSE p \in Processes : TRUE>>
Tmp(t) == <<Written[at[t]], ProcessOf[t]>>
TmpNames == Files \X Processes

TypeOK ==
    /\ disk \in [Files -> Contents]
    /\ tmp \in [TmpNames -> Contents]
    /\ modules \in Versions \cup {Absent, Partial}
    /\ stage \in [Tasks -> Installing \cup {"idle", "ready", "failed", "killed"}]
    /\ at \in [Tasks -> DOMAIN Written]
    /\ fd \in [Tasks -> {"closed", "tmp", "file", "gone"}]
    /\ npm \in [Tasks -> Versions \cup {Absent}]
    /\ begun \in Versions \cup {Absent}
    /\ overlapped \in BOOLEAN

Init ==
    /\ disk = [f \in Files |-> Absent]
    /\ tmp = [n \in TmpNames |-> Absent]
    /\ modules = Absent
    /\ stage = [t \in Tasks |-> "idle"]
    /\ at = [t \in Tasks |-> 1]
    /\ fd = [t \in Tasks |-> "closed"]
    /\ npm = [t \in Tasks |-> Absent]
    /\ begun = Absent
    /\ overlapped = FALSE

Goto(t, there) == stage' = [stage EXCEPT ![t] = there]

----------------------------------------------------------------------------
(* bridge_config: an explicit script, the script of a checkout, or the     *)
(* managed copy.                                                           *)

Begin(t) ==
    /\ stage[t] = "idle"
    /\ \/ Goto(t, "ready") /\ UNCHANGED overlapped
       \/ /\ Goto(t, "compare")
          /\ overlapped' = (overlapped \/ \E u \in Tasks : Busy(u))
    /\ UNCHANGED <<disk, tmp, modules, at, fd, npm, begun>>

\* The next session of the process.
Again(t) ==
    /\ stage[t] \in {"ready", "failed"}
    /\ Goto(t, "idle")
    /\ at' = [at EXCEPT ![t] = 1]
    /\ UNCHANGED <<disk, tmp, modules, fd, npm, begun, overlapped>>

----------------------------------------------------------------------------
(* write_if_changed: compare, write a temporary file, rename it.           *)

\* Variant: the stamp is followed by another file.
ProceedPast(t) ==
    IF at[t] = Len(Embedded)
    THEN Goto(t, "check") /\ UNCHANGED at
    ELSE Goto(t, "compare") /\ at' = [at EXCEPT ![t] = @ + 1]

\* The embedded files are followed by the check of node_modules, the stamp by
\* nothing.
Proceed(t) ==
    IF at[t] = Len(Embedded) \/ at[t] = Len(Written)
    THEN Goto(t, IF at[t] = Len(Written) THEN "ready" ELSE "check") /\ UNCHANGED at
    ELSE Goto(t, "compare") /\ at' = [at EXCEPT ![t] = @ + 1]

Compare(t) ==
    /\ stage[t] = "compare"
    /\ IF disk[Written[at[t]]] = Version(t)
       THEN Proceed(t)
       ELSE Goto(t, "create") /\ UNCHANGED at
    /\ UNCHANGED <<disk, tmp, modules, fd, npm, begun, overlapped>>

\* fs::write opens the file, which truncates it if it is there ...
Create(t) ==
    /\ stage[t] = "create"
    /\ tmp' = [tmp EXCEPT ![Tmp(t)] = Torn]
    /\ fd' = [fd EXCEPT ![t] = "tmp"]
    /\ Goto(t, "fill")
    /\ UNCHANGED <<disk, modules, at, npm, begun, overlapped>>

\* ... and writes to whatever that file is called by now.
Fill(t) ==
    /\ stage[t] = "fill"
    /\ tmp' = IF fd[t] = "tmp" THEN [tmp EXCEPT ![Tmp(t)] = Version(t)] ELSE tmp
    /\ disk' = IF fd[t] = "file"
               THEN [disk EXCEPT ![Written[at[t]]] = Version(t)] ELSE disk
    /\ fd' = [fd EXCEPT ![t] = "closed"]
    /\ Goto(t, "rename")
    /\ UNCHANGED <<modules, at, npm, begun, overlapped>>

\* Those who have the two files open keep what they have.
Renamed(t, u) ==
    IF at[u] # at[t] THEN fd[u]
    ELSE CASE fd[u] = "tmp" /\ Tmp(u) = Tmp(t) -> "file"
           [] fd[u] = "file" -> "gone"
           [] OTHER -> fd[u]

Rename(t) ==
    /\ stage[t] = "rename"
    /\ \/ /\ tmp[Tmp(t)] # Absent
          /\ disk' = [disk EXCEPT ![Written[at[t]]] = tmp[Tmp(t)]]
          /\ tmp' = [tmp EXCEPT ![Tmp(t)] = Absent]
          /\ fd' = [u \in Tasks |-> Renamed(t, u)]
          /\ Proceed(t)
       \/ /\ tmp[Tmp(t)] = Absent
          /\ Goto(t, "failed")
          /\ UNCHANGED <<disk, tmp, fd, at>>
    /\ UNCHANGED <<modules, npm, begun, overlapped>>

\* The directory, the temporary file or the rename is refused.
IoFails(t) ==
    /\ stage[t] \in Writing
    /\ Goto(t, "failed")
    /\ fd' = [fd EXCEPT ![t] = "closed"]
    /\ UNCHANGED <<disk, tmp, modules, at, npm, begun, overlapped>>

----------------------------------------------------------------------------
(* node_modules.                                                           *)

\* Variant: only their absence is looked at.
NeedsNpmIfAbsent(t) == modules = Absent
NeedsNpm(t) == modules = Absent \/ disk[Stamp] # Version(t)

CheckModules(t) ==
    /\ stage[t] = "check"
    /\ Goto(t, IF NeedsNpm(t) THEN "npm" ELSE "ready")
    /\ UNCHANGED <<disk, tmp, modules, at, fd, npm, begun, overlapped>>

\* `npm ci` reads its two files, and fails when they do not agree; then it
\* removes node_modules and builds them anew.
NpmBegins(t) ==
    /\ stage[t] = "npm" /\ ~NpmRuns(t)
    /\ disk["package-lock.json"] \in Versions
    /\ disk["package-lock.json"] = disk["package.json"]
    /\ npm' = [npm EXCEPT ![t] = disk["package-lock.json"]]
    /\ begun' = disk["package-lock.json"]
    /\ modules' = Partial
    /\ UNCHANGED <<disk, tmp, stage, at, fd, overlapped>>

\* What two of them leave is anyone's guess.
NpmLeaves(t) == IF overlapped THEN {Partial, npm[t]} ELSE {npm[t]}

\* Its exit status is looked at by its parent, if that still lives.
NpmSucceeds(t) ==
    /\ NpmRuns(t)
    /\ modules' \in NpmLeaves(t)
    /\ npm' = [npm EXCEPT ![t] = Absent]
    /\ IF stage[t] = "npm"
       THEN Goto(t, "compare") /\ at' = [at EXCEPT ![t] = Len(Written)]
       ELSE UNCHANGED <<stage, at>>
    /\ UNCHANGED <<disk, tmp, fd, begun, overlapped>>

\* Variant: the exit status of npm is not looked at.
NpmFailsUnnoticed(t) ==
    /\ stage[t] = "npm"
    /\ npm' = [npm EXCEPT ![t] = Absent]
    /\ Goto(t, "compare") /\ at' = [at EXCEPT ![t] = Len(Written)]
    /\ UNCHANGED <<disk, tmp, modules, fd, begun, overlapped>>

\* npm is missing, has no network, is killed, or finds its files in disorder.
NpmFails(t) ==
    /\ stage[t] = "npm" \/ NpmRuns(t)
    /\ npm' = [npm EXCEPT ![t] = Absent]
    /\ IF stage[t] = "npm" THEN Goto(t, "failed") ELSE UNCHANGED stage
    /\ UNCHANGED <<disk, tmp, modules, at, fd, begun, overlapped>>

\* A killed process leaves its temporary files, and an npm that goes on.
Crash(p) ==
    /\ CanCrash
    /\ \E t \in Tasks : ProcessOf[t] = p /\ stage[t] \in Installing
    /\ stage' = [t \in Tasks |-> IF ProcessOf[t] = p THEN "killed" ELSE stage[t]]
    /\ fd' = [t \in Tasks |-> IF ProcessOf[t] = p THEN "closed" ELSE fd[t]]
    /\ UNCHANGED <<disk, tmp, modules, at, npm, begun, overlapped>>

\* A later process, of another id.  Its user has waited for npm to end.
Restart(p) ==
    /\ \A t \in Tasks : ProcessOf[t] = p => stage[t] = "killed" /\ ~NpmRuns(t)
    /\ stage' = [t \in Tasks |-> IF ProcessOf[t] = p THEN "idle" ELSE stage[t]]
    /\ at' = [t \in Tasks |-> IF ProcessOf[t] = p THEN 1 ELSE at[t]]
    /\ tmp' = [n \in TmpNames |-> IF n[2] = p THEN Absent ELSE tmp[n]]
    /\ UNCHANGED <<disk, modules, fd, npm, begun, overlapped>>

\* README.md: "To force a full reinstall manually, delete the managed directory".
UserDeletes ==
    /\ \A t \in Tasks : ~Busy(t)
    /\ disk' = [f \in Files |-> Absent]
    /\ tmp' = [n \in TmpNames |-> Absent]
    /\ modules' = Absent
    /\ begun' = Absent
    /\ UNCHANGED <<stage, at, fd, npm, overlapped>>

Step(t) ==
    \/ Begin(t) \/ Again(t) \/ Compare(t) \/ Create(t) \/ Fill(t) \/ Rename(t)
    \/ IoFails(t) \/ CheckModules(t) \/ NpmBegins(t) \/ NpmSucceeds(t) \/ NpmFails(t)

Next ==
    \/ \E t \in Tasks : Step(t)
    \/ \E p \in Processes : Crash(p) \/ Restart(p)
    \/ UserDeletes

Spec == Init /\ [][Next]_vars

----------------------------------------------------------------------------
(* Properties.                                                             *)

Quiet == \A t \in Tasks : ~Busy(t)

\* managed_bridge.rs:75-79 and 91-93: a reader never sees a truncated file.
\* True of processes that install one bridge at a time each; the jobs of one
\* daemon, whose first installs are undone by an upgrade of abh or by the
\* user, share their temporary name, and break it.
NoTornFile == \A f \in Files : disk[f] # Torn

\* managed_bridge.rs:146-147: the stamp says that node_modules match it.  When
\* no two installs have overlapped, and none is under way, it is true of the
\* version whose npm ran last, however many installs failed or were killed.
StampOfLastInstall ==
    ~overlapped /\ Quiet /\ disk[Stamp] = begun /\ begun # Absent
    => modules = begun

\* Unless installs have overlapped, the bridge that bridge_config hands out is
\* that of its binary (managed_bridge.rs:54-73, settings.rs:212-241): its three
\* files always, and its node_modules if the `npm ci` that began last was for
\* its version.  After that of another version they may be that version's: an
\* upgrade whose npm failed leaves the stamp of the older abh, which finds it
\* and asks for no npm.
OwnFiles(t) == \A i \in DOMAIN Embedded : disk[Embedded[i]] = Version(t)
OwnModules(t) == modules = Version(t)

HandsOut(t) == stage[t] \in Installing /\ stage'[t] = "ready" /\ ~overlapped

ReadyBridgeIsOwn ==
    [][\A t \in Tasks :
          HandsOut(t) =>
             /\ OwnFiles(t)'
             /\ begun' = Version(t) => OwnModules(t)']_vars
=============================================================================
