------------------------ MODULE ManagedBridge_proofs ------------------------
(***************************************************************************)
(* What ManagedBridge guarantees for any tasks, processes and versions: no *)
(* file is ever seen truncated, as long as a process installs one bridge   *)
(* at a time; and as long as no two installs overlap, the stamp tells the  *)
(* truth of the modules of the version whose npm began last, and the bridge*)
(* handed out has its binary's files, and modules if they are of that      *)
(* version.                                                                *)
(***************************************************************************)
EXTENDS ManagedBridge, TLAPS

LEMMA WrittenFiles ==
    /\ Len(Embedded) = 3 /\ Len(Written) = 4 /\ DOMAIN Written = 1 .. 4
    /\ \A i \in DOMAIN Written : Written[i] \in Files
    /\ Stamp \in Files /\ Embedded[1] \in Files
<1>1. Len(Embedded) = 3 /\ Len(Written) = 4 /\ DOMAIN Written = 1 .. 4
    BY DEF Embedded, Written, Stamp
<1>2. Written[4] = Stamp /\ Written[1] = Embedded[1]
    BY DEF Embedded, Written, Stamp
<1> QED BY <1>1, <1>2 DEF Files

LEMMA TmpType ==
    ASSUME TypeOK, NEW t \in Tasks
    PROVE  /\ Written[at[t]] \in Files /\ Tmp(t) \in TmpNames
           /\ ProcessOf[t] \in Processes /\ Version(t) \in Versions
           /\ Version(t) \in Contents
<1>1. ProcessOf[t] \in Processes
    BY DEF Processes
<1>2. Version(t) \in Versions
    BY <1>1 DEF Version, Versions
<1>3. Written[at[t]] \in Files
    BY WrittenFiles DEF TypeOK
<1> QED BY <1>1, <1>2, <1>3 DEF Tmp, TmpNames, Contents

----------------------------------------------------------------------------
(* Types.                                                                  *)

LEMMA ProceedType ==
    ASSUME TypeOK, NEW t \in Tasks, Proceed(t)
    PROVE  /\ stage' \in [Tasks -> Installing \cup {"idle", "ready", "failed", "killed"}]
           /\ at' \in [Tasks -> DOMAIN Written]
BY WrittenFiles DEF TypeOK, Proceed, Goto, Installing, Writing

LEMMA InitTypeOK == Init => TypeOK
<1> SUFFICES ASSUME Init PROVE TypeOK
    OBVIOUS
<1>1. overlapped \in BOOLEAN
    BY Zenon DEF Init
<1>2. disk \in [Files -> Contents] /\ tmp \in [TmpNames -> Contents]
    BY DEF Init, Contents
<1>3. stage \in [Tasks -> Installing \cup {"idle", "ready", "failed", "killed"}]
    BY DEF Init
<1>4. at \in [Tasks -> DOMAIN Written]
    BY WrittenFiles DEF Init
<1> QED BY <1>1, <1>2, <1>3, <1>4 DEF Init, TypeOK

LEMMA NextTypeOK == TypeOK /\ [Next]_vars => TypeOK'
<1> SUFFICES ASSUME TypeOK, [Next]_vars PROVE TypeOK'
    OBVIOUS
<1> USE DEF TypeOK
<1>o. overlapped' \in BOOLEAN
    BY Zenon DEF Next, Step, Begin, Again, Compare, Create, Fill, Rename, IoFails,
         CheckModules, NpmBegins, NpmSucceeds, NpmFails, Crash, Restart, UserDeletes, vars
<1>1. ASSUME NEW t \in Tasks, Begin(t) \/ Again(t) \/ CheckModules(t) PROVE TypeOK'
    BY <1>1, <1>o, WrittenFiles
       DEF Begin, Again, CheckModules, Goto, Installing, Writing
<1>2. ASSUME NEW t \in Tasks, Compare(t) PROVE TypeOK'
    <2>1. CASE disk[Written[at[t]]] = Version(t)
        BY <1>2, <1>o, <2>1, ProceedType DEF Compare
    <2>2. CASE disk[Written[at[t]]] # Version(t)
        BY <1>2, <1>o, <2>2 DEF Compare, Goto, Installing, Writing
    <2> QED BY <2>1, <2>2
<1>3. ASSUME NEW t \in Tasks, Create(t) \/ IoFails(t) PROVE TypeOK'
    BY <1>3, <1>o, TmpType DEF Create, IoFails, Goto, Installing, Writing, Contents
<1>4. ASSUME NEW t \in Tasks, Fill(t) PROVE TypeOK'
    BY <1>4, <1>o, TmpType DEF Fill, Goto, Installing, Writing
<1>5. ASSUME NEW t \in Tasks, Rename(t) PROVE TypeOK'
    <2>1. \A u \in Tasks : Renamed(t, u) \in {"closed", "tmp", "file", "gone"}
        BY DEF Renamed
    <2>2. CASE tmp[Tmp(t)] # Absent
        <3>1. tmp[Tmp(t)] \in Contents
            BY TmpType
        <3>2. disk' \in [Files -> Contents]
            BY <1>5, <2>2, <3>1, TmpType DEF Rename
        <3>3. tmp' \in [TmpNames -> Contents]
            BY <1>5, <2>2, TmpType DEF Rename, Contents
        <3>4. fd' \in [Tasks -> {"closed", "tmp", "file", "gone"}]
            BY <1>5, <2>1, <2>2 DEF Rename
        <3>5. Proceed(t)
            BY <1>5, <2>2 DEF Rename
        <3> QED BY <1>5, <1>o, <3>2, <3>3, <3>4, <3>5, ProceedType DEF Rename
    <2>3. CASE tmp[Tmp(t)] = Absent
        BY <1>5, <1>o, <2>3 DEF Rename, Goto, Installing, Writing
    <2> QED BY <2>2, <2>3
<1>6. ASSUME NEW t \in Tasks, NpmBegins(t) PROVE TypeOK'
    BY <1>6, <1>o DEF NpmBegins
<1>7. ASSUME NEW t \in Tasks, NpmSucceeds(t) \/ NpmFails(t) PROVE TypeOK'
    BY <1>7, <1>o, WrittenFiles
       DEF NpmSucceeds, NpmFails, NpmLeaves, NpmRuns, Goto, Installing, Writing
<1>8. ASSUME NEW p \in Processes, Crash(p) \/ Restart(p) PROVE TypeOK'
    BY <1>8, <1>o, WrittenFiles DEF Crash, Restart, Installing, Writing, Contents
<1>9. CASE UserDeletes
    BY <1>9, <1>o DEF UserDeletes, Contents
<1>10. CASE UNCHANGED vars
    BY <1>10, <1>o DEF vars
<1> QED
    BY <1>1, <1>2, <1>3, <1>4, <1>5, <1>6, <1>7, <1>8, <1>9, <1>10 DEF Next, Step

\* Files, temporary files, modules and the stages of installs keep their types
\* (managed_bridge.rs:54-73).
THEOREM TypeCorrect == Spec => []TypeOK
BY InitTypeOK, NextTypeOK, PTL DEF Spec

----------------------------------------------------------------------------
(* No torn file.  Each process has temporary files of its own, so that what*)
(* an install renames is what it has written.                              *)

OneInstallEach == \A t, u \in Tasks : ProcessOf[t] = ProcessOf[u] => t = u

\* Only who fills a temporary file has it open.
OpenWhileFilling ==
    \A t \in Tasks :
        /\ fd[t] \in {"closed", "tmp"}
        /\ fd[t] = "tmp" <=> stage[t] = "fill"

\* What is about to be renamed has been filled.
FilledBeforeRename ==
    \A t \in Tasks : stage[t] = "rename" => tmp[Tmp(t)] = Version(t)

NoTornInv == TypeOK /\ NoTornFile /\ OpenWhileFilling /\ FilledBeforeRename

LEMMA VersionsAreWhole == Torn \notin Versions /\ Absent \notin Versions
BY ContentsAreDistinct

\* Two installs have no temporary file in common.
LEMMA OwnTmp ==
    ASSUME OneInstallEach, NEW t \in Tasks, NEW u \in Tasks, Tmp(t) = Tmp(u)
    PROVE  t = u
BY DEF OneInstallEach, Tmp

LEMMA NextNoTorn ==
    ASSUME OneInstallEach, NoTornInv, [Next]_vars
    PROVE  NoTornFile' /\ OpenWhileFilling' /\ FilledBeforeRename'
<1>t. TypeOK /\ NoTornFile /\ OpenWhileFilling /\ FilledBeforeRename
    BY DEF NoTornInv
<1>v. \A t \in Tasks : Version(t) \in Versions /\ Tmp(t) \in TmpNames
    BY <1>t, TmpType
<1> USE DEF NoTornFile, OpenWhileFilling, FilledBeforeRename
\* The file at which an install is, and so its temporary file, changes only
\* as it proceeds.
<1>s. ASSUME NEW t \in Tasks, at'[t] = at[t] PROVE Tmp(t)' = Tmp(t)
    BY <1>s DEF Tmp
<1>1. ASSUME NEW t \in Tasks, Begin(t) \/ Again(t) \/ CheckModules(t)
      PROVE  NoTornFile' /\ OpenWhileFilling' /\ FilledBeforeRename'
    <2>1. UNCHANGED <<disk, tmp, fd>>
        BY <1>1 DEF Begin, Again, CheckModules
    <2>2. \A u \in Tasks : stage'[u] \in {"fill", "rename"} \/ stage[u] \in {"fill", "rename"}
                           => stage'[u] = stage[u] /\ at'[u] = at[u]
        BY <1>1, <1>t DEF Begin, Again, CheckModules, Goto, TypeOK
    <2> QED BY <1>t, <1>s, <2>1, <2>2
<1>2. ASSUME NEW t \in Tasks, Compare(t)
      PROVE  NoTornFile' /\ OpenWhileFilling' /\ FilledBeforeRename'
    <2>1. UNCHANGED <<disk, tmp, fd>>
        BY <1>2 DEF Compare
    <2>2. \A u \in Tasks : stage'[u] \in {"fill", "rename"} \/ stage[u] \in {"fill", "rename"}
                           => stage'[u] = stage[u] /\ at'[u] = at[u]
        BY <1>2, <1>t DEF Compare, Proceed, Goto, TypeOK
    <2> QED BY <1>t, <1>s, <2>1, <2>2
<1>3. ASSUME NEW t \in Tasks, Create(t)
      PROVE  NoTornFile' /\ OpenWhileFilling' /\ FilledBeforeRename'
    <2>1. disk' = disk /\ at' = at
        BY <1>3 DEF Create
    <2>2. \A u \in Tasks \ {t} : /\ stage'[u] = stage[u] /\ fd'[u] = fd[u]
                                 /\ tmp'[Tmp(u)] = tmp[Tmp(u)]
        BY <1>3, <1>t, <1>v, OwnTmp DEF Create, Goto, TypeOK
    <2>3. stage'[t] = "fill" /\ fd'[t] = "tmp"
        BY <1>3, <1>t DEF Create, Goto, TypeOK
    <2> QED BY <1>t, <1>s, <2>1, <2>2, <2>3
<1>4. ASSUME NEW t \in Tasks, Fill(t)
      PROVE  NoTornFile' /\ OpenWhileFilling' /\ FilledBeforeRename'
    <2>0. fd[t] = "tmp"
        BY <1>4, <1>t DEF Fill
    <2>1. disk' = disk /\ at' = at
        BY <1>4, <2>0 DEF Fill
    <2>2. \A u \in Tasks \ {t} : /\ stage'[u] = stage[u] /\ fd'[u] = fd[u]
                                 /\ tmp'[Tmp(u)] = tmp[Tmp(u)]
        BY <1>4, <1>t, <1>v, <2>0, OwnTmp DEF Fill, Goto, TypeOK
    <2>3. stage'[t] = "rename" /\ fd'[t] = "closed" /\ tmp'[Tmp(t)] = Version(t)
        BY <1>4, <1>t, <1>v, <2>0 DEF Fill, Goto, TypeOK
    <2> QED BY <1>t, <1>s, <2>1, <2>2, <2>3 DEF Version
<1>5. ASSUME NEW t \in Tasks, Rename(t)
      PROVE  NoTornFile' /\ OpenWhileFilling' /\ FilledBeforeRename'
    <2>0. stage[t] = "rename" /\ tmp[Tmp(t)] = Version(t) /\ tmp[Tmp(t)] # Absent
        BY <1>5, <1>t, <1>v, VersionsAreWhole DEF Rename
    <2>1. disk' = [disk EXCEPT ![Written[at[t]]] = Version(t)] /\ Proceed(t)
        BY <1>5, <2>0 DEF Rename
    <2>2. NoTornFile'
        BY <1>t, <1>v, <2>1, VersionsAreWhole DEF TypeOK
    <2>3. \A u \in Tasks \ {t} :
              /\ stage'[u] = stage[u] /\ at'[u] = at[u]
              /\ tmp'[Tmp(u)] = tmp[Tmp(u)]
        BY <1>5, <1>t, <1>v, <2>0, <2>1, OwnTmp DEF Rename, Proceed, Goto, TypeOK
    <2>4. \A u \in Tasks : fd'[u] = fd[u]
        <3> SUFFICES ASSUME NEW u \in Tasks PROVE fd'[u] = fd[u]
            OBVIOUS
        <3>1. fd'[u] = Renamed(t, u)
            BY <1>5, <2>0 DEF Rename
        <3>2. fd[t] = "closed" /\ fd[u] \in {"closed", "tmp"}
            BY <1>t, <2>0
        <3>3. fd[u] = "tmp" => Tmp(u) # Tmp(t)
            BY <3>2, OwnTmp
        <3> QED BY <3>1, <3>2, <3>3 DEF Renamed
    <2>5. stage'[t] \notin {"fill", "rename"}
        BY <1>t, <2>1 DEF Proceed, Goto, TypeOK
    <2>6. OpenWhileFilling'
        BY <1>t, <2>0, <2>3, <2>4, <2>5
    <2>7. FilledBeforeRename'
        BY <1>t, <1>s, <2>3, <2>5
    <2> QED BY <2>2, <2>6, <2>7
<1>6. ASSUME NEW t \in Tasks, IoFails(t) \/ NpmBegins(t) \/ NpmSucceeds(t) \/ NpmFails(t)
      PROVE  NoTornFile' /\ OpenWhileFilling' /\ FilledBeforeRename'
    <2>1. disk' = disk /\ tmp' = tmp
        BY <1>6 DEF IoFails, NpmBegins, NpmSucceeds, NpmFails
    <2>2. \A u \in Tasks \ {t} : stage'[u] = stage[u] /\ at'[u] = at[u] /\ fd'[u] = fd[u]
        BY <1>6, <1>t DEF IoFails, NpmBegins, NpmSucceeds, NpmFails, Goto, TypeOK
    <2>3. \/ stage'[t] \notin {"fill", "rename"} /\ fd'[t] = "closed"
          \/ stage'[t] = stage[t] /\ at'[t] = at[t] /\ fd'[t] = fd[t]
        BY <1>6, <1>t DEF IoFails, NpmBegins, NpmSucceeds, NpmFails, Goto, TypeOK
    <2> QED BY <1>t, <1>s, <2>1, <2>2, <2>3
<1>7. ASSUME NEW p \in Processes, Crash(p) \/ Restart(p)
      PROVE  NoTornFile' /\ OpenWhileFilling' /\ FilledBeforeRename'
    <2>1. disk' = disk
        BY <1>7 DEF Crash, Restart
    <2>2. \A u \in Tasks :
              \/ stage'[u] \notin {"fill", "rename"} /\ fd'[u] = "closed"
              \/ /\ stage'[u] = stage[u] /\ at'[u] = at[u] /\ fd'[u] = fd[u]
                 /\ tmp'[Tmp(u)] = tmp[Tmp(u)]
        <3>1. CASE Crash(p)
            <4>1. at' = at /\ tmp' = tmp
                BY <3>1 DEF Crash
            <4>2. \A u \in Tasks : IF ProcessOf[u] = p
                                  THEN stage'[u] = "killed" /\ fd'[u] = "closed"
                                  ELSE stage'[u] = stage[u] /\ fd'[u] = fd[u]
                BY <3>1 DEF Crash
            <4> QED BY <4>1, <4>2
        <3>2. CASE Restart(p)
            <4>1. fd' = fd /\ \A u \in Tasks : ProcessOf[u] = p => stage[u] = "killed"
                BY <3>2 DEF Restart
            <4>2. \A u \in Tasks :
                      IF ProcessOf[u] = p
                      THEN stage'[u] = "idle" /\ fd'[u] = "closed"
                      ELSE stage'[u] = stage[u] /\ at'[u] = at[u]
                BY <3>2, <4>1, <1>t DEF Restart
            <4>3. \A n \in TmpNames : n[2] # p => tmp'[n] = tmp[n]
                BY <3>2 DEF Restart
            <4>4. \A u \in Tasks : ProcessOf[u] # p => tmp'[Tmp(u)] = tmp[Tmp(u)]
                BY <4>3, <1>v DEF Tmp
            <4> QED BY <4>1, <4>2, <4>4
        <3> QED BY <1>7, <3>1, <3>2
    <2> QED BY <1>t, <1>s, <2>1, <2>2
<1>8. CASE UserDeletes
    <2>1. \A u \in Tasks : stage[u] \notin {"fill", "rename"}
        BY <1>8 DEF UserDeletes, Busy, Installing, Writing
    <2>2. disk' = [f \in Files |-> Absent] /\ UNCHANGED <<stage, fd>>
        BY <1>8 DEF UserDeletes
    <2> QED BY <1>t, <2>1, <2>2, ContentsAreDistinct
<1>9. CASE UNCHANGED vars
    BY <1>9, <1>t, <1>s DEF vars
<1> QED BY <1>1, <1>2, <1>3, <1>4, <1>5, <1>6, <1>7, <1>8, <1>9 DEF Next, Step

\* If a process installs one bridge at a time, no file that a bridge may read
\* is ever truncated, whatever the versions, kills and failures
\* (managed_bridge.rs:91-130).
THEOREM NoReaderSeesTorn == OneInstallEach => (Spec => []NoTornFile)
<1> SUFFICES ASSUME OneInstallEach PROVE Spec => []NoTornFile
    OBVIOUS
<1>1. Init => NoTornInv
    BY InitTypeOK, ContentsAreDistinct
       DEF Init, NoTornInv, NoTornFile, OpenWhileFilling, FilledBeforeRename
<1>2. NoTornInv /\ [Next]_vars => NoTornInv'
    BY NextTypeOK, NextNoTorn DEF NoTornInv
<1>3. NoTornInv => NoTornFile
    BY DEF NoTornInv
<1> QED BY <1>1, <1>2, <1>3, PTL DEF Spec

----------------------------------------------------------------------------
(* The stamp and the modules, of installs that do not overlap.  What is    *)
(* written comes from the one install under way; a stamp of the version    *)
(* whose npm began last was written after that npm had ended well.         *)

Alone == \A t, u \in Tasks : Busy(t) /\ Busy(u) => t = u

\* The embedded files that an install has behind it are those of its binary.
FilesWritten(t) ==
    \A i \in 1 .. 3 :
        \/ stage[t] \in Writing /\ i < at[t]
        \/ stage[t] \in {"check", "npm"}
        => disk[Embedded[i]] = Version(t)

FileInHand(t) ==
    /\ stage[t] = "idle" => at[t] = 1
    /\ stage[t] \in {"check", "npm"} => at[t] = 3
    /\ fd[t] = IF stage[t] = "fill" THEN "tmp" ELSE "closed"
    /\ stage[t] = "rename" => tmp[Tmp(t)] = Version(t)

\* npm begins only without a stamp of its version, and the stamp comes after it.
NpmInHand(t) ==
    /\ stage[t] = "npm" => disk[Stamp] # Version(t)
    /\ NpmRuns(t) => /\ stage[t] \in {"npm", "killed"}
                     /\ npm[t] = begun /\ disk[Stamp] # begun
                     /\ stage[t] = "npm" => begun = Version(t)
    /\ stage[t] \in Writing /\ at[t] = 4
       => modules = Version(t) /\ begun = Version(t)

TaskInv(t) == FilesWritten(t) /\ FileInHand(t) /\ NpmInHand(t)

StampTruth ==
    /\ disk[Stamp] = begun /\ begun # Absent => modules = begun
    /\ modules = Absent => disk[Stamp] = Absent

InstallInv ==
    TypeOK /\ (~overlapped => Alone /\ StampTruth /\ \A t \in Tasks : TaskInv(t))

LEMMA Names ==
    /\ \A i \in 1 .. 3 : /\ Written[i] = Embedded[i] /\ Embedded[i] # Stamp
                         /\ Embedded[i] \in Files
    /\ Written[4] = Stamp /\ DOMAIN Embedded = 1 .. 3
    /\ \A i, j \in 1 .. 4 : Written[i] = Written[j] => i = j
<1>1. /\ \A i \in 1 .. 3 : Written[i] = Embedded[i] /\ Embedded[i] # Stamp
      /\ Written[4] = Stamp /\ DOMAIN Embedded = 1 .. 3
      /\ \A i, j \in 1 .. 4 : Written[i] = Written[j] => i = j
    BY DEF Embedded, Written, Stamp
<1> QED BY <1>1, WrittenFiles

\* An install that is not under way keeps its part of the invariant whatever
\* the others do.
LEMMA AtRest ==
    ASSUME NEW u \in Tasks, ~Busy(u), TaskInv(u),
           stage'[u] = stage[u], at'[u] = at[u], npm'[u] = npm[u], fd'[u] = fd[u]
    PROVE  TaskInv(u)' /\ ~Busy(u)'
BY DEF TaskInv, FilesWritten, FileInHand, NpmInHand, Busy, NpmRuns, Installing, Writing

\* A step of the one install under way.
LEMMA AloneStep ==
    ASSUME Alone, NEW t \in Tasks, Busy(t), \A u \in Tasks : TaskInv(u),
           \A u \in Tasks \ {t} : /\ stage'[u] = stage[u] /\ at'[u] = at[u]
                                  /\ npm'[u] = npm[u] /\ fd'[u] = fd[u],
           TaskInv(t)'
    PROVE  Alone' /\ \A u \in Tasks : TaskInv(u)'
<1>1. \A u \in Tasks \ {t} : ~Busy(u)
    BY DEF Alone
<1>2. \A u \in Tasks \ {t} : TaskInv(u)' /\ ~Busy(u)'
    BY <1>1, AtRest
<1>3. Alone'
    BY <1>2 DEF Alone
<1> QED BY <1>2, <1>3

\* What an install has when it is done with a file of its own content.
LEMMA ProceedInv ==
    ASSUME TypeOK, NEW t \in Tasks, TaskInv(t), stage[t] \in {"compare", "rename"},
           Proceed(t), npm' = npm, modules' = modules, begun' = begun,
           fd'[t] = "closed",
           disk'[Written[at[t]]] = Version(t),
           \A f \in Files : f # Written[at[t]] => disk'[f] = disk[f],
           StampTruth
    PROVE  TaskInv(t)' /\ StampTruth'
<1>v. Version(t)' = Version(t) /\ Version(t) \in Versions /\ Version(t) # Absent
    BY TmpType, VersionsAreWhole DEF Version
<1>a. at[t] \in 1 .. 4 /\ ~NpmRuns(t) /\ npm'[t] = Absent
    BY WrittenFiles DEF TypeOK, TaskInv, NpmInHand, NpmRuns
<1>1. CASE at[t] = 4
    <2>1. stage'[t] = "ready" /\ disk'[Stamp] = begun /\ modules = begun
        BY <1>1, WrittenFiles, Names
           DEF TypeOK, Proceed, Goto, TaskInv, NpmInHand, Writing
    <2>2. TaskInv(t)'
        BY <1>a, <2>1 DEF TaskInv, FilesWritten, FileInHand, NpmInHand, NpmRuns, Writing
    <2>3. StampTruth'
        BY <1>1, <1>v, <2>1 DEF StampTruth, TaskInv, NpmInHand, Writing
    <2> QED BY <2>2, <2>3
<1>2. CASE at[t] # 4
    <2>0. at[t] \in 1 .. 3 /\ disk'[Stamp] = disk[Stamp]
        BY <1>a, <1>2, WrittenFiles, Names
    <2>1. \A i \in 1 .. 3 : i <= at[t] => disk'[Embedded[i]] = Version(t)
        <3> SUFFICES ASSUME NEW i \in 1 .. 3, i <= at[t]
                     PROVE  disk'[Embedded[i]] = Version(t)
            OBVIOUS
        <3>1. CASE i = at[t]
            BY <3>1, Names
        <3>2. CASE i < at[t]
            <4>1. disk[Embedded[i]] = Version(t)
                BY <3>2 DEF TaskInv, FilesWritten, Writing
            <4>2. Embedded[i] \in Files /\ Embedded[i] # Written[at[t]]
                BY <3>2, <2>0, Names
            <4> QED BY <4>1, <4>2
        <3> QED BY <2>0, <3>1, <3>2
    <2>2. \/ at[t] = 3 /\ stage'[t] = "check" /\ at'[t] = at[t]
          \/ at[t] \in 1 .. 2 /\ stage'[t] = "compare" /\ at'[t] = at[t] + 1
        BY <2>0, WrittenFiles DEF TypeOK, Proceed, Goto
    <2>3. \A i \in 1 .. 3 : (stage'[t] = "check" \/ i < at'[t])
                           => disk'[Embedded[i]] = Version(t)
        BY <2>1, <2>2
    <2>4. TaskInv(t)'
        BY <1>a, <1>v, <2>2, <2>3
           DEF TaskInv, FilesWritten, FileInHand, NpmInHand, NpmRuns, Writing
    <2> QED BY <2>0, <2>4 DEF StampTruth
<1> QED BY <1>1, <1>2

LEMMA NextInstall ==
    ASSUME InstallInv, ~overlapped', [Next]_vars
    PROVE  Alone' /\ StampTruth' /\ \A t \in Tasks : TaskInv(t)'
<1>o. ~overlapped
    BY Zenon DEF Next, Step, Begin, Again, Compare, Create, Fill, Rename, IoFails,
         CheckModules, NpmBegins, NpmSucceeds, NpmFails, Crash, Restart, UserDeletes, vars
<1>i. TypeOK /\ Alone /\ StampTruth /\ \A t \in Tasks : TaskInv(t)
    BY <1>o DEF InstallInv
<1>v. \A t \in Tasks : /\ Version(t) \in Versions /\ Version(t) # Absent
                       /\ Version(t)' = Version(t) /\ Tmp(t) \in TmpNames
                       /\ Version(t) # Partial
    BY <1>i, TmpType, ContentsAreDistinct DEF Version
<1>d. \A t \in Tasks : at[t] \in 1 .. 4 /\ Written[at[t]] \in Files
    BY <1>i, WrittenFiles DEF TypeOK
<1> DEFINE Goal == Alone' /\ StampTruth' /\ \A t \in Tasks : TaskInv(t)'
<1> SUFFICES Goal
    OBVIOUS
<1>1. ASSUME NEW t \in Tasks, Begin(t) PROVE Goal
    <2>0. /\ stage[t] = "idle" /\ ~Busy(t) /\ at[t] = 1 /\ fd[t] = "closed"
          /\ stage'[t] \in {"ready", "compare"} /\ ~NpmRuns(t)
          /\ UNCHANGED <<disk, tmp, modules, at, fd, npm, begun>>
        BY <1>1, <1>i DEF Begin, Goto, TypeOK, Busy, TaskInv, FileInHand, NpmInHand,
                          Installing, Writing
    <2>1. TaskInv(t)'
        BY <2>0 DEF TaskInv, FilesWritten, FileInHand, NpmInHand, NpmRuns, Writing
    <2>2. \A u \in Tasks \ {t} : stage'[u] = stage[u]
        BY <1>1, <1>i DEF Begin, Goto, TypeOK
    <2>3. CASE stage'[t] = "ready"
        <3>1. ~Busy(t)'
            BY <2>0, <2>3 DEF Busy, NpmRuns, Installing, Writing
        <3>2. \A u \in Tasks : Busy(u)' => Busy(u)
            BY <2>0, <2>2, <3>1 DEF Busy, NpmRuns
        <3>3. \A u \in Tasks \ {t} : TaskInv(u)'
            BY <1>i, <2>0, <2>2
               DEF TaskInv, FilesWritten, FileInHand, NpmInHand, NpmRuns, Tmp
        <3> QED BY <1>i, <2>0, <2>1, <3>2, <3>3 DEF Alone, StampTruth
    <2>4. CASE stage'[t] = "compare"
        <3>1. \A u \in Tasks : ~Busy(u)
            <4>1. stage'[t] # "ready"
                BY <2>4
            <4>2. overlapped' = (overlapped \/ \E u \in Tasks : Busy(u))
                BY <1>1, <1>i, <4>1 DEF Begin, Goto, TypeOK
            <4> QED BY <4>2, Zenon
        <3>2. \A u \in Tasks \ {t} : TaskInv(u)' /\ ~Busy(u)'
            BY <1>i, <2>0, <2>2, <3>1, AtRest
        <3> QED BY <1>i, <2>0, <2>1, <3>2 DEF Alone, StampTruth
    <2> QED BY <2>0, <2>3, <2>4
<1>2. ASSUME NEW t \in Tasks, Again(t) PROVE Goal
    <2>0. /\ stage[t] \in {"ready", "failed"} /\ ~NpmRuns(t) /\ fd[t] = "closed"
          /\ stage'[t] = "idle" /\ at'[t] = 1
          /\ UNCHANGED <<disk, tmp, modules, fd, npm, begun>>
        BY <1>2, <1>i DEF Again, Goto, TypeOK, TaskInv, FileInHand, NpmInHand
    <2>1. TaskInv(t)' /\ ~Busy(t)'
        BY <2>0 DEF TaskInv, FilesWritten, FileInHand, NpmInHand, NpmRuns, Busy,
                    Installing, Writing
    <2>2. \A u \in Tasks \ {t} : stage'[u] = stage[u] /\ at'[u] = at[u]
        BY <1>2, <1>i DEF Again, Goto, TypeOK
    <2>3. \A u \in Tasks \ {t} : TaskInv(u)'
        BY <1>i, <2>0, <2>2 DEF TaskInv, FilesWritten, FileInHand, NpmInHand, NpmRuns, Tmp
    <2>4. \A u \in Tasks : Busy(u)' => Busy(u)
        BY <2>0, <2>1, <2>2 DEF Busy, NpmRuns
    <2> QED BY <1>i, <2>0, <2>1, <2>3, <2>4 DEF Alone, StampTruth
<1>3. ASSUME NEW t \in Tasks, Compare(t) PROVE Goal
    <2>0. /\ stage[t] = "compare" /\ Busy(t) /\ fd[t] = "closed"
          /\ UNCHANGED <<disk, tmp, modules, fd, npm, begun>>
        BY <1>3, <1>i DEF Compare, Busy, Installing, Writing, TaskInv, FileInHand
    <2>1. \A u \in Tasks \ {t} : stage'[u] = stage[u] /\ at'[u] = at[u]
        BY <1>3, <1>i DEF Compare, Proceed, Goto, TypeOK
    <2>2. TaskInv(t)' /\ StampTruth'
        <3>1. CASE disk[Written[at[t]]] = Version(t)
            BY <1>3, <1>i, <2>0, <3>1, ProceedInv DEF Compare
        <3>2. CASE disk[Written[at[t]]] # Version(t)
            <4>1. stage'[t] = "create" /\ at' = at
                BY <1>3, <1>i, <3>2 DEF Compare, Goto, TypeOK
            <4> QED BY <1>i, <1>v, <2>0, <4>1
                    DEF TaskInv, FilesWritten, FileInHand, NpmInHand, NpmRuns, Writing,
                        StampTruth
        <3> QED BY <3>1, <3>2
    <2> QED BY <1>i, <2>0, <2>1, <2>2, AloneStep
<1>4. ASSUME NEW t \in Tasks, Create(t) PROVE Goal
    <2>0. /\ stage[t] = "create" /\ Busy(t)
          /\ stage'[t] = "fill" /\ fd'[t] = "tmp"
          /\ UNCHANGED <<disk, modules, at, npm, begun>>
        BY <1>4, <1>i DEF Create, Busy, Goto, TypeOK, Installing, Writing
    <2>1. \A u \in Tasks \ {t} : stage'[u] = stage[u] /\ fd'[u] = fd[u]
        BY <1>4, <1>i DEF Create, Goto, TypeOK
    <2>2. TaskInv(t)'
        BY <1>i, <1>v, <2>0
           DEF TaskInv, FilesWritten, FileInHand, NpmInHand, NpmRuns, Writing
    <2>3. StampTruth'
        BY <1>i, <2>0 DEF StampTruth
    <2> QED BY <1>i, <2>0, <2>1, <2>2, <2>3, AloneStep
<1>5. ASSUME NEW t \in Tasks, Fill(t) PROVE Goal
    <2>0. /\ stage[t] = "fill" /\ Busy(t) /\ fd[t] = "tmp"
          /\ stage'[t] = "rename" /\ fd'[t] = "closed"
          /\ UNCHANGED <<modules, at, npm, begun>>
        BY <1>5, <1>i DEF Fill, Busy, Goto, TypeOK, Installing, Writing, TaskInv, FileInHand
    <2>1. disk' = disk /\ tmp'[Tmp(t)] = Version(t) /\ Tmp(t)' = Tmp(t)
        BY <1>5, <1>i, <1>v, <2>0 DEF Fill, TypeOK, Tmp
    <2>2. \A u \in Tasks \ {t} : stage'[u] = stage[u] /\ fd'[u] = fd[u]
        BY <1>5, <1>i DEF Fill, Goto, TypeOK
    <2>3. TaskInv(t)'
        BY <1>i, <1>v, <2>0, <2>1
           DEF TaskInv, FilesWritten, FileInHand, NpmInHand, NpmRuns, Writing
    <2>4. StampTruth'
        BY <1>i, <2>0, <2>1 DEF StampTruth
    <2> QED BY <1>i, <2>0, <2>2, <2>3, <2>4, AloneStep
<1>6. ASSUME NEW t \in Tasks, Rename(t) PROVE Goal
    <2>0. /\ stage[t] = "rename" /\ Busy(t) /\ fd[t] = "closed"
          /\ tmp[Tmp(t)] = Version(t) /\ UNCHANGED <<modules, npm, begun>>
        BY <1>6, <1>i DEF Rename, Busy, Installing, Writing, TaskInv, FileInHand
    <2>1. /\ disk' = [disk EXCEPT ![Written[at[t]]] = Version(t)]
          /\ fd' = [u \in Tasks |-> Renamed(t, u)] /\ Proceed(t)
        BY <1>6, <1>v, <2>0 DEF Rename
    <2>2. \A u \in Tasks : fd[u] = "closed" => fd'[u] = "closed"
        BY <2>1 DEF Renamed
    <2>3. \A u \in Tasks \ {t} : fd[u] = "closed"
        <3>1. \A u \in Tasks \ {t} : ~Busy(u)
            BY <1>i, <2>0 DEF Alone
        <3> QED BY <1>i, <3>1 DEF TaskInv, FileInHand, Busy, Installing, Writing
    <2>4. \A u \in Tasks \ {t} : /\ stage'[u] = stage[u] /\ at'[u] = at[u]
                                 /\ npm'[u] = npm[u] /\ fd'[u] = fd[u]
        BY <1>i, <2>0, <2>1, <2>2, <2>3 DEF Proceed, Goto, TypeOK
    <2>5. /\ disk'[Written[at[t]]] = Version(t)
          /\ \A f \in Files : f # Written[at[t]] => disk'[f] = disk[f]
        BY <1>i, <1>d, <2>1 DEF TypeOK
    <2>6. TaskInv(t)' /\ StampTruth'
        BY <1>i, <2>0, <2>1, <2>2, <2>5, ProceedInv
    <2> QED BY <1>i, <2>0, <2>4, <2>6, AloneStep
<1>7. ASSUME NEW t \in Tasks, IoFails(t) PROVE Goal
    <2>0. /\ stage[t] \in Writing /\ Busy(t) /\ ~NpmRuns(t)
          /\ stage'[t] = "failed" /\ fd'[t] = "closed"
          /\ UNCHANGED <<disk, tmp, modules, at, npm, begun>>
        BY <1>7, <1>i DEF IoFails, Busy, Goto, TypeOK, Installing, Writing, TaskInv, NpmInHand
    <2>1. \A u \in Tasks \ {t} : stage'[u] = stage[u] /\ fd'[u] = fd[u]
        BY <1>7, <1>i DEF IoFails, Goto, TypeOK
    <2>2. TaskInv(t)'
        BY <2>0 DEF TaskInv, FilesWritten, FileInHand, NpmInHand, NpmRuns, Writing
    <2>3. StampTruth'
        BY <1>i, <2>0 DEF StampTruth
    <2> QED BY <1>i, <2>0, <2>1, <2>2, <2>3, AloneStep
<1>8. ASSUME NEW t \in Tasks, CheckModules(t) PROVE Goal
    <2>0. /\ stage[t] = "check" /\ Busy(t) /\ ~NpmRuns(t) /\ fd[t] = "closed" /\ at[t] = 3
          /\ UNCHANGED <<disk, tmp, modules, at, fd, npm, begun>>
        BY <1>8, <1>i DEF CheckModules, Busy, Installing, TaskInv, FileInHand, NpmInHand
    <2>1. /\ stage'[t] \in {"ready", "npm"}
          /\ stage'[t] = "npm" => NeedsNpm(t)
        BY <1>8, <1>i DEF CheckModules, Goto, TypeOK
    <2>2. NeedsNpm(t) => disk[Stamp] # Version(t)
        BY <1>i, <1>v DEF NeedsNpm, StampTruth
    <2>3. TaskInv(t)'
        BY <1>i, <1>v, <2>0, <2>1, <2>2
           DEF TaskInv, FilesWritten, FileInHand, NpmInHand, NpmRuns, Writing
    <2>4. \A u \in Tasks \ {t} : stage'[u] = stage[u]
        BY <1>8, <1>i DEF CheckModules, Goto, TypeOK
    <2>5. StampTruth'
        BY <1>i, <2>0 DEF StampTruth
    <2> QED BY <1>i, <2>0, <2>3, <2>4, <2>5, AloneStep
<1>9. ASSUME NEW t \in Tasks, NpmBegins(t) PROVE Goal
    <2>0. /\ stage[t] = "npm" /\ Busy(t) /\ fd[t] = "closed" /\ at[t] = 3
          /\ disk[Stamp] # Version(t) /\ modules' = Partial
          /\ UNCHANGED <<disk, tmp, stage, at, fd>>
        BY <1>9, <1>i DEF NpmBegins, Busy, Installing, TaskInv, FileInHand, NpmInHand
    <2>1. disk["package-lock.json"] = Version(t)
        <3>1. Embedded[3] = "package-lock.json"
            BY DEF Embedded
        <3> QED BY <1>i, <2>0, <3>1 DEF TaskInv, FilesWritten
    <2>2. begun' = Version(t) /\ npm'[t] = Version(t)
        BY <1>9, <1>i, <2>1 DEF NpmBegins, TypeOK
    <2>3. \A u \in Tasks \ {t} : npm'[u] = npm[u]
        BY <1>9, <1>i DEF NpmBegins, TypeOK
    <2>4. TaskInv(t)'
        BY <1>i, <1>v, <2>0, <2>2
           DEF TaskInv, FilesWritten, FileInHand, NpmInHand, NpmRuns, Writing
    <2>5. StampTruth'
        BY <2>0, <2>2, ContentsAreDistinct DEF StampTruth
    <2> QED BY <1>i, <2>0, <2>3, <2>4, <2>5, AloneStep
<1>10. ASSUME NEW t \in Tasks, NpmSucceeds(t) PROVE Goal
    <2>0. /\ Busy(t) /\ stage[t] \in {"npm", "killed"} /\ fd[t] = "closed"
          /\ npm[t] = begun /\ npm[t] # Absent /\ disk[Stamp] # begun
          /\ stage[t] = "npm" => begun = Version(t)
          /\ UNCHANGED <<disk, tmp, fd, begun>>
        BY <1>10, <1>i DEF NpmSucceeds, Busy, NpmRuns, TaskInv, FileInHand, NpmInHand
    <2>1. modules' = begun /\ npm'[t] = Absent
        BY <1>10, <1>i, <1>o, <2>0 DEF NpmSucceeds, NpmLeaves, TypeOK
    <2>2. IF stage[t] = "npm" THEN stage'[t] = "compare" /\ at'[t] = 4
                              ELSE stage'[t] = "killed"
        BY <1>10, <1>i, <2>0, WrittenFiles DEF NpmSucceeds, Goto, TypeOK
    <2>3. \A u \in Tasks \ {t} : /\ stage'[u] = stage[u] /\ at'[u] = at[u]
                                 /\ npm'[u] = npm[u]
        BY <1>10, <1>i DEF NpmSucceeds, Goto, TypeOK
    <2>4. TaskInv(t)'
        BY <1>i, <1>v, <2>0, <2>1, <2>2
           DEF TaskInv, FilesWritten, FileInHand, NpmInHand, NpmRuns, Writing
    <2>5. StampTruth'
        BY <2>0, <2>1 DEF StampTruth
    <2> QED BY <1>i, <2>0, <2>3, <2>4, <2>5, AloneStep
<1>11. ASSUME NEW t \in Tasks, NpmFails(t) PROVE Goal
    <2>0. /\ Busy(t) /\ stage[t] \in {"npm", "killed"} /\ fd[t] = "closed"
          /\ stage'[t] \in {"failed", "killed"} /\ npm'[t] = Absent
          /\ UNCHANGED <<disk, tmp, modules, at, fd, begun>>
        BY <1>11, <1>i DEF NpmFails, Busy, Goto, TypeOK, TaskInv, FileInHand, NpmInHand,
                           Installing
    <2>1. \A u \in Tasks \ {t} : stage'[u] = stage[u] /\ npm'[u] = npm[u]
        BY <1>11, <1>i DEF NpmFails, Goto, TypeOK
    <2>2. TaskInv(t)'
        BY <2>0 DEF TaskInv, FilesWritten, FileInHand, NpmInHand, NpmRuns, Writing
    <2>3. StampTruth'
        BY <1>i, <2>0 DEF StampTruth
    <2> QED BY <1>i, <2>0, <2>1, <2>2, <2>3, AloneStep
<1>12. ASSUME NEW p \in Processes, Crash(p) PROVE Goal
    <2>0. UNCHANGED <<disk, tmp, modules, at, npm, begun>>
        BY <1>12 DEF Crash
    <2>1. \A u \in Tasks : \/ stage'[u] = "killed" /\ fd'[u] = "closed"
                           \/ stage'[u] = stage[u] /\ fd'[u] = fd[u]
        BY <1>12 DEF Crash
    <2>2. \A u \in Tasks : Busy(u)' => Busy(u)
        BY <2>0, <2>1 DEF Busy, NpmRuns, Installing, Writing
    <2>3. ASSUME NEW u \in Tasks PROVE TaskInv(u)'
        <3>1. CASE stage'[u] = "killed" /\ fd'[u] = "closed"
            BY <1>i, <2>0, <3>1
               DEF TaskInv, FilesWritten, FileInHand, NpmInHand, NpmRuns, Writing
        <3>2. CASE stage'[u] = stage[u] /\ fd'[u] = fd[u]
            BY <1>i, <1>v, <2>0, <3>2
               DEF TaskInv, FilesWritten, FileInHand, NpmInHand, NpmRuns, Tmp
        <3> QED BY <2>1, <3>1, <3>2
    <2> QED BY <1>i, <2>0, <2>2, <2>3 DEF Alone, StampTruth
<1>13. ASSUME NEW p \in Processes, Restart(p) PROVE Goal
    <2>0. UNCHANGED <<disk, modules, fd, npm, begun>>
        BY <1>13 DEF Restart
    <2>1. \A u \in Tasks :
              IF ProcessOf[u] = p
              THEN /\ stage[u] = "killed" /\ ~NpmRuns(u)
                   /\ stage'[u] = "idle" /\ at'[u] = 1
              ELSE stage'[u] = stage[u] /\ at'[u] = at[u]
        BY <1>13 DEF Restart
    <2>2. \A u \in Tasks : ProcessOf[u] # p => tmp'[Tmp(u)] = tmp[Tmp(u)]
        <3>1. \A n \in TmpNames : n[2] # p => tmp'[n] = tmp[n]
            BY <1>13 DEF Restart
        <3> QED BY <3>1, <1>v DEF Tmp
    <2>3. \A u \in Tasks : Busy(u)' => Busy(u)
        BY <2>0, <2>1 DEF Busy, NpmRuns, Installing, Writing
    <2>4. ASSUME NEW u \in Tasks PROVE TaskInv(u)'
        <3>1. CASE ProcessOf[u] = p
            BY <1>i, <2>0, <2>1, <3>1
               DEF TaskInv, FilesWritten, FileInHand, NpmInHand, NpmRuns, Writing
        <3>2. CASE ProcessOf[u] # p
            <4>1. Tmp(u)' = Tmp(u)
                BY <2>1, <3>2 DEF Tmp
            <4> QED BY <1>i, <1>v, <2>0, <2>1, <2>2, <3>2, <4>1
                    DEF TaskInv, FilesWritten, FileInHand, NpmInHand, NpmRuns
        <3> QED BY <3>1, <3>2
    <2> QED BY <1>i, <2>0, <2>3, <2>4 DEF Alone, StampTruth
<1>14. CASE UserDeletes
    <2>0. /\ \A u \in Tasks : ~Busy(u)
          /\ UNCHANGED <<stage, at, fd, npm>> /\ begun' = Absent
          /\ disk'[Stamp] = Absent
        BY <1>14, WrittenFiles DEF UserDeletes
    <2>1. \A u \in Tasks : TaskInv(u)' /\ ~Busy(u)'
        BY <1>i, <2>0, AtRest
    <2> QED BY <2>0, <2>1 DEF Alone, StampTruth
<1>15. CASE UNCHANGED vars
    BY <1>i, <1>15 DEF vars, Alone, Busy, NpmRuns, StampTruth, TaskInv, FilesWritten,
                       FileInHand, NpmInHand, Tmp, Version
<1> QED
    BY <1>1, <1>2, <1>3, <1>4, <1>5, <1>6, <1>7, <1>8, <1>9, <1>10, <1>11, <1>12, <1>13,
       <1>14, <1>15 DEF Next, Step

LEMMA InitInstall == Init => InstallInv
<1> SUFFICES ASSUME Init PROVE InstallInv
    OBVIOUS
<1>1. TypeOK
    BY InitTypeOK
<1>2. \A t \in Tasks : stage[t] = "idle" /\ at[t] = 1 /\ fd[t] = "closed" /\ npm[t] = Absent
    BY DEF Init
<1>3. \A t \in Tasks : TaskInv(t) /\ ~Busy(t)
    BY <1>2 DEF TaskInv, FilesWritten, FileInHand, NpmInHand, Busy, NpmRuns,
                Installing, Writing
<1>4. StampTruth
    BY WrittenFiles DEF Init, StampTruth
<1> QED BY <1>1, <1>3, <1>4 DEF InstallInv, Alone

LEMMA InstallInvariant == Spec => []InstallInv
<1>1. InstallInv /\ [Next]_vars => InstallInv'
    <2> SUFFICES ASSUME InstallInv, [Next]_vars PROVE InstallInv'
        OBVIOUS
    <2>1. TypeOK'
        BY NextTypeOK DEF InstallInv
    <2>2. CASE overlapped'
        BY <2>1, <2>2 DEF InstallInv
    <2>3. CASE ~overlapped'
        BY <2>1, <2>3, NextInstall DEF InstallInv
    <2> QED BY <2>2, <2>3
<1> QED BY <1>1, InitInstall, PTL DEF Spec

\* When no two installs have overlapped and none is under way, a stamp of the
\* version whose npm began last vouches for node_modules, however many
\* installs failed or were killed (managed_bridge.rs:139-150).
THEOREM StampIsTrue == Spec => []StampOfLastInstall
<1>1. InstallInv => StampOfLastInstall
    BY DEF InstallInv, StampTruth, StampOfLastInstall
<1> QED BY <1>1, InstallInvariant, PTL

LEMMA ReadyIsOwn ==
    ASSUME InstallInv, [Next]_vars, NEW t \in Tasks, HandsOut(t)
    PROVE  OwnFiles(t)' /\ (begun' = Version(t) => OwnModules(t)')
<1> USE DEF HandsOut
<1>i. TypeOK /\ Alone /\ StampTruth /\ TaskInv(t)
    BY DEF InstallInv
<1>v. Version(t) \in Versions /\ Version(t) # Absent /\ Version(t)' = Version(t)
    BY <1>i, TmpType, VersionsAreWhole DEF Version
<1>d. at[t] \in 1 .. 4 /\ Written[at[t]] \in Files
    BY <1>i, WrittenFiles DEF TypeOK
<1> DEFINE FilesAreOurs == \A i \in 1 .. 3 : disk[Embedded[i]] = Version(t)
<1>w. /\ disk' = disk \/ disk' = [disk EXCEPT ![Stamp] = Version(t)]
      /\ FilesAreOurs
      => OwnFiles(t)'
    BY <1>i, <1>v, Names DEF OwnFiles, TypeOK
\* An install is done as its check finds the stamp, or as its stamp is written.
<1>1. \/ CheckModules(t) /\ ~NeedsNpm(t)
      \/ (Compare(t) \/ Rename(t)) /\ at[t] = 4
    <2>1. ASSUME NEW u \in Tasks, Step(u), u # t PROVE FALSE
        BY <2>1, <1>i
           DEF Step, Begin, Again, Compare, Create, Fill, Rename, IoFails, CheckModules,
               NpmBegins, NpmSucceeds, NpmFails, Proceed, Goto, TypeOK, Installing, Writing
    <2>2. CASE Step(t)
        <3>1. Compare(t) \/ Rename(t) \/ CheckModules(t)
            BY <2>2, <1>i
               DEF Step, Begin, Again, Create, Fill, IoFails, NpmBegins, NpmSucceeds,
                   NpmFails, Goto, TypeOK, Installing, Writing
        <3>2. ASSUME Compare(t) \/ Rename(t) PROVE at[t] = 4
            BY <3>2, <1>i, WrittenFiles DEF Compare, Rename, Proceed, Goto, TypeOK
        <3>3. ASSUME CheckModules(t) PROVE ~NeedsNpm(t)
            BY <3>3, <1>i DEF CheckModules, Goto, TypeOK
        <3> QED BY <3>1, <3>2, <3>3
    <2>3. ASSUME NEW p \in Processes, Crash(p) \/ Restart(p) PROVE FALSE
        BY <2>3, <1>i DEF Crash, Restart, TypeOK, Installing, Writing
    <2>4. ASSUME UserDeletes \/ UNCHANGED vars PROVE FALSE
        BY <2>4 DEF UserDeletes, vars, Installing, Writing
    <2> QED BY <2>1, <2>2, <2>3, <2>4 DEF Next
<1>2. CASE CheckModules(t) /\ ~NeedsNpm(t)
    <2>1. UNCHANGED <<disk, modules, begun>> /\ stage[t] = "check"
        BY <1>2 DEF CheckModules
    <2>2. disk[Stamp] = Version(t) /\ modules # Absent
        BY <1>2 DEF NeedsNpm
    <2>3. begun' = Version(t) => OwnModules(t)'
        BY <1>i, <1>v, <2>1, <2>2 DEF StampTruth, OwnModules
    <2>4. FilesAreOurs
        BY <1>i, <2>1 DEF TaskInv, FilesWritten
    <2> QED BY <1>w, <2>1, <2>3, <2>4
<1>3. CASE (Compare(t) \/ Rename(t)) /\ at[t] = 4
    <2>1. stage[t] \in {"compare", "rename"} /\ modules' = modules
        BY <1>3 DEF Compare, Rename
    <2>2. modules = Version(t) /\ FilesAreOurs
        BY <1>3, <1>i, <2>1 DEF TaskInv, NpmInHand, FilesWritten, Writing
    <2>3. Rename(t) => disk' = [disk EXCEPT ![Stamp] = Version(t)]
        <3> SUFFICES ASSUME Rename(t) PROVE disk' = [disk EXCEPT ![Stamp] = Version(t)]
            OBVIOUS
        <3>1. tmp[Tmp(t)] = Version(t)
            BY <1>i DEF Rename, TaskInv, FileInHand
        <3> QED BY <1>3, <1>v, <3>1, Names DEF Rename
    <2>4. Compare(t) => disk' = disk
        BY DEF Compare
    <2>5. OwnModules(t)'
        BY <1>v, <2>1, <2>2 DEF OwnModules
    <2> QED BY <1>3, <1>w, <2>2, <2>3, <2>4, <2>5
<1> QED BY <1>1, <1>2, <1>3

\* When no installs have overlapped, the bridge that an install hands out has
\* the files of its binary, and, if the npm that began last was for its version,
\* the modules made for them; of the modules that another version's npm has
\* left since, nothing is said (managed_bridge.rs:54-73, settings.rs:212-241).
THEOREM BridgeHandedOutIsOwn == Spec => ReadyBridgeIsOwn
<1> DEFINE Handed == \A t \in Tasks :
                      HandsOut(t) =>
                         /\ OwnFiles(t)'
                         /\ begun' = Version(t) => OwnModules(t)'
<1>1. InstallInv /\ [Next]_vars => [Handed]_vars
    BY ReadyIsOwn
<1>2. Spec => [][Handed]_vars
    <2> HIDE DEF Handed
    <2> QED BY <1>1, InstallInvariant, PTL DEF Spec
<1> QED BY <1>2 DEF ReadyBridgeIsOwn
=============================================================================
