------------------------------ MODULE Settings ------------------------------
(***************************************************************************)
(* Where settings come from: `abh init` (cli commands/init.rs) seeds the   *)
(* user's configuration directory, the user edits what it wrote, abh is    *)
(* upgraded, and every command layers files, environment variables and     *)
(* secret files (server config/settings.rs) into the settings it runs with.*)
(*                                                                         *)
(* A file is a function from the keys it sets to their values; one that is *)
(* truncated sets none.  A command is not a step: Load says what one would *)
(* get that is started now, in an `environment` and a working directory.   *)
(***************************************************************************)
EXTENDS Sequences

CONSTANTS
    Versions,      \* of abh, and of the defaults it ships
    Edits,         \* what the user may write into config.toml
    Environments,  \* what commands are started with, see MCSettings
    Checkout,      \* the configuration directory of a checkout of the sources
    None, Absent,  \* nothing is given; a file is not there
    Failure        \* settings cannot be built

Empty == ""
NoKeys == <<>>
Required == {"server_url", "password", "rate"}
Defaults == [payee_name |-> "Balance Adjustment", cache_dir |-> Empty]
Keys == Required \cup DOMAIN Defaults

\* configuration/base.toml and CONFIG_STUB.
Shipped(v) ==
    [server_url |-> Empty, password |-> Empty, rate |-> v, payee_name |-> v]
Stub == [server_url |-> Empty, password |-> Empty]

ASSUME ContentsAssumption ==
    /\ Absent # None /\ None \notin Versions
    /\ \A file \in Edits \cup {NoKeys, Stub} \cup {Shipped(v) : v \in Versions} :
          file # Absent /\ DOMAIN file \subseteq Keys

VARIABLES
    shipped,   \* the version of abh
    base,      \* ~/.config/ab-helpers/base.toml
    config,    \* ~/.config/ab-helpers/config.toml
    stage,     \* where an `abh init` is
    force,     \* has it --force?
    own,       \* does its --from name the directory it writes to?
    written,   \* history: what the user has written into config.toml
    refreshed  \* history: the version of the last init that copied base.toml

vars == <<shipped, base, config, stage, force, own, written, refreshed>>

TypeOK ==
    /\ shipped \in Versions
    /\ base = Absent \/ DOMAIN base \subseteq Keys
    /\ config = Absent \/ DOMAIN config \subseteq Keys
    /\ stage \in {"idle", "copying", "config", "writing"}
    /\ force \in BOOLEAN /\ own \in BOOLEAN
    /\ DOMAIN written \subseteq Keys
    /\ refreshed \in Versions \cup {None}
    /\ stage # "idle" => base # Absent

Init ==
    /\ shipped \in Versions
    /\ base = Absent /\ config = Absent
    /\ stage = "idle" /\ force = FALSE /\ own = FALSE
    /\ written = NoKeys /\ refreshed = None

----------------------------------------------------------------------------
(* abh init, of a user with a home.                                        *)

\* Variant: who has a config.toml has been here before.
BeginUnlessConfigured ==
    /\ stage = "idle"
    /\ force' \in BOOLEAN /\ own' = FALSE
    /\ IF config = Absent
       THEN stage' = "copying" /\ base' = NoKeys /\ refreshed' = None
       ELSE stage' = "config" /\ UNCHANGED <<base, refreshed>>
    /\ UNCHANGED <<shipped, config, written>>

\* fs::copy truncates base.toml, which may be the file it copies from ...
Begin ==
    /\ stage = "idle"
    /\ force' \in BOOLEAN
    /\ own' \in {FALSE} \cup {o \in {TRUE} : base # Absent}
    /\ stage' = "copying"
    /\ base' = NoKeys /\ refreshed' = None
    /\ UNCHANGED <<shipped, config, written>>

\* ... and copies.
Copy ==
    /\ stage = "copying"
    /\ stage' = "config"
    /\ base' = IF own THEN base ELSE Shipped(shipped)
    /\ refreshed' = IF own THEN None ELSE shipped
    /\ UNCHANGED <<shipped, config, force, own, written>>

\* Variant: the stub is written whatever is there.
KeepsNothing == FALSE
KeepsConfig == config # Absent /\ ~force

LookAtConfig ==
    /\ stage = "config"
    /\ IF KeepsConfig
       THEN stage' = "idle" /\ UNCHANGED <<config, written>>
       ELSE /\ stage' = "writing" /\ config' = NoKeys
            /\ written' = IF force THEN NoKeys ELSE written
    /\ UNCHANGED <<shipped, base, force, own, refreshed>>

WriteStub ==
    /\ stage = "writing"
    /\ stage' = "idle"
    /\ config' = Stub
    /\ UNCHANGED <<shipped, base, force, own, written, refreshed>>

\* It is killed, or the disk refuses to go on.
InitDies ==
    /\ stage # "idle"
    /\ stage' = "idle"
    /\ UNCHANGED <<shipped, base, config, force, own, written, refreshed>>

----------------------------------------------------------------------------
(* The user.                                                               *)

Upgrade ==
    /\ stage = "idle"
    /\ shipped' \in Versions \ {shipped}
    /\ UNCHANGED <<base, config, stage, force, own, written, refreshed>>

Edit ==
    /\ stage = "idle"
    /\ config' \in Edits /\ written' = config'
    /\ UNCHANGED <<shipped, base, stage, force, own, refreshed>>

DeleteFile ==
    /\ stage = "idle"
    /\ \/ base' = Absent /\ refreshed' = None /\ UNCHANGED <<config, written>>
       \/ config' = Absent /\ written' = NoKeys /\ UNCHANGED <<base, refreshed>>
    /\ UNCHANGED <<shipped, stage, force, own>>

Next ==
    \/ Begin \/ Copy \/ LookAtConfig \/ WriteStub \/ InitDies
    \/ Upgrade \/ Edit \/ DeleteFile

Spec == Init /\ [][Next]_vars

----------------------------------------------------------------------------
(* Settings::build.                                                        *)

\* A layer is a file, and whether it must be there.
Must(file) == [file |-> file, required |-> TRUE]
May(file) == [file |-> file, required |-> FALSE]
DirLayers(dir) == <<Must(dir.base), May(dir.overlay)>>

HasUserConfig(e) == e.home /\ (base # Absent \/ config # Absent)

InUserDir == <<May(base), May(config)>>

\* config_layers: the first place that there is.
\* Variant: a checkout comes before the user's directory.
LayersCheckoutFirst(e, cwd) ==
    IF e.file # None THEN <<Must(e.file)>>
    ELSE IF e.dir # None THEN DirLayers(e.dir)
    ELSE IF e.exe # None THEN DirLayers(e.exe)
    ELSE IF cwd = "checkout" THEN DirLayers(Checkout)
    ELSE IF HasUserConfig(e) THEN InUserDir
    ELSE <<>>

Layers(e, cwd) ==
    IF e.file # None THEN <<Must(e.file)>>
    ELSE IF e.dir # None THEN DirLayers(e.dir)
    ELSE IF e.exe # None THEN DirLayers(e.exe)
    ELSE IF HasUserConfig(e) THEN InUserDir
    ELSE IF cwd = "checkout" THEN DirLayers(Checkout)
    ELSE <<>>

\* resolve_secret_file_paths: a secret has one source.  Only what is not empty
\* counts as set here, but an empty variable sets its key.
\* Variant: the file wins.
NeverConflict(e) == FALSE
Conflict(e) == \E k \in DOMAIN e.secrets \cap DOMAIN e.variables : e.variables[k] # Empty

Missing(e, cwd) ==
    \/ \E i \in DOMAIN Layers(e, cwd) :
          Layers(e, cwd)[i].required /\ Layers(e, cwd)[i].file = Absent
    \/ \E k \in DOMAIN e.secrets : e.secrets[k] = Absent

\* A source of settings over those before it.
Over(below, source) ==
    [k \in DOMAIN below \cup DOMAIN source |->
        IF k \in DOMAIN source THEN source[k] ELSE below[k]]

\* A file that is not there sets nothing; there are two layers at most.
Content(layers, i) ==
    IF i \notin DOMAIN layers \/ layers[i].file = Absent THEN NoKeys
    ELSE layers[i].file

\* Variant: a file takes the place of the one below it.
LastFile(layers) ==
    IF Content(layers, 2) = NoKeys THEN Content(layers, 1) ELSE Content(layers, 2)
FromFiles(layers) == Over(Content(layers, 1), Content(layers, 2))

Merged(e, cwd) == Over(Over(FromFiles(Layers(e, cwd)), e.variables), e.secrets)

Load(e, cwd) ==
    IF Layers(e, cwd) = <<>> \/ Missing(e, cwd) \/ Conflict(e) THEN Failure
    ELSE IF Required \subseteq DOMAIN Merged(e, cwd) THEN Over(Defaults, Merged(e, cwd))
    ELSE Failure

\* default_cache_dir: without a home, the checkout or the directory of abh.
DefaultCacheDir(e, cwd) == IF e.home THEN "data" ELSE cwd

CacheDir(e, cwd) ==
    LET set == Load(e, cwd).cache_dir
    IN  IF set = Empty THEN DefaultCacheDir(e, cwd) ELSE set

----------------------------------------------------------------------------
(* Properties.                                                             *)

Dirs == {"elsewhere", "checkout"}
Works(e, cwd) == Load(e, cwd) # Failure
Installed(e) == e.file = None /\ e.dir = None /\ e.exe = None /\ e.home
Exported(e) == DOMAIN e.variables \cup DOMAIN e.secrets

\* README.md:48-50: what the user has written into config.toml is what every
\* command of an installed abh runs with, unless a variable or a secret file
\* says otherwise, after any inits, finished or killed, and upgrades, until an
\* init is told to overwrite it (init.rs:100-112).
OverridesReach ==
    \A e \in Environments : \A cwd \in Dirs :
        Installed(e) /\ Works(e, cwd) =>
            \A k \in DOMAIN written \ Exported(e) : Load(e, cwd)[k] = written[k]

\* README.md:48-49: an init brings the defaults of the abh that ran it to all
\* that config.toml does not set, until the next begins (init.rs:85-92).
RefreshReaches ==
    refreshed # None =>
        \A e \in Environments : \A cwd \in Dirs :
            LET default == Shipped(refreshed)
                set == Exported(e) \cup IF config = Absent THEN {} ELSE DOMAIN config
            IN  Installed(e) /\ Works(e, cwd) =>
                    \A k \in DOMAIN default \ set : Load(e, cwd)[k] = default[k]

\* README.md:77-79: what is exported takes effect or is refused, and of a
\* variable and a secret file neither is picked silently
\* (settings.rs:508-527 and 530-544).
ExportsTakeEffect ==
    \A e \in Environments : \A cwd \in Dirs :
        Works(e, cwd) =>
            /\ \A k \in DOMAIN e.secrets : Load(e, cwd)[k] = e.secrets[k]
            /\ \A k \in DOMAIN e.variables :
                  e.variables[k] # Empty => Load(e, cwd)[k] = e.variables[k]

\* settings.rs:319-324: "every CLI invocation reads/writes the same place
\* regardless of the working directory", so that one lock is enough for all of
\* them.  Without a home this needs a cache_dir.
OneReplica ==
    \A e \in Environments :
        (\A cwd \in Dirs : Works(e, cwd))
        /\ (e.home \/ \A cwd \in Dirs : Load(e, cwd).cache_dir # Empty)
        => CacheDir(e, "elsewhere") = CacheDir(e, "checkout")
=============================================================================
