--------------------------- MODULE BridgeSession ---------------------------
(***************************************************************************)
(* One `BridgeSession` of crates/actual/src/session.rs: a Rust object that *)
(* talks, one JSON line per request, to a `node index.js serve` child      *)
(* (crates/actual/bridge/index.js) which holds one open Actual budget.     *)
(*                                                                         *)
(* Rust side: `state`, `nextId`, the async mutex around the pipes, and the *)
(* callers of `invoke`/`close`.  Node side: the serve loop, the handlers,  *)
(* their timeouts, and the local replica that `api.sync()` pushes to the   *)
(* server.  A write is identified by the id of the request that asked for  *)
(* it; payloads are abstracted away.                                       *)
(***************************************************************************)
EXTENDS Naturals, Sequences, FiniteSets

CONSTANTS
    Callers,    \* tasks that share the Arc<BridgeSession>
    NoCaller,   \* nobody holds the mutex
    MaxId       \* bound: no call begins once this many ids may be in use

ASSUME CallersAssumption == NoCaller \notin Callers
ASSUME BoundAssumption == MaxId \in Nat

VARIABLES
    phase,     \* "opening" (inside open_session), "shared", "dropped"
    state,     \* the enum State of session.rs
    nextId,    \* the AtomicU64
    holder,    \* who holds io: Mutex<SessionIo> across an await
    pc,        \* where each caller is in invoke()/close()
    req,       \* the request each caller is making
    answer,    \* what invoke(Close) returned, kept until close() returns
    node,      \* the serve loop of index.js
    stdin,     \* request lines written and not yet read
    stdout,    \* frames written and not yet read
    local,     \* writes applied to the local replica
    remote,    \* writes the server has
    acked,     \* history: writes whose caller was told Ok
    rejected,  \* history: writes whose caller was told of a non-fatal error
    closedOk,  \* history: a close() request was answered Ok
    abandoned  \* history: a caller dropped a call whose request was sent

rustVars == <<phase, state, nextId, holder, pc, req, answer>>
nodeVars == <<node, stdin, stdout>>
dataVars == <<local, remote>>
history == <<acked, rejected, closedOk, abandoned>>
vars == <<rustVars, nodeVars, dataVars, history>>

----------------------------------------------------------------------------
Operations == {"read", "write"}
NoRequest == [id |-> 0, op |-> "none"]
NullId == 0    \* the `id: null` of frames that answer no request

Requests == [id : Nat, op : Operations \cup {"open", "close", "none"}]
Frames == [id : Nat, kind : {"ok", "error", "fatal", "torn"}]
Nodes == [pc : {"read", "work", "sync", "stop", "exited"},
          req : Requests, opened : BOOLEAN, clean : BOOLEAN,
          late : {"none", "work", "sync"}]

Frame(i, k) == [id |-> i, kind |-> k]
Exited(n) == [n EXCEPT !.pc = "exited", !.late = "none"]
Alive == node.pc # "exited"

\* SIGKILL (start_kill, or kill_on_drop when the session is dropped).
Kill == /\ node' = Exited(node)
        /\ stdin' = <<>>
        /\ UNCHANGED <<stdout, local, remote>>

TypeOK ==
    /\ phase \in {"opening", "shared", "dropped"}
    /\ state \in {"Open", "Poisoned", "Closed"}
    /\ nextId \in Nat \ {0}
    /\ holder \in Callers \cup {NoCaller}
    /\ pc \in [Callers -> {"idle", "gate", "call", "await", "reap"}]
    /\ req \in [Callers -> Requests]
    /\ answer \in [Callers -> BOOLEAN]
    /\ node \in Nodes
    /\ stdin \in Seq(Requests)
    /\ stdout \in Seq(Frames)
    /\ local \subseteq Nat
    /\ remote \subseteq Nat
    /\ acked \subseteq Nat
    /\ rejected \subseteq Nat
    /\ closedOk \in BOOLEAN
    /\ abandoned \in BOOLEAN

\* Variant: ids that start at zero, the id of frames that answer nobody.
FirstIdZero == 0
FirstId == 1

\* open_session has spawned the child and is inside invoke(Open).
Init ==
    /\ phase = "opening" /\ state = "Open" /\ holder = NoCaller
    /\ nextId = FirstId
    /\ \E opener \in Callers :
          /\ pc = [c \in Callers |-> IF c = opener THEN "call" ELSE "idle"]
          /\ req = [c \in Callers |-> IF c = opener
                                      THEN [id |-> 0, op |-> "open"]
                                      ELSE NoRequest]
    /\ answer = [c \in Callers |-> FALSE]
    /\ node = [pc |-> "read", req |-> NoRequest, opened |-> FALSE,
               clean |-> FALSE, late |-> "none"]
    /\ stdin = <<>> /\ stdout = <<>>
    /\ local = {} /\ remote = {}
    /\ acked = {} /\ rejected = {} /\ closedOk = FALSE
    /\ abandoned = FALSE

----------------------------------------------------------------------------
(* The Rust side: invoke() and close().                                    *)

Room == nextId + Cardinality({c \in Callers : pc[c] # "idle"}) <= MaxId

Begin(c, op) ==
    /\ phase = "shared" /\ pc[c] = "idle" /\ Room
    /\ pc' = [pc EXCEPT ![c] = "call"]
    /\ req' = [req EXCEPT ![c] = [id |-> 0, op |-> op]]
    /\ UNCHANGED <<phase, state, nextId, holder, answer, nodeVars, dataVars,
                   history>>

BeginClose(c) ==
    /\ phase = "shared" /\ pc[c] = "idle" /\ Room
    /\ pc' = [pc EXCEPT ![c] = "gate"]
    /\ req' = [req EXCEPT ![c] = [id |-> 0, op |-> "close"]]
    /\ UNCHANGED <<phase, state, nextId, holder, answer, nodeVars, dataVars,
                   history>>

\* Variant: a poisoned session is closed without killing its bridge.
CloseGateWithoutKill(c) ==
    /\ pc[c] = "gate" /\ holder = NoCaller
    /\ pc' = [pc EXCEPT ![c] = IF state = "Open" THEN "call" ELSE "idle"]
    /\ state' = IF state = "Open" THEN "Open" ELSE "Closed"
    /\ UNCHANGED <<phase, nextId, holder, req, answer, nodeVars, dataVars,
                   history>>

\* The state check of close(); an open session goes on to invoke(Close) with
\* the mutex released in between.
CloseGate(c) ==
    /\ pc[c] = "gate" /\ holder = NoCaller
    /\ \/ /\ state = "Open"
          /\ pc' = [pc EXCEPT ![c] = "call"]
          /\ UNCHANGED <<state, nodeVars, dataVars>>
       \/ /\ state = "Closed"
          /\ pc' = [pc EXCEPT ![c] = "idle"]
          /\ UNCHANGED <<state, nodeVars, dataVars>>
       \/ /\ state = "Poisoned"
          /\ state' = "Closed"
          /\ pc' = [pc EXCEPT ![c] = "idle"]
          /\ Kill
    /\ UNCHANGED <<phase, nextId, holder, req, answer, history>>

\* invoke() returns: the mutex is released; open_session hands the session
\* out or drops it; close() goes on to wait for the child.
Settle(c, ok) ==
    /\ holder' = NoCaller
    /\ pc' = [pc EXCEPT ![c] = IF req[c].op = "close" THEN "reap" ELSE "idle"]
    /\ answer' = [answer EXCEPT ![c] = ok]
    /\ phase' = IF phase # "opening" THEN phase
                ELSE IF ok THEN "shared" ELSE "dropped"

\* The child dies with a session whose open failed; otherwise it is untouched.
DropIfOpening == IF phase = "opening" THEN Kill
                 ELSE UNCHANGED <<nodeVars, dataVars>>

\* Variant: the mutex guards the write of the request only.
SendWithoutMutex(c) ==
    /\ pc[c] = "call" /\ state = "Open" /\ Alive
    /\ nextId' = nextId + 1
    /\ req' = [req EXCEPT ![c].id = nextId]
    /\ stdin' = Append(stdin, [id |-> nextId, op |-> req[c].op])
    /\ holder' = c
    /\ pc' = [pc EXCEPT ![c] = "await"]
    /\ UNCHANGED <<phase, state, answer, node, stdout, dataVars, history>>

\* invoke() up to the written request line.
Send(c) ==
    /\ pc[c] = "call" /\ holder = NoCaller /\ state = "Open" /\ Alive
    /\ nextId' = nextId + 1
    /\ req' = [req EXCEPT ![c].id = nextId]
    /\ stdin' = Append(stdin, [id |-> nextId, op |-> req[c].op])
    /\ holder' = c
    /\ pc' = [pc EXCEPT ![c] = "await"]
    /\ UNCHANGED <<phase, state, answer, node, stdout, dataVars, history>>

SendToDeadBridge(c) ==
    /\ pc[c] = "call" /\ holder = NoCaller /\ state = "Open" /\ ~Alive
    /\ nextId' = nextId + 1
    /\ state' = "Poisoned"
    /\ Settle(c, FALSE)
    /\ DropIfOpening
    /\ UNCHANGED <<req, history>>

RefuseUnusable(c) ==
    /\ pc[c] = "call" /\ holder = NoCaller /\ state # "Open"
    /\ Settle(c, FALSE)
    /\ UNCHANGED <<state, nextId, req, nodeVars, dataVars, history>>

\* Variant: the read of the answer has no timeout.
NoTimeout(c) == FALSE
Timeout(c) ==
    /\ pc[c] = "await"
    /\ state' = "Poisoned"
    /\ Settle(c, FALSE)
    /\ Kill
    /\ UNCHANGED <<nextId, req, history>>

EndOfStream(c) ==
    /\ pc[c] = "await" /\ stdout = <<>> /\ ~Alive
    /\ state' = "Poisoned"
    /\ Settle(c, FALSE)
    /\ DropIfOpening
    /\ UNCHANGED <<nextId, req, history>>

\* Variant: the id of an Ok frame is not compared.
AcceptsAnyOk(c, f) == f.kind = "ok"

\* Takes the next frame off the pipe.  Error frames are believed whatever
\* their id; an Ok frame must carry the id just sent.
Accepts(c, f) == f.kind = "ok" /\ f.id = req[c].id

Poisons(c, f) == \/ f.kind \in {"torn", "fatal"}
                 \/ f.kind = "ok" /\ f.id # req[c].id

Receive(c) ==
    /\ pc[c] = "await" /\ stdout # <<>>
    /\ LET f == Head(stdout)
       IN /\ state' = IF Poisons(c, f) THEN "Poisoned" ELSE state
          /\ Settle(c, Accepts(c, f))
          /\ acked' = IF Accepts(c, f) /\ req[c].op = "write"
                      THEN acked \cup {req[c].id} ELSE acked
          /\ rejected' = IF f.kind = "error" /\ req[c].op = "write"
                         THEN rejected \cup {req[c].id} ELSE rejected
          /\ closedOk' = (closedOk \/ (Accepts(c, f) /\ req[c].op = "close"))
          /\ stdout' = Tail(stdout)
          /\ IF phase = "opening" /\ ~Accepts(c, f)
             THEN node' = Exited(node) /\ stdin' = <<>>
             ELSE UNCHANGED <<node, stdin>>
    /\ UNCHANGED <<nextId, req, dataVars, abandoned>>

\* Variant: close() returns while the bridge may still run.
ReapWithoutKill(c) ==
    /\ pc[c] = "reap" /\ holder = NoCaller
    /\ state' = "Closed"
    /\ pc' = [pc EXCEPT ![c] = "idle"]
    /\ UNCHANGED <<phase, nextId, holder, req, answer, nodeVars, dataVars,
                   history>>

\* The tail of close(): wait for the child, kill it if it does not exit.
Reap(c) ==
    /\ pc[c] = "reap" /\ holder = NoCaller
    /\ state' = "Closed"
    /\ pc' = [pc EXCEPT ![c] = "idle"]
    /\ Kill
    /\ UNCHANGED <<phase, nextId, holder, req, answer, history>>

\* A caller drops the future of its call; dropping open_session drops the
\* session.  A request already written stays with the bridge.
Cancel(c) ==
    /\ pc[c] # "idle"
    /\ pc' = [pc EXCEPT ![c] = "idle"]
    /\ holder' = IF holder = c THEN NoCaller ELSE holder
    /\ phase' = IF phase = "opening" THEN "dropped" ELSE phase
    /\ DropIfOpening
    /\ abandoned' = (abandoned \/ pc[c] = "await")
    /\ UNCHANGED <<state, nextId, req, answer, acked, rejected, closedOk>>

\* The last Arc goes away: kill_on_drop.
Drop ==
    /\ phase = "shared" /\ \A c \in Callers : pc[c] = "idle"
    /\ phase' = "dropped"
    /\ Kill
    /\ UNCHANGED <<state, nextId, holder, pc, req, answer, history>>

----------------------------------------------------------------------------
(* The bridge: serve(), handleOperation(), dispatchOperation().            *)

\* `for await (const line of rl)`
ReadRequest ==
    /\ node.pc = "read" /\ stdin # <<>>
    /\ node' = [node EXCEPT !.pc = "work", !.req = Head(stdin)]
    /\ stdin' = Tail(stdin)
    /\ UNCHANGED <<rustVars, stdout, dataVars, history>>

\* Writes the frame; a fatal one, and any answer to `close`, ends the loop.
Reply(kind) ==
    /\ stdout' = Append(stdout, Frame(node.req.id, kind))
    /\ node' = [node EXCEPT
                  !.pc = IF kind = "fatal" \/ node.req.op = "close"
                         THEN "stop" ELSE "read",
                  !.opened = @ \/ node.req.op = "open",
                  !.clean = kind = "ok" /\ node.req.op = "close"]
    /\ UNCHANGED stdin

OpenBudget ==
    /\ node.pc = "work" /\ node.req.op = "open"
    /\ \E kind \in {"ok", "fatal"} : Reply(kind)
    /\ UNCHANGED <<rustVars, dataVars, history>>

ReadData ==
    /\ node.pc = "work" /\ node.req.op = "read"
    /\ \E kind \in {"ok", "error", "fatal"} : Reply(kind)
    /\ UNCHANGED <<rustVars, dataVars, history>>

\* The handler of a WRITE_OPERATION: done, a `__bridge` error before anything
\* was written, or any other exception, before or after the write.
ApplyWrite ==
    /\ node.pc = "work" /\ node.req.op = "write"
    /\ local' = local \cup {node.req.id}
    /\ node' = [node EXCEPT !.pc = "sync"]
    /\ UNCHANGED <<rustVars, stdin, stdout, remote, history>>

\* Variant: a handler that wrote before it refused is not fatal.
RefuseWriteAfterApplying ==
    /\ node.pc = "work" /\ node.req.op = "write"
    /\ \E kind \in {"error", "fatal"} : Reply(kind)
    /\ local' \in {local, local \cup {node.req.id}}
    /\ UNCHANGED <<rustVars, remote, history>>

RefuseWrite ==
    /\ node.pc = "work" /\ node.req.op = "write"
    /\ \/ Reply("error") /\ local' = local
       \/ Reply("fatal") /\ local' \in {local, local \cup {node.req.id}}
    /\ UNCHANGED <<rustVars, remote, history>>

\* api.sync() failing says nothing of what the server received.
Pushed == remote \cup local

SyncWrite ==
    /\ node.pc = "sync"
    /\ \/ Reply("ok") /\ remote' = Pushed
       \/ Reply("fatal") /\ remote' \in {remote, Pushed}
    /\ UNCHANGED <<rustVars, local, history>>

\* closeBudget(): a last sync, then api.shutdown(), which may throw.
CloseBudget ==
    /\ node.pc = "work" /\ node.req.op = "close"
    /\ \/ Reply("ok") /\ remote' = Pushed
       \/ Reply("error") /\ remote' \in {remote, Pushed}
       \/ Reply("fatal") /\ remote' \in {remote, Pushed}
    /\ UNCHANGED <<rustVars, local, history>>

\* Variant: a handler that is too slow is left behind, and the loop goes on.
HandlerTimeoutNotFatal ==
    /\ node.pc \in {"work", "sync"}
    /\ stdout' = Append(stdout, Frame(node.req.id, "error"))
    /\ node' = [node EXCEPT !.pc = "read", !.opened = TRUE,
                            !.late = IF node.req.op = "write"
                                     THEN node.pc ELSE "none"]
    /\ UNCHANGED <<rustVars, stdin, dataVars, history>>

\* dispatchOperation()'s own timeout: the answer is fatal, the handler is not
\* interrupted and goes on in the background while the loop shuts down.
HandlerTimeout ==
    /\ node.pc \in {"work", "sync"}
    /\ stdout' = Append(stdout, Frame(node.req.id, "fatal"))
    /\ node' = [node EXCEPT !.pc = "stop", !.opened = TRUE,
                            !.late = IF node.req.op = "write"
                                     THEN node.pc ELSE "none"]
    /\ UNCHANGED <<rustVars, stdin, dataVars, history>>

LateApply ==
    /\ node.late = "work"
    /\ local' = local \cup {node.req.id}
    /\ node' = [node EXCEPT !.late = "sync"]
    /\ UNCHANGED <<rustVars, stdin, stdout, remote, history>>

LateSync ==
    /\ node.late = "sync"
    /\ remote' = Pushed
    /\ node' = [node EXCEPT !.late = "none"]
    /\ UNCHANGED <<rustVars, stdin, stdout, local, history>>

\* The `finally` of serve(): api.shutdown(), for 15 seconds at most and only
\* after no clean close; what it still pushes is up to the library.
Shutdown ==
    /\ node.pc = "stop"
    /\ IF node.opened /\ ~node.clean THEN remote' \in {remote, Pushed}
                                     ELSE remote' = remote
    /\ node' = Exited(node)
    /\ stdin' = <<>>
    /\ UNCHANGED <<rustVars, stdout, local, history>>

\* uncaughtException / unhandledRejection write an `id: null` frame; a process
\* killed from outside writes nothing, or part of the line it was writing.
BridgeDies ==
    /\ Alive
    /\ node' = Exited(node)
    /\ stdin' = <<>>
    /\ \/ UNCHANGED stdout
       \/ stdout' = Append(stdout, Frame(NullId, "fatal"))
       \/ /\ node.pc \in {"work", "sync"}
          /\ stdout' = Append(stdout, Frame(NullId, "torn"))
    /\ UNCHANGED <<rustVars, dataVars, history>>

----------------------------------------------------------------------------
CallerStep(c) ==
    \/ CloseGate(c) \/ Send(c) \/ SendToDeadBridge(c) \/ RefuseUnusable(c)
    \/ Receive(c) \/ EndOfStream(c) \/ Timeout(c) \/ Reap(c)

BridgeStep ==
    \/ ReadRequest \/ OpenBudget \/ ReadData \/ ApplyWrite \/ RefuseWrite
    \/ SyncWrite \/ CloseBudget \/ HandlerTimeout \/ LateApply \/ LateSync
    \/ Shutdown \/ BridgeDies

Next ==
    \/ \E c \in Callers :
          \/ \E op \in Operations : Begin(c, op)
          \/ BeginClose(c) \/ CallerStep(c) \/ Cancel(c)
    \/ Drop
    \/ BridgeStep

Spec == Init /\ [][Next]_vars

\* tokio polls woken tasks, its timers fire, and its mutex is FIFO, so a call
\* that can be made again and again is made.  Nothing is assumed of the bridge
\* or of when callers begin, cancel or drop.
Fairness == \A c \in Callers : SF_vars(CallerStep(c))
FairSpec == Spec /\ Fairness

----------------------------------------------------------------------------
(* Properties.  A `Variant` above is a definition with a mistake that one  *)
(* of them must catch; no specification uses it.                           *)

\* A write reported Ok to the caller that asked for it is on the server: not
\* the answer of an earlier, abandoned call, and not a write that only reached
\* the local replica (session.rs:309-317, index.js:318-332).
AckedWritesOnServer == acked \subseteq remote

\* A write that its caller was told failed with a non-fatal error was never
\* applied, here or on the server (index.js:335-347).  Only as long as no call
\* was abandoned: error frames are not matched by id (session.rs:301).
RejectedWritesNotApplied ==
    ~abandoned => rejected \cap (local \cup remote) = {}

\* Once close() has returned, or the session has been dropped, its bridge
\* process runs no more: the data-dir lock is about to be released
\* (session.rs:183-191, 198-210, kill_on_drop at 71).
ClosedSessionHasNoBridge == state = "Closed" \/ phase = "dropped" => ~Alive

\* When the bridge has answered `close` with Ok, no write of the session is
\* left in the local replica only, nor can one still appear there
\* (index.js:279-287, 402-411).
CleanCloseLosesNothing == closedOk => local \subseteq remote

\* "Strictly one request in flight at a time" (session.rs:47): on a usable
\* session, all that is in the pipes or in a handler is the request of the
\* caller that holds the mutex.  Only as long as no call was abandoned.
InFlight ==
    {stdin[i].id : i \in DOMAIN stdin}
        \cup {stdout[i].id : i \in DOMAIN stdout}
        \cup (IF node.pc \in {"work", "sync"} THEN {node.req.id} ELSE {})

OneRequestInFlight ==
    state = "Open" /\ phase # "dropped" /\ ~abandoned =>
        \A i \in InFlight \ {NullId} : holder # NoCaller /\ i = req[holder].id

\* Every call of invoke() and close() returns, whatever the bridge does:
\* each wait has a timeout, and a bridge that died is noticed.
EveryCallReturns == \A c \in Callers : pc[c] # "idle" ~> pc[c] = "idle"

\* The whole session implements its contract; a dropped session is a closed
\* one for whoever looks from outside.
Contract == INSTANCE SessionContract WITH
    status <- IF phase = "dropped" THEN "Closed" ELSE state,
    issued <- nextId - 1,
    server <- remote

ImplementsContract == Contract!Spec
=============================================================================
