------------------------- MODULE BridgeSession_proofs -------------------------
(***************************************************************************)
(* What a BridgeSession guarantees for any number of callers, requests and *)
(* abandoned calls: first what the state of both sides says of requests and*)
(* writes, then the order of requests in the pipes, then that the session  *)
(* implements SessionContract.                                             *)
(***************************************************************************)
EXTENDS BridgeSession, TLAPS

----------------------------------------------------------------------------
(* The inductive invariant.                                                *)

Awaits(c) == pc[c] = "await"

\* The mutex is held across the round trip, on a session still in use.
HolderAwaits ==
    /\ \A c \in Callers : Awaits(c) <=> holder = c
    /\ holder # NoCaller => state = "Open" /\ phase # "dropped"

\* open_session has one caller, and nobody can call a session that is gone.
CallersOfPhase ==
    /\ phase = "opening" =>
          /\ state = "Open"
          /\ \A c \in Callers :
                pc[c] # "idle" => /\ pc[c] \in {"call", "await"}
                                  /\ req[c].op = "open"
                                  /\ \A d \in Callers : pc[d] # "idle" => d = c
    /\ phase = "dropped" => \A c \in Callers : pc[c] = "idle"

\* No id is in use before it is issued.
IdsIssued ==
    /\ \A c \in Callers : Awaits(c) => req[c].id < nextId
    /\ \A i \in 1..Len(stdin) : stdin[i].id < nextId
    /\ \A i \in 1..Len(stdout) : stdout[i].id < nextId
    /\ node.req.id < nextId

\* Whatever carries the id of the awaited request is that request.
SameRequest ==
    \A c \in Callers : Awaits(c) =>
        /\ \A i \in 1..Len(stdin) :
              stdin[i].id = req[c].id => stdin[i].op = req[c].op
        /\ node.pc \in {"work", "sync"} /\ node.req.id = req[c].id
              => node.req.op = req[c].op

\* An Ok frame that answers the awaited request tells the truth.
OkFramesTrue ==
    \A c \in Callers : Awaits(c) =>
        \A i \in 1..Len(stdout) :
            stdout[i].kind = "ok" /\ stdout[i].id = req[c].id =>
                /\ req[c].op = "write" => req[c].id \in remote
                /\ req[c].op = "close" => node.clean

\* Stages of the serve loop and what they imply.
BridgeStages ==
    /\ node.pc = "sync" => node.req.op = "write" /\ node.req.id \in local
    /\ node.late # "none" => node.pc = "stop"
    /\ node.clean => /\ node.pc \in {"stop", "exited"}
                     /\ node.late = "none"
                     /\ local \subseteq remote

\* A close answered Ok was a clean one.
ClosedCleanly == closedOk => node.clean

SessionInv ==
    /\ TypeOK
    /\ HolderAwaits
    /\ CallersOfPhase
    /\ IdsIssued
    /\ SameRequest
    /\ OkFramesTrue
    /\ BridgeStages
    /\ ClosedCleanly
    /\ AckedWritesOnServer
    /\ ClosedSessionHasNoBridge

----------------------------------------------------------------------------
(* The pipes are sequences.                                                *)

\* What appending a line to a pipe does to its elements.
LEMMA AppendFacts ==
    ASSUME NEW S, NEW s \in Seq(S), NEW e \in S
    PROVE  /\ Append(s, e) \in Seq(S)
           /\ Len(Append(s, e)) = Len(s) + 1
           /\ \A i \in 1..Len(s) : Append(s, e)[i] = s[i]
           /\ Append(s, e)[Len(s) + 1] = e
    OBVIOUS

\* What reading the first line of a pipe does to its elements.
LEMMA TailFacts ==
    ASSUME NEW S, NEW s \in Seq(S), s # <<>>
    PROVE  /\ Head(s) = s[1] /\ Head(s) \in S /\ 1 \in 1..Len(s)
           /\ Tail(s) \in Seq(S)
           /\ \A i \in 1..Len(Tail(s)) :
                 i + 1 \in 1..Len(s) /\ Tail(s)[i] = s[i + 1]
    OBVIOUS

\* A pipe of a process that is gone is empty.
LEMMA EmptyFacts ==
    ASSUME NEW S
    PROVE  <<>> \in Seq(S) /\ 1..Len(<<>>) = {}
    OBVIOUS

LEMMA InitSessionInv == Init => SessionInv
<1> SUFFICES ASSUME Init PROVE SessionInv
    OBVIOUS
<1>1. TypeOK
    <2>1. /\ pc \in [Callers -> {"idle", "gate", "call", "await", "reap"}]
          /\ req \in [Callers -> Requests]
        BY DEF Init, Requests, NoRequest, Operations
    <2>2. node \in Nodes
        BY DEF Init, Nodes, Requests, NoRequest, Operations
    <2>3. stdin \in Seq(Requests) /\ stdout \in Seq(Frames)
        BY EmptyFacts DEF Init
    <2>4. /\ answer \in [Callers -> BOOLEAN] /\ closedOk \in BOOLEAN
          /\ abandoned \in BOOLEAN
        BY Zenon DEF Init
    <2>5. /\ phase \in {"opening", "shared", "dropped"}
          /\ state \in {"Open", "Poisoned", "Closed"}
          /\ nextId \in Nat \ {0}
          /\ holder \in Callers \cup {NoCaller}
          /\ local \subseteq Nat /\ remote \subseteq Nat
          /\ acked \subseteq Nat /\ rejected \subseteq Nat
        BY DEF Init, FirstId
    <2> QED BY <2>1, <2>2, <2>3, <2>4, <2>5 DEF TypeOK
<1>2. HolderAwaits /\ CallersOfPhase
    BY CallersAssumption DEF Init, HolderAwaits, CallersOfPhase, Awaits
<1>3. IdsIssued /\ SameRequest /\ OkFramesTrue
    BY EmptyFacts
       DEF Init, FirstId, IdsIssued, SameRequest, OkFramesTrue, Awaits,
           NoRequest
<1>4. /\ BridgeStages /\ ClosedCleanly /\ AckedWritesOnServer
      /\ ClosedSessionHasNoBridge
    BY DEF Init, BridgeStages, ClosedCleanly, AckedWritesOnServer,
           ClosedSessionHasNoBridge, Alive
<1> QED BY <1>1, <1>2, <1>3, <1>4 DEF SessionInv

----------------------------------------------------------------------------
(* What groups of actions have in common.                                  *)

\* A killed bridge keeps what it was, but for its stage.
LEMMA ExitedFacts ==
    ASSUME node \in Nodes
    PROVE  /\ Exited(node) \in Nodes
           /\ Exited(node).pc = "exited" /\ Exited(node).late = "none"
           /\ Exited(node).req = node.req /\ Exited(node).clean = node.clean
    BY DEF Exited, Nodes

\* The steps of the Rust side other than Send: they take from the pipes, they
\* may kill the bridge, and nobody starts to wait.
LEMMA QuietSteps ==
    ASSUME SessionInv,
           nextId' \in Nat, nextId' >= nextId,
           \A d \in Callers : Awaits(d)' => Awaits(d) /\ req'[d] = req[d],
           stdin' = stdin \/ stdin' = <<>>,
           stdout' = stdout \/ (stdout # <<>> /\ stdout' = Tail(stdout)),
           node' = node \/ node' = Exited(node),
           UNCHANGED <<local, remote>>
    PROVE  /\ node' \in Nodes /\ stdin' \in Seq(Requests)
           /\ stdout' \in Seq(Frames)
           /\ IdsIssued' /\ SameRequest' /\ OkFramesTrue' /\ BridgeStages'
<1> USE DEF SessionInv
<1>1. node \in Nodes /\ stdin \in Seq(Requests) /\ stdout \in Seq(Frames)
    BY DEF TypeOK
<1>2. /\ node' \in Nodes /\ node'.req = node.req /\ node'.clean = node.clean
      /\ \/ node'.pc = node.pc /\ node'.late = node.late
         \/ node'.pc = "exited" /\ node'.late = "none"
    BY <1>1, ExitedFacts
<1>3. /\ stdin' \in Seq(Requests)
      /\ \A i \in 1..Len(stdin)' : i \in 1..Len(stdin) /\ stdin'[i] = stdin[i]
    BY <1>1, EmptyFacts
<1>4. /\ stdout' \in Seq(Frames)
      /\ \A i \in 1..Len(stdout)' :
            \E j \in 1..Len(stdout) : stdout'[i] = stdout[j]
    <2>1. CASE stdout' = stdout
        BY <1>1, <2>1
    <2>2. CASE stdout # <<>> /\ stdout' = Tail(stdout)
        <3>1. /\ Tail(stdout) \in Seq(Frames)
              /\ \A i \in 1..Len(Tail(stdout)) :
                    i + 1 \in 1..Len(stdout) /\ Tail(stdout)[i] = stdout[i + 1]
            BY <1>1, <2>2, TailFacts
        <3> QED BY <2>2, <3>1
    <2> QED BY <2>1, <2>2
<1>5. /\ nextId \in Nat /\ nextId' \in Nat
      /\ \A i \in 1..Len(stdin) : stdin[i].id \in Nat
      /\ \A i \in 1..Len(stdout) : stdout[i].id \in Nat
      /\ node.req.id \in Nat
      /\ \A d \in Callers : req[d].id \in Nat
    <2>1. /\ \A i \in 1..Len(stdin) : stdin[i] \in Requests
          /\ \A i \in 1..Len(stdout) : stdout[i] \in Frames
        BY <1>1
    <2>2. node.req \in Requests /\ \A d \in Callers : req[d] \in Requests
        BY <1>1 DEF TypeOK, Nodes
    <2> QED BY <2>1, <2>2 DEF TypeOK, Requests, Frames
<1>6. IdsIssued'
    <2>1. \A d \in Callers : Awaits(d)' => req'[d].id < nextId'
        BY <1>5 DEF IdsIssued
    <2>2. \A i \in 1..Len(stdin)' : stdin'[i].id < nextId'
        BY <1>3, <1>5 DEF IdsIssued
    <2>3. \A i \in 1..Len(stdout)' : stdout'[i].id < nextId'
        <3> SUFFICES ASSUME NEW i \in 1..Len(stdout)'
                     PROVE  stdout'[i].id < nextId'
            OBVIOUS
        <3>1. PICK j \in 1..Len(stdout) : stdout'[i] = stdout[j]
            BY <1>4
        <3>2. stdout[j].id < nextId
            BY DEF IdsIssued
        <3> QED BY <1>5, <3>1, <3>2
    <2>4. node'.req.id < nextId'
        BY <1>2, <1>5 DEF IdsIssued
    <2> QED BY <2>1, <2>2, <2>3, <2>4 DEF IdsIssued
<1>7. SameRequest'
    BY <1>2, <1>3 DEF SameRequest
<1>8. OkFramesTrue'
    BY <1>2, <1>4 DEF OkFramesTrue
<1>9. BridgeStages'
    BY <1>2 DEF BridgeStages
<1> QED BY <1>2, <1>3, <1>4, <1>6, <1>7, <1>8, <1>9

\* The stage of the Rust side is what it was, and so are its promises.
LEMMA BridgeSteps ==
    ASSUME SessionInv, UNCHANGED rustVars, UNCHANGED history,
           node.pc # "exited",
           remote \subseteq remote'
    PROVE  /\ HolderAwaits' /\ CallersOfPhase'
           /\ AckedWritesOnServer' /\ ClosedSessionHasNoBridge'
    BY DEF SessionInv, rustVars, history, HolderAwaits, CallersOfPhase, Awaits,
           AckedWritesOnServer, ClosedSessionHasNoBridge, Alive

\* The conjuncts of TypeOK that no step of the bridge changes.
LEMMA BridgeTypes ==
    ASSUME TypeOK, UNCHANGED rustVars, UNCHANGED history,
           node' \in Nodes, stdin' \in Seq(Requests), stdout' \in Seq(Frames),
           local' \subseteq Nat, remote' \subseteq Nat
    PROVE  TypeOK'
<1>1. /\ answer' \in [Callers -> BOOLEAN] /\ closedOk' \in BOOLEAN
      /\ abandoned' \in BOOLEAN
    BY Zenon DEF TypeOK, rustVars, history
<1>2. /\ phase' \in {"opening", "shared", "dropped"}
      /\ state' \in {"Open", "Poisoned", "Closed"}
      /\ nextId' \in Nat \ {0}
      /\ holder' \in Callers \cup {NoCaller}
      /\ pc' \in [Callers -> {"idle", "gate", "call", "await", "reap"}]
      /\ req' \in [Callers -> Requests]
      /\ acked' \subseteq Nat /\ rejected' \subseteq Nat
    BY DEF TypeOK, rustVars, history
<1> QED BY <1>1, <1>2 DEF TypeOK

\* An answered request: a truthful Ok frame keeps the invariant.
LEMMA ReplySteps ==
    ASSUME SessionInv, UNCHANGED rustVars, UNCHANGED history,
           node.pc \in {"work", "sync"},
           NEW kind \in {"ok", "error", "fatal"}, Reply(kind),
           local \subseteq local', local' \subseteq Nat,
           remote \subseteq remote', remote' \subseteq Nat,
           kind = "ok" /\ node.req.op = "write" => node.req.id \in remote',
           kind = "ok" /\ node.req.op = "close" => local' \subseteq remote'
    PROVE  SessionInv'
<1> DEFINE f == [id |-> node.req.id, kind |-> kind]
<1>1. /\ node \in Nodes /\ stdout \in Seq(Frames) /\ stdin \in Seq(Requests)
      /\ node.req \in Requests /\ node.req.id \in Nat
    BY DEF SessionInv, TypeOK, Nodes, Requests
<1>2. /\ node'.req = node.req /\ node'.late = node.late
      /\ node'.pc \in {"read", "stop"}
      /\ node'.clean = (kind = "ok" /\ node.req.op = "close")
      /\ node.req.op = "close" => node'.pc = "stop"
      /\ stdin' = stdin /\ stdout' = Append(stdout, f)
    BY <1>1 DEF Reply, Frame, Nodes
<1>3. node' \in Nodes
    <2>1. node'.opened \in BOOLEAN /\ node'.clean \in BOOLEAN
        BY <1>1 DEF Reply, Nodes
    <2> QED BY <1>1, <2>1 DEF Reply, Nodes
<1>4. f \in Frames
    BY <1>1 DEF Frames
<1>5. /\ stdout' \in Seq(Frames) /\ Len(stdout') = Len(stdout) + 1
      /\ \A i \in 1..Len(stdout) : stdout'[i] = stdout[i]
      /\ stdout'[Len(stdout) + 1] = f
    BY <1>1, <1>2, <1>4, AppendFacts
<1>6. \A i \in 1..Len(stdout)' :
          stdout'[i] = f \/ (i \in 1..Len(stdout) /\ stdout'[i] = stdout[i])
    BY <1>1, <1>5
<1>7. TypeOK'
    BY <1>1, <1>2, <1>3, <1>5, BridgeTypes DEF SessionInv
<1>8. node.late = "none" /\ ~node.clean /\ node.pc # "exited"
    BY DEF SessionInv, BridgeStages
<1>9. IdsIssued'
    BY <1>1, <1>2, <1>6 DEF SessionInv, IdsIssued, rustVars, Awaits
<1>10. SameRequest'
    BY <1>2 DEF SessionInv, SameRequest, rustVars, Awaits
<1>11. OkFramesTrue'
    <2> SUFFICES ASSUME NEW c \in Callers, Awaits(c)',
                        NEW i \in 1..Len(stdout)',
                        stdout'[i].kind = "ok", stdout'[i].id = req[c].id
                 PROVE  /\ req[c].op = "write" => req[c].id \in remote'
                        /\ req[c].op = "close" => node'.clean
        BY DEF OkFramesTrue, rustVars
    <2>1. Awaits(c)
        BY DEF rustVars, Awaits
    <2>2. CASE stdout'[i] = f
        <3>1. kind = "ok" /\ node.req.id = req[c].id
            BY <2>2
        <3>2. node.req.op = req[c].op
            BY <2>1, <3>1 DEF SessionInv, SameRequest
        <3> QED BY <1>2, <3>1, <3>2
    <2>3. CASE i \in 1..Len(stdout) /\ stdout'[i] = stdout[i]
        BY <1>8, <2>1, <2>3 DEF SessionInv, OkFramesTrue
    <2> QED BY <1>6, <2>2, <2>3
<1>12. BridgeStages'
    BY <1>2, <1>8 DEF BridgeStages
<1>13. ClosedCleanly'
    BY <1>8 DEF SessionInv, ClosedCleanly, history
<1> QED
    BY <1>7, <1>8, <1>9, <1>10, <1>11, <1>12, <1>13, BridgeSteps
       DEF SessionInv

----------------------------------------------------------------------------
(* The Rust side, action by action.                                        *)

\* invoke() returning moves its caller only.
LEMMA SettleFacts ==
    ASSUME TypeOK, NEW c \in Callers, NEW ok \in BOOLEAN, Settle(c, ok)
    PROVE  /\ phase' \in {"opening", "shared", "dropped"}
           /\ phase' = "dropped" => phase = "dropped" \/ phase = "opening"
           /\ phase' # "opening" /\ holder' = NoCaller
           /\ pc' \in [Callers -> {"idle", "gate", "call", "await", "reap"}]
           /\ pc'[c] = IF req[c].op = "close" THEN "reap" ELSE "idle"
           /\ \A d \in Callers : d # c => pc'[d] = pc[d]
           /\ answer' \in [Callers -> BOOLEAN]
<1>1. answer' \in [Callers -> BOOLEAN]
    BY Zenon DEF TypeOK, Settle
<1> QED BY <1>1 DEF TypeOK, Settle

\* A session whose open failed takes its bridge with it.
LEMMA DropFacts ==
    ASSUME DropIfOpening
    PROVE  /\ UNCHANGED <<stdout, local, remote>>
           /\ stdin' = stdin \/ stdin' = <<>>
           /\ node' = node \/ node' = Exited(node)
           /\ phase = "opening" => node' = Exited(node)
    BY DEF DropIfOpening, Kill, nodeVars, dataVars

\* A call begins.
LEMMA BeginInv ==
    ASSUME SessionInv, NEW c \in Callers,
           BeginClose(c) \/ \E op \in Operations : Begin(c, op)
    PROVE  SessionInv'
<1> PICK op \in Operations \cup {"close"} :
       /\ phase = "shared" /\ pc[c] = "idle"
       /\ pc' = [pc EXCEPT ![c] = IF op = "close" THEN "gate" ELSE "call"]
       /\ req' = [req EXCEPT ![c] = [id |-> 0, op |-> op]]
       /\ UNCHANGED <<phase, state, nextId, holder, answer, nodeVars, dataVars,
                      history>>
    BY DEF BeginClose, Begin, Operations
<1>1. TypeOK'
    <2>1. /\ pc' \in [Callers -> {"idle", "gate", "call", "await", "reap"}]
          /\ req' \in [Callers -> Requests]
        BY DEF SessionInv, TypeOK, Requests
    <2>2. /\ nextId' \in Nat \ {0}
          /\ phase' \in {"opening", "shared", "dropped"}
          /\ state' \in {"Open", "Poisoned", "Closed"}
          /\ holder' \in Callers \cup {NoCaller}
        BY DEF SessionInv, TypeOK
    <2>3. /\ answer' \in [Callers -> BOOLEAN] /\ closedOk' \in BOOLEAN
          /\ abandoned' \in BOOLEAN
          /\ node' \in Nodes /\ stdin' \in Seq(Requests)
          /\ stdout' \in Seq(Frames)
          /\ local' \subseteq Nat /\ remote' \subseteq Nat
          /\ acked' \subseteq Nat /\ rejected' \subseteq Nat
        BY Zenon DEF SessionInv, TypeOK, nodeVars, dataVars, history
    <2> QED BY <2>1, <2>2, <2>3 DEF TypeOK
<1>2. HolderAwaits' /\ CallersOfPhase'
    BY DEF SessionInv, TypeOK, HolderAwaits, CallersOfPhase, Awaits
<1>3. \A d \in Callers : Awaits(d)' => Awaits(d) /\ req'[d] = req[d]
    BY DEF SessionInv, TypeOK, Awaits
<1>4. IdsIssued' /\ SameRequest' /\ OkFramesTrue' /\ BridgeStages'
    BY <1>1, <1>3, QuietSteps DEF SessionInv, TypeOK, nodeVars, dataVars
<1>5. ClosedCleanly' /\ AckedWritesOnServer' /\ ClosedSessionHasNoBridge'
    BY DEF SessionInv, ClosedCleanly, AckedWritesOnServer, nodeVars, dataVars,
           ClosedSessionHasNoBridge, Alive, history
<1> QED BY <1>1, <1>2, <1>4, <1>5 DEF SessionInv

LEMMA CloseGateInv ==
    ASSUME SessionInv, NEW c \in Callers, CloseGate(c)
    PROVE  SessionInv'
<1>1. /\ UNCHANGED <<phase, nextId, holder, req, answer, history, stdout,
                     local, remote>>
      /\ holder = NoCaller /\ pc[c] = "gate"
      /\ \/ pc' = [pc EXCEPT ![c] = "call"] /\ state = "Open"
         \/ pc' = [pc EXCEPT ![c] = "idle"] /\ state # "Open"
      /\ state' = state \/ (state' = "Closed" /\ node' = Exited(node))
      /\ stdin' = stdin \/ stdin' = <<>>
      /\ node' = node \/ node' = Exited(node)
    BY DEF CloseGate, Kill, nodeVars, dataVars
<1>2. \A d \in Callers : Awaits(d)' => Awaits(d)
    BY <1>1 DEF SessionInv, TypeOK, Awaits
<1>3. /\ node' \in Nodes /\ stdin' \in Seq(Requests) /\ stdout' \in Seq(Frames)
      /\ IdsIssued' /\ SameRequest' /\ OkFramesTrue' /\ BridgeStages'
    BY <1>1, <1>2, QuietSteps DEF SessionInv, TypeOK
<1>4. TypeOK'
    <2>1. /\ pc' \in [Callers -> {"idle", "gate", "call", "await", "reap"}]
          /\ state' \in {"Open", "Poisoned", "Closed"}
        BY <1>1 DEF SessionInv, TypeOK
    <2>2. /\ answer' \in [Callers -> BOOLEAN] /\ closedOk' \in BOOLEAN
          /\ abandoned' \in BOOLEAN
          /\ phase' \in {"opening", "shared", "dropped"}
          /\ nextId' \in Nat \ {0} /\ holder' \in Callers \cup {NoCaller}
          /\ req' \in [Callers -> Requests]
          /\ local' \subseteq Nat /\ remote' \subseteq Nat
          /\ acked' \subseteq Nat /\ rejected' \subseteq Nat
        BY <1>1, Zenon DEF SessionInv, TypeOK, history
    <2> QED BY <1>3, <2>1, <2>2 DEF TypeOK
<1>5. HolderAwaits' /\ CallersOfPhase'
    BY <1>1 DEF SessionInv, TypeOK, HolderAwaits, CallersOfPhase, Awaits
<1>6. ClosedCleanly' /\ AckedWritesOnServer' /\ ClosedSessionHasNoBridge'
    BY <1>1, ExitedFacts
       DEF SessionInv, TypeOK, ClosedCleanly, AckedWritesOnServer, Alive,
           ClosedSessionHasNoBridge, history
<1> QED BY <1>3, <1>4, <1>5, <1>6 DEF SessionInv

\* Every way in which invoke() returns.
LEMMA SettleInv ==
    ASSUME SessionInv, NEW c \in Callers, NEW ok \in BOOLEAN, Settle(c, ok),
           pc[c] \in {"call", "await"}, holder = NoCaller \/ holder = c,
           nextId' \in {nextId, nextId + 1}, UNCHANGED req,
           state' = state \/ (state' = "Poisoned" /\ state = "Open"),
           state' = "Open" \/ ~ok,
           stdin' = stdin \/ stdin' = <<>>,
           stdout' = stdout \/ (stdout # <<>> /\ stdout' = Tail(stdout)),
           node' = node \/ node' = Exited(node),
           phase = "opening" /\ ~ok => node'.pc = "exited",
           UNCHANGED <<local, remote>>,
           acked \subseteq acked', acked' \subseteq Nat, rejected' \subseteq Nat,
           acked' \subseteq remote,
           closedOk' \in BOOLEAN, closedOk' => node.clean,
           abandoned' \in BOOLEAN
    PROVE  SessionInv'
<1>1. /\ phase' \in {"opening", "shared", "dropped"}
      /\ phase' # "opening" /\ holder' = NoCaller
      /\ pc' \in [Callers -> {"idle", "gate", "call", "await", "reap"}]
      /\ pc'[c] = IF req[c].op = "close" THEN "reap" ELSE "idle"
      /\ \A d \in Callers : d # c => pc'[d] = pc[d]
      /\ answer' \in [Callers -> BOOLEAN]
    BY SettleFacts DEF SessionInv
<1>2. phase' = IF phase # "opening" THEN phase
               ELSE IF ok THEN "shared" ELSE "dropped"
    BY DEF Settle
<1>3. \A d \in Callers : Awaits(d)' => Awaits(d) /\ d # c
    BY <1>1 DEF Awaits
<1>4. nextId' \in Nat /\ nextId' >= nextId /\ nextId' # 0
    BY DEF SessionInv, TypeOK
<1>5. /\ node' \in Nodes /\ stdin' \in Seq(Requests) /\ stdout' \in Seq(Frames)
      /\ IdsIssued' /\ SameRequest' /\ OkFramesTrue' /\ BridgeStages'
    BY <1>3, <1>4, QuietSteps
<1>6. TypeOK'
    <2>1. /\ state' \in {"Open", "Poisoned", "Closed"}
          /\ nextId' \in Nat \ {0}
          /\ holder' \in Callers \cup {NoCaller}
          /\ req' \in [Callers -> Requests]
          /\ local' \subseteq Nat /\ remote' \subseteq Nat
        BY <1>1, <1>4 DEF SessionInv, TypeOK
    <2> QED BY <1>1, <1>5, <2>1 DEF TypeOK
<1>7. HolderAwaits'
    BY <1>1, <1>3, CallersAssumption DEF SessionInv, HolderAwaits, Awaits
<1>8. CallersOfPhase'
    BY <1>1, <1>2 DEF SessionInv, CallersOfPhase
<1>9. node \in Nodes /\ node'.clean = node.clean
      /\ (node.pc = "exited" => node'.pc = "exited")
    BY ExitedFacts DEF SessionInv, TypeOK
<1>10. ClosedCleanly' /\ AckedWritesOnServer'
    BY <1>9 DEF ClosedCleanly, AckedWritesOnServer
<1>11. ClosedSessionHasNoBridge'
    BY <1>2, <1>9 DEF SessionInv, ClosedSessionHasNoBridge, Alive
<1> QED BY <1>5, <1>6, <1>7, <1>8, <1>10, <1>11 DEF SessionInv

\* invoke() returns an error without an answer of the bridge.
LEMMA FailInv ==
    ASSUME SessionInv, NEW c \in Callers,
           \/ SendToDeadBridge(c) \/ RefuseUnusable(c)
           \/ Timeout(c) \/ EndOfStream(c)
    PROVE  SessionInv'
<1>1. Settle(c, FALSE)
    BY DEF SendToDeadBridge, RefuseUnusable, Timeout, EndOfStream
<1>2. pc[c] \in {"call", "await"} /\ (holder = NoCaller \/ holder = c)
    BY DEF SendToDeadBridge, RefuseUnusable, Timeout, EndOfStream, SessionInv,
           HolderAwaits, Awaits
<1>3. /\ pc[c] = "await" => state = "Open"
      /\ RefuseUnusable(c) => phase # "opening"
    BY CallersAssumption
       DEF SessionInv, HolderAwaits, CallersOfPhase, Awaits, RefuseUnusable
<1>4. /\ nextId' \in {nextId, nextId + 1} /\ UNCHANGED <<req, history>>
      /\ state' = state \/ (state' = "Poisoned" /\ state = "Open")
      /\ state' # "Open"
    BY <1>3 DEF SendToDeadBridge, RefuseUnusable, Timeout, EndOfStream
<1>5. /\ UNCHANGED <<stdout, local, remote>>
      /\ stdin' = stdin \/ stdin' = <<>>
      /\ node' = node \/ node' = Exited(node)
      /\ phase = "opening" => node' = Exited(node)
    BY <1>3, DropFacts
       DEF SendToDeadBridge, RefuseUnusable, Timeout, EndOfStream, Kill,
           nodeVars, dataVars
<1>6. phase = "opening" => node'.pc = "exited"
    BY <1>5, ExitedFacts DEF SessionInv, TypeOK
<1>7. /\ acked' = acked /\ rejected' = rejected
      /\ acked' \subseteq Nat /\ rejected' \subseteq Nat /\ acked' \subseteq remote
    BY <1>4 DEF SessionInv, TypeOK, AckedWritesOnServer, history
<1>8. /\ closedOk' \in BOOLEAN /\ (closedOk' => node.clean)
      /\ abandoned' \in BOOLEAN
    BY <1>4, Zenon DEF SessionInv, TypeOK, ClosedCleanly, history
<1> QED BY <1>1, <1>2, <1>4, <1>5, <1>6, <1>7, <1>8, SettleInv

\* invoke() reads a frame.
LEMMA ReceiveInv ==
    ASSUME SessionInv, NEW c \in Callers, Receive(c)
    PROVE  SessionInv'
<1> DEFINE f == Head(stdout)
           ok == Accepts(c, f)
<1>1. /\ pc[c] = "await" /\ holder = c /\ state = "Open" /\ stdout # <<>>
      /\ Awaits(c)
    BY CallersAssumption DEF Receive, SessionInv, HolderAwaits, Awaits
<1>2. /\ state' = IF Poisons(c, f) THEN "Poisoned" ELSE state
      /\ Settle(c, ok)
      /\ acked' = IF ok /\ req[c].op = "write"
                  THEN acked \cup {req[c].id} ELSE acked
      /\ rejected' = IF f.kind = "error" /\ req[c].op = "write"
                     THEN rejected \cup {req[c].id} ELSE rejected
      /\ closedOk' = (closedOk \/ (ok /\ req[c].op = "close"))
      /\ stdout' = Tail(stdout)
      /\ IF phase = "opening" /\ ~ok
         THEN node' = Exited(node) /\ stdin' = <<>>
         ELSE UNCHANGED <<node, stdin>>
      /\ UNCHANGED <<nextId, req, local, remote, abandoned>>
    BY DEF Receive, dataVars
<1>3. ok \in BOOLEAN
    BY DEF Accepts
<1>4. f = stdout[1] /\ 1 \in 1..Len(stdout)
    BY <1>1, TailFacts DEF SessionInv, TypeOK
<1>5. ok => /\ req[c].op = "write" => req[c].id \in remote
            /\ req[c].op = "close" => node.clean
    BY <1>1, <1>4 DEF SessionInv, OkFramesTrue, Accepts
<1>6. req[c].id \in Nat
    BY DEF SessionInv, TypeOK, Requests
<1>7. /\ acked \subseteq acked' /\ acked' \subseteq Nat /\ rejected' \subseteq Nat
      /\ acked' \subseteq remote
    BY <1>2, <1>5, <1>6 DEF SessionInv, TypeOK, AckedWritesOnServer
<1>8. /\ closedOk' \in BOOLEAN /\ (closedOk' => node.clean)
      /\ abandoned' \in BOOLEAN
    BY <1>2, <1>5, Zenon DEF SessionInv, TypeOK, ClosedCleanly
<1>9. phase = "opening" /\ ~ok => node'.pc = "exited"
    BY <1>2, ExitedFacts DEF SessionInv, TypeOK
<1>10. state' \in {"Open", "Poisoned"} /\ (ok => state' = "Open")
    BY <1>1, <1>2 DEF Accepts, Poisons
<1>11. CASE state' = "Open" \/ ~ok
    <2>1. /\ stdin' = stdin \/ stdin' = <<>>
          /\ node' = node \/ node' = Exited(node)
        BY <1>2
    <2>2. state' = state \/ (state' = "Poisoned" /\ state = "Open")
        BY <1>1, <1>10
    <2> HIDE DEF ok, f
    <2> QED BY <1>1, <1>2, <1>3, <1>7, <1>8, <1>9, <1>11, <2>1, <2>2, SettleInv
<1> QED BY <1>10, <1>11

\* The steps that end a session, a call or the use of it from outside.
LEMMA EndInv ==
    ASSUME SessionInv,
           \/ \E c \in Callers : Reap(c) \/ Cancel(c)
           \/ Drop
    PROVE  SessionInv'
<1>1. /\ UNCHANGED <<nextId, req, answer, acked, rejected, closedOk, stdout,
                     local, remote>>
      /\ stdin' = stdin \/ stdin' = <<>>
      /\ node' = node \/ node' = Exited(node)
    BY DropFacts DEF Reap, Cancel, Drop, Kill, history
<1>0. abandoned' \in BOOLEAN
    BY Zenon DEF Reap, Cancel, Drop, SessionInv, TypeOK, history
<1>2. \A d \in Callers : Awaits(d)' => Awaits(d)
    BY DEF Reap, Cancel, Drop, SessionInv, TypeOK, Awaits
<1>3. /\ node' \in Nodes /\ stdin' \in Seq(Requests) /\ stdout' \in Seq(Frames)
      /\ IdsIssued' /\ SameRequest' /\ OkFramesTrue' /\ BridgeStages'
    BY <1>1, <1>2, QuietSteps DEF SessionInv, TypeOK
<1>4. TypeOK'
    <2>1. /\ pc' \in [Callers -> {"idle", "gate", "call", "await", "reap"}]
          /\ state' \in {"Open", "Poisoned", "Closed"}
          /\ phase' \in {"opening", "shared", "dropped"}
          /\ holder' \in Callers \cup {NoCaller}
        BY DEF SessionInv, TypeOK, Reap, Cancel, Drop
    <2>2. /\ answer' \in [Callers -> BOOLEAN] /\ closedOk' \in BOOLEAN
          /\ abandoned' \in BOOLEAN
          /\ nextId' \in Nat \ {0} /\ req' \in [Callers -> Requests]
          /\ local' \subseteq Nat /\ remote' \subseteq Nat
          /\ acked' \subseteq Nat /\ rejected' \subseteq Nat
        BY <1>0, <1>1, Zenon DEF SessionInv, TypeOK
    <2> QED BY <1>3, <2>1, <2>2 DEF TypeOK
<1>5. HolderAwaits' /\ CallersOfPhase'
    <2>1. ASSUME NEW c \in Callers, Reap(c)
          PROVE  HolderAwaits' /\ CallersOfPhase'
        BY <2>1 DEF Reap, SessionInv, TypeOK, HolderAwaits, CallersOfPhase, Awaits
    <2>2. ASSUME NEW c \in Callers, Cancel(c)
          PROVE  HolderAwaits' /\ CallersOfPhase'
        <3>1. HolderAwaits'
            BY <2>2, CallersAssumption
               DEF Cancel, SessionInv, TypeOK, HolderAwaits, CallersOfPhase, Awaits
        <3>2. CallersOfPhase'
            BY <2>2 DEF Cancel, SessionInv, TypeOK, CallersOfPhase
        <3> QED BY <3>1, <3>2
    <2>3. ASSUME Drop
          PROVE  HolderAwaits' /\ CallersOfPhase'
        BY <2>3 DEF Drop, SessionInv, TypeOK, HolderAwaits, CallersOfPhase, Awaits
    <2> QED BY <2>1, <2>2, <2>3
<1>6. node'.clean = node.clean /\ (node.pc = "exited" => node'.pc = "exited")
    BY <1>1, ExitedFacts DEF SessionInv, TypeOK
<1>7. ClosedCleanly' /\ AckedWritesOnServer'
    BY <1>1, <1>6 DEF SessionInv, ClosedCleanly, AckedWritesOnServer
<1>8. UNCHANGED <<phase, state>> \/ node' = Exited(node)
    BY DropFacts DEF Reap, Cancel, Drop, Kill
<1>9. ClosedSessionHasNoBridge'
    BY <1>6, <1>8, ExitedFacts
       DEF SessionInv, TypeOK, ClosedSessionHasNoBridge, Alive
<1> QED BY <1>3, <1>4, <1>5, <1>7, <1>9 DEF SessionInv

\* A request line is written: its id is new, so no frame can answer it yet.
LEMMA SendInv ==
    ASSUME SessionInv, NEW c \in Callers, Send(c)
    PROVE  SessionInv'
<1> DEFINE r == [id |-> nextId, op |-> req[c].op]
<1>1. /\ pc[c] = "call" /\ holder = NoCaller /\ state = "Open"
      /\ node.pc # "exited"
      /\ nextId' = nextId + 1 /\ holder' = c
      /\ req' = [req EXCEPT ![c].id = nextId]
      /\ stdin' = Append(stdin, r)
      /\ pc' = [pc EXCEPT ![c] = "await"]
      /\ UNCHANGED <<phase, state, answer, node, stdout, local, remote, history>>
    BY DEF Send, Alive, dataVars
<1>2. /\ nextId \in Nat \ {0} /\ req[c] \in Requests /\ r \in Requests
      /\ stdin \in Seq(Requests) /\ stdout \in Seq(Frames) /\ node \in Nodes
      /\ node.req.id \in Nat
    BY DEF SessionInv, TypeOK, Requests, Nodes
<1>3. /\ req' \in [Callers -> Requests] /\ req'[c] = r
      /\ \A d \in Callers : d # c => req'[d] = req[d]
    BY <1>1, <1>2 DEF SessionInv, TypeOK, Requests
<1>4. /\ stdin' \in Seq(Requests) /\ Len(stdin') = Len(stdin) + 1
      /\ \A i \in 1..Len(stdin) : stdin'[i] = stdin[i]
      /\ stdin'[Len(stdin) + 1] = r
    BY <1>1, <1>2, AppendFacts
<1>5. \A i \in 1..Len(stdin)' :
          stdin'[i] = r \/ (i \in 1..Len(stdin) /\ stdin'[i] = stdin[i])
    BY <1>2, <1>4
<1>6. /\ \A i \in 1..Len(stdin) : stdin[i] \in Requests
      /\ \A i \in 1..Len(stdout) : stdout[i] \in Frames
    BY <1>2
<1>7. \A d \in Callers : Awaits(d)' => d = c
    BY <1>1, CallersAssumption
       DEF SessionInv, TypeOK, HolderAwaits, Awaits
<1>8. TypeOK'
    <2>1. /\ pc' \in [Callers -> {"idle", "gate", "call", "await", "reap"}]
          /\ nextId' \in Nat \ {0} /\ holder' \in Callers \cup {NoCaller}
        BY <1>1, <1>2 DEF SessionInv, TypeOK
    <2>2. /\ answer' \in [Callers -> BOOLEAN] /\ closedOk' \in BOOLEAN
          /\ abandoned' \in BOOLEAN
          /\ phase' \in {"opening", "shared", "dropped"}
          /\ state' \in {"Open", "Poisoned", "Closed"}
          /\ node' \in Nodes /\ stdout' \in Seq(Frames)
          /\ local' \subseteq Nat /\ remote' \subseteq Nat
          /\ acked' \subseteq Nat /\ rejected' \subseteq Nat
        BY <1>1, Zenon DEF SessionInv, TypeOK, history
    <2> QED BY <1>3, <1>4, <2>1, <2>2 DEF TypeOK
<1>9. HolderAwaits' /\ CallersOfPhase'
    <2>1. HolderAwaits'
        BY <1>1, <1>7
           DEF SessionInv, TypeOK, HolderAwaits, CallersOfPhase, Awaits
    <2>2. CallersOfPhase'
        BY <1>1, <1>3 DEF SessionInv, TypeOK, CallersOfPhase
    <2> QED BY <2>1, <2>2
<1>10. IdsIssued'
    <2>1. \A d \in Callers : Awaits(d)' => req'[d].id < nextId'
        BY <1>1, <1>2, <1>3, <1>7
    <2>2. \A i \in 1..Len(stdin)' : stdin'[i].id < nextId'
        BY <1>1, <1>2, <1>5, <1>6 DEF SessionInv, IdsIssued, Requests
    <2>3. \A i \in 1..Len(stdout)' : stdout'[i].id < nextId'
        BY <1>1, <1>2, <1>6 DEF SessionInv, IdsIssued, Frames
    <2>4. node'.req.id < nextId'
        BY <1>1, <1>2 DEF SessionInv, IdsIssued
    <2> QED BY <2>1, <2>2, <2>3, <2>4 DEF IdsIssued
<1>11. SameRequest'
    <2>1. \A i \in 1..Len(stdin)' : stdin'[i].id = nextId => stdin'[i] = r
        BY <1>2, <1>5, <1>6 DEF SessionInv, IdsIssued, Requests
    <2>2. node.req.id # nextId
        BY <1>2 DEF SessionInv, IdsIssued
    <2> QED BY <1>1, <1>3, <1>7, <2>1, <2>2 DEF SameRequest
<1>12. OkFramesTrue'
    <2>1. \A i \in 1..Len(stdout) : stdout[i].id # nextId
        BY <1>2, <1>6 DEF SessionInv, IdsIssued, Frames
    <2> QED BY <1>1, <1>3, <1>7, <2>1 DEF OkFramesTrue
<1>13. /\ BridgeStages' /\ ClosedCleanly' /\ AckedWritesOnServer'
       /\ ClosedSessionHasNoBridge'
    BY <1>1 DEF SessionInv, BridgeStages, ClosedCleanly, AckedWritesOnServer,
                ClosedSessionHasNoBridge, Alive, history
<1> QED BY <1>8, <1>9, <1>10, <1>11, <1>12, <1>13 DEF SessionInv

----------------------------------------------------------------------------
(* The bridge, action by action.                                           *)

LEMMA AnswerInv ==
    ASSUME SessionInv,
           \/ OpenBudget \/ ReadData \/ RefuseWrite \/ SyncWrite \/ CloseBudget
    PROVE  SessionInv'
<1> USE DEF SessionInv, TypeOK
<1>1. node.req.id \in Nat /\ node.req.op \in {"read", "write", "open", "close", "none"}
    BY DEF Nodes, Requests, Operations
<1>2. CASE OpenBudget
    <2>1. PICK kind \in {"ok", "fatal"} : Reply(kind)
        BY <1>2 DEF OpenBudget
    <2> QED BY <1>2, <2>1, ReplySteps DEF OpenBudget, dataVars
<1>3. CASE ReadData
    <2>1. PICK kind \in {"ok", "error", "fatal"} : Reply(kind)
        BY <1>3 DEF ReadData
    <2> QED BY <1>3, <2>1, ReplySteps DEF ReadData, dataVars
<1>4. CASE RefuseWrite
    <2>1. PICK kind \in {"error", "fatal"} :
             Reply(kind) /\ local' \in {local, local \cup {node.req.id}}
        BY <1>4 DEF RefuseWrite
    <2> QED BY <1>1, <1>4, <2>1, ReplySteps DEF RefuseWrite
<1>5. CASE SyncWrite
    <2>1. PICK kind \in {"ok", "fatal"} :
             /\ Reply(kind) /\ remote' \in {remote, Pushed}
             /\ kind = "ok" => remote' = Pushed
        BY <1>5 DEF SyncWrite
    <2>2. node.req.op = "write" /\ node.req.id \in local
        BY <1>5 DEF SyncWrite, BridgeStages
    <2> QED BY <1>5, <2>1, <2>2, ReplySteps DEF SyncWrite, Pushed
<1>6. CASE CloseBudget
    <2>1. PICK kind \in {"ok", "error", "fatal"} :
             /\ Reply(kind) /\ remote' \in {remote, Pushed}
             /\ kind = "ok" => remote' = Pushed
        BY <1>6 DEF CloseBudget
    <2> QED BY <1>6, <2>1, ReplySteps DEF CloseBudget, Pushed
<1> QED BY <1>2, <1>3, <1>4, <1>5, <1>6

\* A step of the bridge that answers nothing and reads nothing.
LEMMA SilentSteps ==
    ASSUME SessionInv, UNCHANGED rustVars, UNCHANGED history,
           node.pc # "exited",
           node' \in Nodes, node'.req = node.req, node'.clean = node.clean,
           node'.pc = node.pc \/ node'.pc \in {"sync", "exited"},
           node'.pc = "sync" => /\ node.pc \in {"work", "sync"}
                                /\ node.req.op = "write"
                                /\ node.req.id \in local',
           node'.late = "none" \/ (node.pc = "stop" /\ node.late # "none"
                                   /\ node'.pc = "stop"),
           stdin' = stdin \/ stdin' = <<>>, UNCHANGED stdout,
           local \subseteq local', local' \subseteq Nat,
           remote \subseteq remote', remote' \subseteq Nat,
           node.clean => local' \subseteq remote'
    PROVE  SessionInv'
<1>1. TypeOK'
    BY EmptyFacts, BridgeTypes DEF SessionInv, TypeOK
<1>2. \A i \in 1..Len(stdin)' : i \in 1..Len(stdin) /\ stdin'[i] = stdin[i]
    BY EmptyFacts
<1>3. IdsIssued'
    BY <1>2 DEF SessionInv, IdsIssued, rustVars, Awaits
<1>4. SameRequest'
    BY <1>2 DEF SessionInv, SameRequest, rustVars, Awaits
<1>5. OkFramesTrue'
    BY DEF SessionInv, OkFramesTrue, rustVars, Awaits
<1>6. BridgeStages'
    BY DEF SessionInv, BridgeStages
<1>7. ClosedCleanly'
    BY DEF SessionInv, ClosedCleanly, history
<1> QED BY <1>1, <1>3, <1>4, <1>5, <1>6, <1>7, BridgeSteps DEF SessionInv

LEMMA SilentInv ==
    ASSUME SessionInv, ApplyWrite \/ LateApply \/ LateSync \/ Shutdown
    PROVE  SessionInv'
<1> USE DEF SessionInv, TypeOK
<1>1. node.req.id \in Nat
    BY DEF Nodes, Requests
<1>2. CASE ApplyWrite
    <2>1. /\ node' \in Nodes /\ node'.req = node.req /\ node'.clean = node.clean
          /\ node'.pc = "sync" /\ node'.late = node.late
        BY <1>2 DEF ApplyWrite, Nodes
    <2>2. node.late = "none" /\ ~node.clean
        BY <1>2 DEF ApplyWrite, BridgeStages
    <2> QED BY <1>1, <1>2, <2>1, <2>2, SilentSteps DEF ApplyWrite
<1>3. CASE LateApply \/ LateSync
    <2>1. /\ node' \in Nodes /\ node'.req = node.req /\ node'.clean = node.clean
          /\ node'.pc = node.pc
        BY <1>3 DEF LateApply, LateSync, Nodes
    <2>2. node.pc = "stop" /\ node.late # "none" /\ ~node.clean
        BY <1>3 DEF LateApply, LateSync, BridgeStages
    <2> QED BY <1>1, <1>3, <2>1, <2>2, SilentSteps
            DEF LateApply, LateSync, Pushed
<1>4. CASE Shutdown
    <2>1. /\ node' \in Nodes /\ node'.req = node.req /\ node'.clean = node.clean
          /\ node'.pc = "exited" /\ node'.late = "none"
        BY <1>4, ExitedFacts DEF Shutdown
    <2>2. node.clean => local \subseteq remote
        BY DEF BridgeStages
    <2> QED BY <1>4, <2>1, <2>2, SilentSteps DEF Shutdown, Pushed
<1> QED BY <1>2, <1>3, <1>4

LEMMA ReadRequestInv ==
    ASSUME SessionInv, ReadRequest
    PROVE  SessionInv'
<1>1. /\ stdin \in Seq(Requests) /\ stdin # <<>> /\ node \in Nodes
      /\ node.pc = "read" /\ stdin' = Tail(stdin)
      /\ UNCHANGED <<rustVars, stdout, local, remote, history>>
    BY DEF ReadRequest, SessionInv, TypeOK, dataVars
<1>2. /\ Head(stdin) = stdin[1] /\ Head(stdin) \in Requests
      /\ 1 \in 1..Len(stdin) /\ Tail(stdin) \in Seq(Requests)
      /\ \A i \in 1..Len(Tail(stdin)) :
            i + 1 \in 1..Len(stdin) /\ Tail(stdin)[i] = stdin[i + 1]
    BY <1>1, TailFacts
<1>3. /\ node' \in Nodes /\ node'.req = stdin[1] /\ node'.pc = "work"
      /\ node'.clean = node.clean /\ node'.late = node.late
    BY <1>1, <1>2 DEF ReadRequest, Nodes
<1>4. TypeOK'
    BY <1>1, <1>2, <1>3, BridgeTypes DEF SessionInv, TypeOK
<1>5. IdsIssued'
    BY <1>1, <1>2, <1>3 DEF SessionInv, IdsIssued, rustVars, Awaits
<1>6. SameRequest'
    BY <1>1, <1>2, <1>3 DEF SessionInv, SameRequest, rustVars, Awaits
<1>7. OkFramesTrue' /\ BridgeStages' /\ ClosedCleanly'
    BY <1>1, <1>3
       DEF SessionInv, OkFramesTrue, BridgeStages, ClosedCleanly, rustVars,
           Awaits, history
<1> QED BY <1>1, <1>4, <1>5, <1>6, <1>7, BridgeSteps DEF SessionInv

\* A frame that is not Ok promises nothing.
LEMMA FailedFrame ==
    ASSUME SessionInv, UNCHANGED rustVars, UNCHANGED history,
           UNCHANGED <<local, remote>>,
           node.pc # "exited", node' \in Nodes,
           node'.req = node.req, node'.clean = node.clean,
           node'.pc \in {"stop", "exited"},
           node'.late # "none" => node'.pc = "stop" /\ ~node.clean,
           stdin' = stdin \/ stdin' = <<>>,
           NEW i \in Nat, i < nextId, NEW k \in {"fatal", "torn"},
           stdout' = Append(stdout, [id |-> i, kind |-> k])
    PROVE  SessionInv'
<1> DEFINE f == [id |-> i, kind |-> k]
<1>1. f \in Frames /\ f.kind # "ok" /\ stdout \in Seq(Frames)
    BY DEF Frames, SessionInv, TypeOK
<1>2. /\ stdout' \in Seq(Frames)
      /\ \A j \in 1..Len(stdout)' :
            stdout'[j] = f \/ (j \in 1..Len(stdout) /\ stdout'[j] = stdout[j])
    <2>1. /\ stdout' \in Seq(Frames) /\ Len(stdout') = Len(stdout) + 1
          /\ \A j \in 1..Len(stdout) : stdout'[j] = stdout[j]
          /\ stdout'[Len(stdout) + 1] = f
        BY <1>1, AppendFacts
    <2> QED BY <1>1, <2>1
<1>3. TypeOK'
    BY <1>2, EmptyFacts, BridgeTypes DEF SessionInv, TypeOK
<1>4. \A j \in 1..Len(stdin)' : j \in 1..Len(stdin) /\ stdin'[j] = stdin[j]
    BY EmptyFacts
<1>5. IdsIssued'
    BY <1>2, <1>4 DEF SessionInv, IdsIssued, rustVars, Awaits
<1>6. SameRequest'
    BY <1>4 DEF SessionInv, SameRequest, rustVars, Awaits
<1>7. OkFramesTrue'
    BY <1>1, <1>2 DEF SessionInv, OkFramesTrue, rustVars, Awaits
<1>8. BridgeStages' /\ ClosedCleanly'
    BY DEF SessionInv, BridgeStages, ClosedCleanly, history
<1> QED BY <1>3, <1>5, <1>6, <1>7, <1>8, BridgeSteps DEF SessionInv

LEMMA FailedFrameInv ==
    ASSUME SessionInv, HandlerTimeout \/ BridgeDies
    PROVE  SessionInv'
<1>1. node \in Nodes /\ node.req.id \in Nat /\ node.req.id < nextId
    BY DEF SessionInv, TypeOK, IdsIssued, Nodes, Requests
<1>2. CASE HandlerTimeout
    <2>1. /\ node' \in Nodes /\ node'.req = node.req /\ node'.clean = node.clean
          /\ node'.pc = "stop"
        BY <1>1, <1>2 DEF HandlerTimeout, Nodes
    <2>2. ~node.clean
        BY <1>2 DEF HandlerTimeout, SessionInv, BridgeStages
    <2> QED BY <1>1, <1>2, <2>1, <2>2, FailedFrame
            DEF HandlerTimeout, Frame, dataVars
<1>3. CASE BridgeDies
    <2>1. /\ node' \in Nodes /\ node'.req = node.req /\ node'.clean = node.clean
          /\ node'.pc = "exited" /\ node'.late = "none" /\ node.pc # "exited"
          /\ stdin' = <<>>
          /\ UNCHANGED <<rustVars, local, remote, history>>
        BY <1>1, <1>3, ExitedFacts DEF BridgeDies, Alive, dataVars
    <2>2. node.clean => local \subseteq remote
        BY DEF SessionInv, BridgeStages
    <2>3. CASE UNCHANGED stdout
        BY <2>1, <2>2, <2>3, SilentSteps DEF SessionInv, TypeOK
    <2>4. ASSUME NEW k \in {"fatal", "torn"}, stdout' = Append(stdout, Frame(0, k))
          PROVE  SessionInv'
        <3>1. 0 \in Nat /\ 0 < nextId
            BY DEF SessionInv, TypeOK
        <3> QED BY <2>1, <2>4, <3>1, FailedFrame DEF Frame
    <2> QED BY <1>3, <2>3, <2>4 DEF BridgeDies, NullId
<1> QED BY <1>2, <1>3

----------------------------------------------------------------------------
LEMMA NextSessionInv == SessionInv /\ [Next]_vars => SessionInv'
<1> SUFFICES ASSUME SessionInv, [Next]_vars PROVE SessionInv'
    OBVIOUS
<1>1. ASSUME NEW c \in Callers,
             BeginClose(c) \/ \E op \in Operations : Begin(c, op)
      PROVE  SessionInv'
    BY <1>1, BeginInv
<1>2. ASSUME NEW c \in Callers, CallerStep(c) PROVE SessionInv'
    BY <1>2, CloseGateInv, SendInv, FailInv, ReceiveInv, EndInv DEF CallerStep
<1>3. ASSUME Drop \/ \E c \in Callers : Cancel(c) PROVE SessionInv'
    BY <1>3, EndInv
<1>4. ASSUME BridgeStep PROVE SessionInv'
    BY <1>4, ReadRequestInv, AnswerInv, SilentInv, FailedFrameInv DEF BridgeStep
<1>5. CASE UNCHANGED vars
    BY <1>5
       DEF vars, rustVars, nodeVars, dataVars, history, SessionInv, TypeOK,
           HolderAwaits, CallersOfPhase, IdsIssued, SameRequest, OkFramesTrue,
           BridgeStages, ClosedCleanly, AckedWritesOnServer, Awaits,
           ClosedSessionHasNoBridge, Alive
<1> QED BY <1>1, <1>2, <1>3, <1>4, <1>5 DEF Next

LEMMA SessionInvariance == Spec => []SessionInv
BY InitSessionInv, NextSessionInv, PTL DEF Spec

\* Every variable of the session keeps its type (session.rs:29-55).
THEOREM TypeCorrect == Spec => []TypeOK
<1>1. SessionInv => TypeOK
    BY DEF SessionInv
<1> QED BY <1>1, SessionInvariance, PTL

\* Whatever calls are abandoned and however the bridge fails, a write reported
\* Ok is on the server (session.rs:309-317, index.js:316-334).
THEOREM AckedWritesArrive == Spec => []AckedWritesOnServer
<1>1. SessionInv => AckedWritesOnServer
    BY DEF SessionInv
<1> QED BY <1>1, SessionInvariance, PTL

\* No bridge outlives its session: what BudgetLock takes for granted
\* (session.rs:71, 183-191, 198-210).
THEOREM NoBridgeAfterClose == Spec => []ClosedSessionHasNoBridge
<1>1. SessionInv => ClosedSessionHasNoBridge
    BY DEF SessionInv
<1> QED BY <1>1, SessionInvariance, PTL

\* A close answered Ok leaves nothing behind in the local replica
\* (index.js:279-287, 402-411).
THEOREM CleanClose == Spec => []CleanCloseLosesNothing
<1>1. SessionInv => CleanCloseLosesNothing
    BY DEF SessionInv, ClosedCleanly, BridgeStages, CleanCloseLosesNothing
<1> QED BY <1>1, SessionInvariance, PTL

----------------------------------------------------------------------------
(* The requests keep their order, whatever calls are abandoned: what is    *)
(* answered comes before what is worked on, and that before what is still  *)
(* to be read.  So no answer, and no write, can come after the error that  *)
(* its caller was given.                                                   *)

Busy == node.pc \in {"work", "sync"}

\* Answered before worked on, worked on before still to be read.
PipesInOrder ==
    /\ \A i \in 1..Len(stdin) : node.req.id < stdin[i].id
    /\ \A i, j \in 1..Len(stdin) : i < j => stdin[i].id < stdin[j].id
    /\ \A i \in 1..Len(stdout) : stdout[i].id <= node.req.id
    /\ \A i, j \in 1..Len(stdout) :
          i < j => stdout[j].id = NullId \/ stdout[i].id < stdout[j].id
    /\ Busy => \A i \in 1..Len(stdout) : stdout[i].id < node.req.id
    /\ Busy \/ node.late # "none" => node.req.id # NullId

\* No write is applied before its request has been read, nor on the server
\* before it is in the replica.
WritesInOrder ==
    /\ \A w \in local : w # NullId /\ w <= node.req.id
    /\ node.pc = "work" => node.req.id \notin local
    /\ remote \subseteq local

\* An error frame answers a request that wrote nothing, and will not.
ErrorFramesTrue ==
    \A i \in 1..Len(stdout) :
        /\ stdout[i].kind = "error" =>
              /\ stdout[i].id \notin local
              /\ node.late # "none" => stdout[i].id # node.req.id
        /\ stdout[i].id = NullId => stdout[i].kind \in {"fatal", "torn"}

\* OneRequestInFlight, pipe by pipe.
Own(i) == holder # NoCaller /\ i = req[holder].id

OwnRequestOnly ==
    state = "Open" /\ phase # "dropped" /\ ~abandoned =>
        /\ \A i \in 1..Len(stdin) : Own(stdin[i].id)
        /\ \A i \in 1..Len(stdout) : stdout[i].id = NullId \/ Own(stdout[i].id)
        /\ Busy => Own(node.req.id)

\* A rejected write is over.
RejectedIsOver ==
    ~abandoned => \A w \in rejected :
        /\ w \notin local /\ w <= node.req.id
        /\ Busy \/ node.late # "none" => w # node.req.id

OrderInv ==
    /\ PipesInOrder /\ WritesInOrder /\ ErrorFramesTrue
    /\ OwnRequestOnly /\ RejectedIsOver

LEMMA InitOrderInv == Init => OrderInv
BY EmptyFacts, CallersAssumption
   DEF Init, OrderInv, PipesInOrder, WritesInOrder, ErrorFramesTrue,
       OwnRequestOnly, RejectedIsOver, Busy, NoRequest, NullId

LEMMA IdTypes ==
    ASSUME SessionInv
    PROVE  /\ stdin \in Seq(Requests) /\ stdout \in Seq(Frames) /\ node \in Nodes
           /\ node.req \in Requests /\ node.req.id \in Nat
           /\ \A i \in 1..Len(stdin) : stdin[i].id \in Nat
           /\ \A i \in 1..Len(stdout) : stdout[i].id \in Nat
           /\ local \subseteq Nat /\ rejected \subseteq Nat
<1>1. /\ stdin \in Seq(Requests) /\ stdout \in Seq(Frames) /\ node \in Nodes
      /\ local \subseteq Nat /\ rejected \subseteq Nat
    BY DEF SessionInv, TypeOK
<1>2. node.req \in Requests
    BY <1>1 DEF Nodes
<1>3. /\ \A i \in 1..Len(stdin) : stdin[i] \in Requests
      /\ \A i \in 1..Len(stdout) : stdout[i] \in Frames
    BY <1>1
<1> QED BY <1>1, <1>2, <1>3 DEF Requests, Frames

----------------------------------------------------------------------------
(* Pipes that only get shorter.                                            *)

\* Lines are taken off the pipes, and the bridge may end.
LEMMA ShorterPipes ==
    ASSUME SessionInv, OrderInv,
           stdin' = stdin \/ stdin' = <<>>,
           stdout' = stdout \/ (stdout # <<>> /\ stdout' = Tail(stdout)),
           node' = node \/ node' = Exited(node),
           UNCHANGED local, remote' \subseteq local
    PROVE  PipesInOrder' /\ WritesInOrder' /\ ErrorFramesTrue'
<1>1. /\ node'.req = node.req
      /\ node'.pc = node.pc \/ node'.pc = "exited"
      /\ node'.late = node.late \/ node'.late = "none"
    BY IdTypes, ExitedFacts
<1>2. \A i \in 1..Len(stdin)' : i \in 1..Len(stdin) /\ stdin'[i] = stdin[i]
    BY EmptyFacts
<1>3. \E k \in {0, 1} : \A i \in 1..Len(stdout)' :
          i + k \in 1..Len(stdout) /\ stdout'[i] = stdout[i + k]
    <2>1. CASE stdout' = stdout
        BY <2>1, IdTypes
    <2>2. CASE stdout # <<>> /\ stdout' = Tail(stdout)
        BY <2>2, IdTypes, TailFacts
    <2> QED BY <2>1, <2>2
<1>4. PICK k \in {0, 1} : \A i \in 1..Len(stdout)' :
          i + k \in 1..Len(stdout) /\ stdout'[i] = stdout[i + k]
    BY <1>3
<1>5. PipesInOrder'
    <2> USE DEF OrderInv, PipesInOrder, Busy
    <2>1. /\ \A i \in 1..Len(stdin)' : node'.req.id < stdin'[i].id
          /\ \A i, j \in 1..Len(stdin)' : i < j => stdin'[i].id < stdin'[j].id
        BY <1>1, <1>2
    <2>2. \A i \in 1..Len(stdout)' :
              /\ stdout'[i].id <= node'.req.id
              /\ Busy' => stdout'[i].id < node'.req.id
        BY <1>1, <1>4
    <2>3. \A i, j \in 1..Len(stdout)' :
              i < j => stdout'[j].id = NullId \/ stdout'[i].id < stdout'[j].id
        <3> SUFFICES ASSUME NEW i \in 1..Len(stdout)', NEW j \in 1..Len(stdout)', i < j
                     PROVE  stdout'[j].id = NullId \/ stdout'[i].id < stdout'[j].id
            OBVIOUS
        <3>1. i + k < j + k
            OBVIOUS
        <3> QED BY <1>4, <3>1
    <2> QED BY <1>1, <2>1, <2>2, <2>3
<1>6. WritesInOrder'
    BY <1>1 DEF OrderInv, WritesInOrder
<1>7. ErrorFramesTrue'
    BY <1>1, <1>4 DEF OrderInv, ErrorFramesTrue
<1> QED BY <1>5, <1>6, <1>7

\* If moreover nobody is told of an error, and whoever uses the session uses
\* it still, the rest of the invariant holds too.
LEMMA ShorterSteps ==
    ASSUME SessionInv, OrderInv,
           stdin' = stdin \/ stdin' = <<>>,
           UNCHANGED stdout,
           node' = node \/ node' = Exited(node),
           UNCHANGED local, remote' \subseteq local,
           UNCHANGED rejected, ~abandoned' => ~abandoned,
           state' = "Open" /\ phase' # "dropped" /\ ~abandoned' =>
               /\ state = "Open" /\ phase # "dropped"
               /\ holder' = holder
               /\ holder # NoCaller => req'[holder] = req[holder]
    PROVE  OrderInv'
<1>1. /\ node'.req = node.req
      /\ node'.pc = node.pc \/ node'.pc = "exited"
      /\ node'.late = node.late \/ node'.late = "none"
    BY IdTypes, ExitedFacts
<1>2. \A i \in 1..Len(stdin)' : i \in 1..Len(stdin) /\ stdin'[i] = stdin[i]
    BY EmptyFacts
<1>3. OwnRequestOnly'
    BY <1>1, <1>2 DEF OrderInv, OwnRequestOnly, Own, Busy
<1>4. RejectedIsOver'
    BY <1>1 DEF OrderInv, RejectedIsOver, Busy
<1> QED BY <1>3, <1>4, ShorterPipes DEF OrderInv

----------------------------------------------------------------------------
(* The Rust side.                                                          *)

LEMMA CallerOrder ==
    ASSUME SessionInv, OrderInv, NEW c \in Callers,
           \/ BeginClose(c) \/ \E op \in Operations : Begin(c, op)
           \/ CloseGate(c) \/ SendToDeadBridge(c) \/ RefuseUnusable(c)
           \/ EndOfStream(c) \/ Timeout(c) \/ Reap(c) \/ Cancel(c)
    PROVE  OrderInv'
<1> USE DEF SessionInv, TypeOK, HolderAwaits, Awaits, Kill, DropIfOpening,
            nodeVars, dataVars, history, Settle
<1>0. remote \subseteq local
    BY DEF OrderInv, WritesInOrder
<1>1. ASSUME NEW op, Begin(c, op) \/ BeginClose(c) PROVE OrderInv'
    <2>1. holder # NoCaller => req'[holder] = req[holder]
        BY <1>1, CallersAssumption DEF Begin, BeginClose
    <2> QED BY <1>0, <1>1, <2>1, ShorterSteps DEF Begin, BeginClose
<1>2. CASE CloseGate(c)
    BY <1>0, <1>2, ShorterSteps DEF CloseGate
<1>3. CASE SendToDeadBridge(c) \/ RefuseUnusable(c) \/ EndOfStream(c) \/ Timeout(c)
    <2>1. /\ state' # "Open"
          /\ stdin' = stdin \/ stdin' = <<>>
          /\ node' = node \/ node' = Exited(node)
          /\ UNCHANGED <<stdout, local, remote, rejected, abandoned>>
        BY <1>3 DEF SendToDeadBridge, RefuseUnusable, EndOfStream, Timeout
    <2> QED BY <1>0, <2>1, ShorterSteps
<1>4. CASE Reap(c)
    BY <1>0, <1>4, ShorterSteps DEF Reap
<1>5. CASE Cancel(c)
    <2>1. ~abandoned' => ~abandoned /\ holder' = holder
        BY <1>5 DEF Cancel
    <2>2. phase' # "dropped" => phase # "dropped"
        BY <1>5 DEF Cancel
    <2> QED BY <1>0, <1>5, <2>1, <2>2, ShorterSteps DEF Cancel
<1> QED BY <1>1, <1>2, <1>3, <1>4, <1>5

LEMMA DropOrder ==
    ASSUME SessionInv, OrderInv, Drop
    PROVE  OrderInv'
<1>1. remote \subseteq local
    BY DEF OrderInv, WritesInOrder
<1> QED BY <1>1, ShorterSteps DEF Drop, Kill, history

\* A new request comes last; nothing else is on its way, unless abandoned.
LEMMA SendOrder ==
    ASSUME SessionInv, OrderInv, NEW c \in Callers, Send(c)
    PROVE  OrderInv'
<1> DEFINE r == [id |-> nextId, op |-> req[c].op]
<1>1. /\ holder = NoCaller /\ holder' = c /\ c # NoCaller
      /\ req' = [req EXCEPT ![c].id = nextId]
      /\ stdin' = Append(stdin, r)
      /\ UNCHANGED <<phase, state, node, stdout, local, remote, rejected, abandoned>>
    BY CallersAssumption DEF Send, dataVars, history
<1>2. nextId \in Nat /\ req[c] \in Requests /\ r \in Requests /\ req'[c].id = nextId
    BY <1>1 DEF SessionInv, TypeOK, Requests
<1>3. /\ Len(stdin') = Len(stdin) + 1
      /\ \A i \in 1..Len(stdin) : stdin'[i] = stdin[i]
      /\ stdin'[Len(stdin) + 1].id = nextId
    BY <1>1, <1>2, IdTypes, AppendFacts
<1>4. /\ node.req.id < nextId /\ \A i \in 1..Len(stdin) : stdin[i].id < nextId
      /\ Len(stdin) \in Nat
    BY IdTypes DEF SessionInv, IdsIssued
<1>5. PipesInOrder'
    <2>1. \A i \in 1..Len(stdin)' : i \in 1..Len(stdin) \/ i = Len(stdin) + 1
        BY <1>3, <1>4
    <2>2. \A i \in 1..Len(stdin)' : node.req.id < stdin'[i].id
        BY <1>3, <1>4, <2>1 DEF OrderInv, PipesInOrder
    <2>3. \A i, j \in 1..Len(stdin)' : i < j => stdin'[i].id < stdin'[j].id
        BY <1>3, <1>4, <2>1 DEF OrderInv, PipesInOrder
    <2> QED BY <1>1, <2>2, <2>3 DEF OrderInv, PipesInOrder, Busy
<1>6. OwnRequestOnly'
    <2> SUFFICES ASSUME state = "Open", phase # "dropped", ~abandoned
                 PROVE  /\ \A i \in 1..Len(stdin)' : stdin'[i].id = nextId
                        /\ \A i \in 1..Len(stdout) : stdout[i].id = NullId
                        /\ ~Busy
        BY <1>1, <1>2 DEF OwnRequestOnly, Own, Busy
    <2>1. /\ \A i \in 1..Len(stdin) : FALSE
          /\ \A i \in 1..Len(stdout) : stdout[i].id = NullId
          /\ ~Busy
        BY <1>1 DEF OrderInv, OwnRequestOnly, Own
    <2>2. Len(stdin) = 0
        BY <1>4, <2>1
    <2> QED BY <1>3, <2>1, <2>2
<1>7. WritesInOrder' /\ ErrorFramesTrue' /\ RejectedIsOver'
    BY <1>1 DEF OrderInv, WritesInOrder, ErrorFramesTrue, RejectedIsOver, Busy
<1> QED BY <1>5, <1>6, <1>7 DEF OrderInv

\* A frame is read.  One that leaves the session usable answers the request
\* of whoever reads it, unless calls have been abandoned; then there is
\* nothing left of that request.
LEMMA ReceiveOrder ==
    ASSUME SessionInv, OrderInv, NEW c \in Callers, Receive(c)
    PROVE  OrderInv'
<1> DEFINE f == Head(stdout)
<1>1. /\ holder = c /\ c # NoCaller /\ state = "Open" /\ phase # "dropped"
      /\ stdout # <<>>
    BY CallersAssumption DEF Receive, SessionInv, HolderAwaits, Awaits
<1>2. /\ state' = IF Poisons(c, f) THEN "Poisoned" ELSE state
      /\ holder' = NoCaller
      /\ rejected' = IF f.kind = "error" /\ req[c].op = "write"
                     THEN rejected \cup {req[c].id} ELSE rejected
      /\ stdout' = Tail(stdout)
      /\ stdin' = stdin \/ stdin' = <<>>
      /\ node' = node \/ node' = Exited(node)
      /\ UNCHANGED <<local, remote, abandoned>>
    BY DEF Receive, Settle, dataVars
<1>3. /\ f = stdout[1] /\ 1 \in 1..Len(stdout) /\ f \in Frames
      /\ \A i \in 1..Len(Tail(stdout)) :
            i + 1 \in 1..Len(stdout) /\ Tail(stdout)[i] = stdout[i + 1]
    BY <1>1, IdTypes, TailFacts
<1>4. PipesInOrder' /\ WritesInOrder' /\ ErrorFramesTrue'
    BY <1>1, <1>2, ShorterPipes DEF OrderInv, WritesInOrder
<1>5. /\ node'.req = node.req
      /\ node'.pc = node.pc \/ node'.pc = "exited"
      /\ node'.late = node.late \/ node'.late = "none"
    BY <1>2, IdTypes, ExitedFacts
<1>6. ASSUME ~abandoned, f.id # NullId
      PROVE  /\ f.id = req[c].id
             /\ \A i \in 1..Len(stdin) : FALSE
             /\ \A i \in 1..Len(stdout)' : stdout'[i].id = NullId
             /\ ~Busy
    <2>1. f.id = req[c].id
        BY <1>1, <1>3, <1>6 DEF OrderInv, OwnRequestOnly, Own
    <2>2. \A i \in 1..Len(stdin) : FALSE
        BY <1>1, <1>3, <1>6, <2>1, IdTypes
           DEF OrderInv, PipesInOrder, OwnRequestOnly, Own
    <2>3. \A i \in 1..Len(stdout)' : stdout'[i].id = NullId
        BY <1>1, <1>2, <1>3, <1>6, <2>1, IdTypes
           DEF OrderInv, PipesInOrder, OwnRequestOnly, Own
    <2>4. ~Busy
        BY <1>1, <1>3, <1>6, <2>1, IdTypes
           DEF OrderInv, PipesInOrder, OwnRequestOnly, Own
    <2> QED BY <2>1, <2>2, <2>3, <2>4
<1>7. OwnRequestOnly'
    <2> SUFFICES ASSUME state' = "Open", ~abandoned
                 PROVE  /\ \A i \in 1..Len(stdin)' : FALSE
                        /\ \A i \in 1..Len(stdout)' : stdout'[i].id = NullId
                        /\ ~Busy'
        BY <1>2 DEF OwnRequestOnly
    <2>1. f.id # NullId
        BY <1>2, <1>3 DEF Poisons, OrderInv, ErrorFramesTrue
    <2> QED BY <1>2, <1>5, <1>6, <2>1, EmptyFacts DEF Busy
<1>8. RejectedIsOver'
    <2> SUFFICES ASSUME ~abandoned, NEW w \in rejected'
                 PROVE  /\ w \notin local /\ w <= node.req.id
                        /\ Busy \/ node.late # "none" => w # node.req.id
        BY <1>2, <1>5 DEF RejectedIsOver, Busy
    <2>1. CASE w \in rejected
        BY <2>1 DEF OrderInv, RejectedIsOver
    <2>2. CASE w \notin rejected
        <3>1. f.kind = "error" /\ w = req[c].id
            BY <1>2, <2>2
        <3>2. f.id # NullId /\ f.id = w /\ ~Busy
            BY <1>3, <1>6, <3>1 DEF OrderInv, ErrorFramesTrue
        <3> QED BY <1>3, <3>1, <3>2 DEF OrderInv, ErrorFramesTrue, PipesInOrder
    <2> QED BY <2>1, <2>2
<1> QED BY <1>4, <1>7, <1>8 DEF OrderInv

----------------------------------------------------------------------------
(* The bridge.                                                             *)

\* A request goes from the pipe to its handler.
LEMMA ReadOrder ==
    ASSUME SessionInv, OrderInv, ReadRequest
    PROVE  OrderInv'
<1>1. /\ stdin # <<>> /\ node.pc = "read" /\ stdin' = Tail(stdin)
      /\ UNCHANGED <<phase, state, holder, req, stdout, local, remote, rejected,
                     abandoned>>
    BY DEF ReadRequest, rustVars, dataVars, history
<1>2. /\ Head(stdin) = stdin[1] /\ 1 \in 1..Len(stdin)
      /\ \A i \in 1..Len(Tail(stdin)) :
            i + 1 \in 1..Len(stdin) /\ Tail(stdin)[i] = stdin[i + 1]
    BY <1>1, IdTypes, TailFacts
<1>3. node'.req = stdin[1] /\ node'.pc = "work" /\ node'.late = "none"
    BY <1>1, <1>2, IdTypes DEF ReadRequest, Nodes, SessionInv, BridgeStages
<1>4. /\ node.req.id < stdin[1].id /\ node.req.id \in Nat /\ stdin[1].id \in Nat
      /\ \A w \in local : w \in Nat /\ w # NullId /\ w <= node.req.id
      /\ \A i \in 1..Len(stdout) : stdout[i].id \in Nat /\ stdout[i].id <= node.req.id
    BY <1>2, IdTypes DEF OrderInv, PipesInOrder, WritesInOrder
<1>5. PipesInOrder'
    <2>1. \A i \in 1..Len(stdin)' : stdin[1].id < stdin'[i].id
        BY <1>1, <1>2 DEF OrderInv, PipesInOrder
    <2>2. \A i, j \in 1..Len(stdin)' : i < j => stdin'[i].id < stdin'[j].id
        <3> SUFFICES ASSUME NEW i \in 1..Len(stdin)', NEW j \in 1..Len(stdin)', i < j
                     PROVE  stdin'[i].id < stdin'[j].id
            OBVIOUS
        <3>1. i + 1 < j + 1
            OBVIOUS
        <3> QED BY <1>1, <1>2, <3>1 DEF OrderInv, PipesInOrder
    <2>3. stdin[1].id # NullId /\ \A i \in 1..Len(stdout) : stdout[i].id < stdin[1].id
        BY <1>4 DEF NullId
    <2> QED BY <1>1, <1>3, <1>4, <2>1, <2>2, <2>3 DEF OrderInv, PipesInOrder, Busy
<1>6. WritesInOrder'
    BY <1>1, <1>3, <1>4 DEF OrderInv, WritesInOrder
<1>7. ErrorFramesTrue'
    BY <1>1, <1>3 DEF OrderInv, ErrorFramesTrue
<1>8. OwnRequestOnly'
    BY <1>1, <1>2, <1>3 DEF OrderInv, OwnRequestOnly, Own, Busy
<1>9. RejectedIsOver'
    BY <1>1, <1>3, <1>4, IdTypes DEF OrderInv, RejectedIsOver
<1> QED BY <1>5, <1>6, <1>7, <1>8, <1>9 DEF OrderInv

\* A request goes from its handler to the pipe, with what it has written.
LEMMA AnswerSteps ==
    ASSUME SessionInv, OrderInv, UNCHANGED rustVars, UNCHANGED history, Busy,
           NEW k \in {"ok", "error", "fatal"},
           stdout' = Append(stdout, [id |-> node.req.id, kind |-> k]),
           stdin' = stdin,
           node'.req = node.req, node'.pc \in {"read", "stop"},
           node'.late = "none" \/ k = "fatal",
           local' \in {local, local \cup {node.req.id}}, remote' \subseteq local',
           k = "error" => local' = local /\ node.pc = "work"
    PROVE  OrderInv'
<1> DEFINE f == [id |-> node.req.id, kind |-> k]
<1>1. UNCHANGED <<phase, state, holder, req, rejected, abandoned>>
    BY DEF rustVars, history
<1>2. /\ node.req.id \in Nat /\ node.req.id # NullId /\ f \in Frames
      /\ \A i \in 1..Len(stdout) : stdout[i].id \in Nat /\ stdout[i].id < node.req.id
    BY IdTypes DEF OrderInv, PipesInOrder, Frames
<1>3. /\ Len(stdout) \in Nat /\ Len(stdout') = Len(stdout) + 1
      /\ \A i \in 1..Len(stdout) : stdout'[i] = stdout[i]
      /\ stdout'[Len(stdout) + 1] = f
    BY <1>2, IdTypes, AppendFacts
<1>4. \A i \in 1..Len(stdout)' : i \in 1..Len(stdout) \/ i = Len(stdout) + 1
    BY <1>3
<1>5. PipesInOrder'
    <2>1. \A i \in 1..Len(stdout)' : stdout'[i].id <= node.req.id
        BY <1>2, <1>3, <1>4
    <2>2. \A i, j \in 1..Len(stdout)' :
              i < j => stdout'[j].id = NullId \/ stdout'[i].id < stdout'[j].id
        BY <1>2, <1>3, <1>4 DEF OrderInv, PipesInOrder
    <2> QED BY <2>1, <2>2 DEF OrderInv, PipesInOrder, Busy
<1>6. WritesInOrder'
    BY <1>2 DEF OrderInv, WritesInOrder
<1>7. ErrorFramesTrue'
    <2>1. ASSUME NEW i \in 1..Len(stdout)
          PROVE  /\ stdout[i].id # node.req.id
                 /\ stdout[i].kind = "error" => stdout[i].id \notin local'
                 /\ stdout[i].id = NullId => stdout[i].kind \in {"fatal", "torn"}
        BY <1>2 DEF OrderInv, ErrorFramesTrue
    <2>2. k = "error" => node.req.id \notin local' /\ node'.late = "none"
        BY DEF OrderInv, WritesInOrder
    <2> QED BY <1>2, <1>3, <1>4, <2>1, <2>2 DEF ErrorFramesTrue
<1>8. OwnRequestOnly'
    <2>1. Own(node.req.id)' = Own(node.req.id)
        BY <1>1 DEF Own
    <2> QED BY <1>1, <1>2, <1>3, <1>4 DEF OrderInv, OwnRequestOnly, Own, Busy
<1>9. RejectedIsOver'
    BY <1>1 DEF OrderInv, RejectedIsOver, Busy
<1> QED BY <1>5, <1>6, <1>7, <1>8, <1>9 DEF OrderInv

LEMMA AnswerOrder ==
    ASSUME SessionInv, OrderInv,
           \/ OpenBudget \/ ReadData \/ RefuseWrite \/ SyncWrite \/ CloseBudget
           \/ HandlerTimeout
    PROVE  OrderInv'
<1>1. /\ node \in Nodes /\ remote \subseteq local /\ Pushed = local
      /\ node.late # "none" => node.pc = "stop"
    BY IdTypes DEF OrderInv, WritesInOrder, Pushed, SessionInv, BridgeStages
<1>2. ASSUME NEW k \in {"ok", "error", "fatal"}, Reply(k), Busy
      PROVE  /\ stdout' = Append(stdout, [id |-> node.req.id, kind |-> k])
             /\ stdin' = stdin /\ node'.req = node.req
             /\ node'.pc \in {"read", "stop"} /\ node'.late = "none"
    BY <1>1, <1>2 DEF Reply, Frame, Nodes, Busy
<1>3. CASE OpenBudget
    <2>1. PICK k \in {"ok", "fatal"} : Reply(k)
        BY <1>3 DEF OpenBudget
    <2> QED BY <1>1, <1>2, <1>3, <2>1, AnswerSteps DEF OpenBudget, dataVars, Busy
<1>4. CASE ReadData
    <2>1. PICK k \in {"ok", "error", "fatal"} : Reply(k)
        BY <1>4 DEF ReadData
    <2> QED BY <1>1, <1>2, <1>4, <2>1, AnswerSteps DEF ReadData, dataVars, Busy
<1>5. CASE RefuseWrite
    <2>1. PICK k \in {"error", "fatal"} :
             /\ Reply(k) /\ local' \in {local, local \cup {node.req.id}}
             /\ k = "error" => local' = local
        BY <1>5 DEF RefuseWrite
    <2> QED BY <1>1, <1>2, <1>5, <2>1, AnswerSteps DEF RefuseWrite, Busy
<1>6. CASE SyncWrite
    <2>1. PICK k \in {"ok", "fatal"} : Reply(k) /\ remote' \in {remote, Pushed}
        BY <1>6 DEF SyncWrite
    <2> QED BY <1>1, <1>2, <1>6, <2>1, AnswerSteps DEF SyncWrite, Busy
<1>7. CASE CloseBudget
    <2>1. PICK k \in {"ok", "error", "fatal"} :
             Reply(k) /\ remote' \in {remote, Pushed}
        BY <1>7 DEF CloseBudget
    <2> QED BY <1>1, <1>2, <1>7, <2>1, AnswerSteps DEF CloseBudget, Busy
<1>8. CASE HandlerTimeout
    <2>1. /\ Busy /\ stdout' = Append(stdout, [id |-> node.req.id, kind |-> "fatal"])
          /\ node'.req = node.req /\ node'.pc = "stop"
          /\ UNCHANGED <<rustVars, stdin, local, remote, history>>
        BY <1>1, <1>8 DEF HandlerTimeout, Busy, Frame, Nodes, dataVars
    <2> QED BY <1>1, <2>1, AnswerSteps
<1> QED BY <1>3, <1>4, <1>5, <1>6, <1>7, <1>8

\* A handler writes, in its time or late.
LEMMA WriteOrder ==
    ASSUME SessionInv, OrderInv, ApplyWrite \/ LateApply \/ LateSync
    PROVE  OrderInv'
<1>1. /\ UNCHANGED <<phase, state, holder, req, stdin, stdout, rejected, abandoned>>
      /\ local' = local \cup {node.req.id} \/ local' = local
      /\ remote' \in {remote, Pushed}
    BY DEF ApplyWrite, LateApply, LateSync, rustVars, history
<1>2. Busy \/ node.late # "none"
    BY DEF ApplyWrite, LateApply, LateSync, Busy
<1>3. /\ node'.req = node.req
      /\ node'.pc = "sync" \/ node'.pc = node.pc
      /\ Busy' => Busy /\ (node'.pc = "work" => local' = local)
      /\ node'.late # "none" => node.late # "none"
    BY IdTypes DEF ApplyWrite, LateApply, LateSync, Busy, Nodes, SessionInv, BridgeStages
<1>4. \A i \in 1..Len(stdout) : stdout[i].kind = "error" => stdout[i].id # node.req.id
    BY <1>2, IdTypes DEF OrderInv, PipesInOrder, ErrorFramesTrue
<1>5. PipesInOrder' /\ OwnRequestOnly'
    BY <1>1, <1>3 DEF OrderInv, PipesInOrder, OwnRequestOnly, Own, Busy
<1>6. WritesInOrder'
    <2>1. node'.pc = "work" => node.pc = "work" /\ local' = local
        BY <1>3 DEF Busy
    <2>2. \A w \in local' : w # NullId /\ w <= node.req.id
        BY <1>1, <1>2, IdTypes DEF OrderInv, PipesInOrder, WritesInOrder
    <2>3. remote' \subseteq local'
        BY <1>1 DEF OrderInv, WritesInOrder, Pushed
    <2> QED BY <1>3, <2>1, <2>2, <2>3 DEF OrderInv, WritesInOrder
<1>7. ErrorFramesTrue'
    BY <1>1, <1>3, <1>4 DEF OrderInv, ErrorFramesTrue
<1>8. RejectedIsOver'
    BY <1>1, <1>2, <1>3 DEF OrderInv, RejectedIsOver
<1> QED BY <1>5, <1>6, <1>7, <1>8 DEF OrderInv

\* The bridge ends, perhaps with a last frame that answers nobody.
LEMMA EndOrder ==
    ASSUME SessionInv, OrderInv, Shutdown \/ BridgeDies
    PROVE  OrderInv'
<1>1. /\ node' = Exited(node) /\ stdin' = <<>> /\ local' = local
      /\ UNCHANGED <<phase, state, holder, req, rejected, abandoned>>
      /\ remote' \in {remote, Pushed}
    BY DEF Shutdown, BridgeDies, rustVars, dataVars, history
<1>2. remote' \subseteq local
    BY <1>1 DEF OrderInv, WritesInOrder, Pushed
<1>3. CASE UNCHANGED stdout
    BY <1>1, <1>2, <1>3, ShorterSteps
<1>4. ASSUME NEW k \in {"fatal", "torn"},
             stdout' = Append(stdout, [id |-> NullId, kind |-> k])
      PROVE  OrderInv'
    <2>1. /\ Len(stdout) \in Nat /\ Len(stdout') = Len(stdout) + 1
          /\ \A i \in 1..Len(stdout) : stdout'[i] = stdout[i]
          /\ stdout'[Len(stdout) + 1] = [id |-> NullId, kind |-> k]
        BY <1>4, IdTypes, AppendFacts DEF Frames, NullId
    <2>2. \A i \in 1..Len(stdout)' : i \in 1..Len(stdout) \/ i = Len(stdout) + 1
        BY <2>1
    <2>3. /\ node'.req = node.req /\ node'.pc = "exited" /\ node'.late = "none"
          /\ 1..Len(stdin') = {}
        BY <1>1, IdTypes, ExitedFacts, EmptyFacts
    <2>4. PipesInOrder'
        <3>1. \A i \in 1..Len(stdout)' : stdout'[i].id <= node.req.id
            BY <2>1, <2>2, IdTypes DEF OrderInv, PipesInOrder, NullId
        <3>2. \A i, j \in 1..Len(stdout)' :
                  i < j => stdout'[j].id = NullId \/ stdout'[i].id < stdout'[j].id
            BY <2>1, <2>2 DEF OrderInv, PipesInOrder
        <3> QED BY <2>3, <3>1, <3>2 DEF PipesInOrder, Busy
    <2>5. WritesInOrder'
        BY <1>1, <1>2, <2>3 DEF OrderInv, WritesInOrder
    <2>6. ErrorFramesTrue'
        BY <1>1, <2>1, <2>2, <2>3 DEF OrderInv, ErrorFramesTrue
    <2>7. OwnRequestOnly'
        BY <1>1, <2>1, <2>2, <2>3 DEF OrderInv, OwnRequestOnly, Own, Busy
    <2>8. RejectedIsOver'
        BY <1>1, <2>3 DEF OrderInv, RejectedIsOver, Busy
    <2> QED BY <2>4, <2>5, <2>6, <2>7, <2>8 DEF OrderInv
<1> QED BY <1>3, <1>4 DEF Shutdown, BridgeDies, Frame

----------------------------------------------------------------------------
LEMMA NextOrderInv == SessionInv /\ OrderInv /\ [Next]_vars => OrderInv'
<1> SUFFICES ASSUME SessionInv, OrderInv, [Next]_vars PROVE OrderInv'
    OBVIOUS
<1>1. ASSUME NEW c \in Callers,
             \/ BeginClose(c) \/ \E op \in Operations : Begin(c, op)
             \/ CallerStep(c) \/ Cancel(c)
      PROVE  OrderInv'
    BY <1>1, CallerOrder, SendOrder, ReceiveOrder DEF CallerStep
<1>2. CASE Drop
    BY <1>2, DropOrder
<1>3. CASE BridgeStep
    BY <1>3, ReadOrder, AnswerOrder, WriteOrder, EndOrder DEF BridgeStep
<1>4. CASE UNCHANGED vars
    BY <1>4
       DEF vars, rustVars, nodeVars, dataVars, history, OrderInv, PipesInOrder,
           WritesInOrder, ErrorFramesTrue, OwnRequestOnly, Own, RejectedIsOver, Busy
<1> QED BY <1>1, <1>2, <1>3, <1>4 DEF Next

LEMMA OrderInvariance == Spec => [](SessionInv /\ OrderInv)
BY InitSessionInv, NextSessionInv, InitOrderInv, NextOrderInv, PTL DEF Spec

\* As long as no call is abandoned, an error that leaves the session usable
\* means that its write was not applied, nor will be (index.js:335-347).
THEOREM RejectedStaysOut == Spec => []RejectedWritesNotApplied
<1>1. OrderInv => RejectedWritesNotApplied
    BY DEF OrderInv, RejectedIsOver, WritesInOrder, RejectedWritesNotApplied
<1> QED BY <1>1, OrderInvariance, PTL

\* As long as no call is abandoned, one request is on its way at most, that of
\* the caller that holds the mutex (session.rs:47).
THEOREM OneAtATime == Spec => []OneRequestInFlight
<1>1. SessionInv /\ OrderInv => OneRequestInFlight
    BY IdTypes
       DEF OrderInv, OwnRequestOnly, Own, OneRequestInFlight, InFlight, Busy
<1> QED BY <1>1, OrderInvariance, PTL

----------------------------------------------------------------------------
(* The contract.                                                           *)

Status == IF phase = "dropped" THEN "Closed" ELSE state

\* A step of the contract, spelled out over the variables of the session.
ContractStep ==
    \/ /\ Status = "Open" /\ nextId' = nextId + 1
       /\ Status' \in {"Open", "Poisoned", "Closed"} /\ UNCHANGED <<remote, acked>>
    \/ /\ Status # "Closed" /\ UNCHANGED <<Status, nextId, acked>>
       /\ \E S \in SUBSET (1..(nextId - 1)) : remote' = remote \cup S
    \/ /\ Status = "Open" /\ UNCHANGED <<Status, nextId, remote>>
       /\ \E w \in remote : acked' = acked \cup {w}
    \/ /\ Status = "Open" /\ Status' = "Poisoned"
       /\ UNCHANGED <<nextId, remote, acked>>
    \/ /\ Status # "Closed" /\ Status' = "Closed"
       /\ UNCHANGED <<nextId, remote, acked>>
    \/ UNCHANGED <<Status, nextId, remote, acked>>

LEMMA ContractStepSuffices ==
    ASSUME nextId \in Nat, nextId' \in Nat, ContractStep
    PROVE  [Contract!Next]_(Contract!contractVars)
<1> USE DEF Status, Contract!Next, Contract!contractVars
<1>1. (nextId + 1) - 1 = (nextId - 1) + 1
    OBVIOUS
<1> QED BY <1>1
        DEF ContractStep, Contract!Issue, Contract!Deliver, Contract!Acknowledge,
            Contract!Poison, Contract!Close

LEMMA InitContract == Init => Contract!Init
BY DEF Init, FirstId, Contract!Init

----------------------------------------------------------------------------
(* The Rust side.                                                          *)

LEMMA CallerContract ==
    ASSUME SessionInv, NEW c \in Callers,
           \/ BeginClose(c) \/ \E op \in Operations : Begin(c, op)
           \/ CallerStep(c) \/ Cancel(c)
    PROVE  ContractStep
<1> USE DEF Kill, DropIfOpening, nodeVars, dataVars, history, Status, ContractStep
<1>0. /\ pc[c] # "idle" => phase # "dropped"
      /\ phase = "opening" => state = "Open"
      /\ pc[c] = "await" => state = "Open" /\ phase # "dropped"
      /\ state \in {"Open", "Poisoned", "Closed"}
    BY CallersAssumption
       DEF SessionInv, TypeOK, CallersOfPhase, HolderAwaits, Awaits
<1>1. CASE BeginClose(c) \/ \E op \in Operations : Begin(c, op)
    BY <1>1 DEF BeginClose, Begin
<1>2. CASE CloseGate(c)
    BY <1>0, <1>2 DEF CloseGate
<1>3. CASE Send(c)
    BY <1>0, <1>3 DEF Send
<1>4. CASE SendToDeadBridge(c)
    BY <1>0, <1>4 DEF SendToDeadBridge
<1>5. CASE RefuseUnusable(c)
    <2>1. phase' = phase
        BY <1>0, <1>5 DEF RefuseUnusable, Settle
    <2> QED BY <1>5, <2>1 DEF RefuseUnusable
<1>6. CASE EndOfStream(c) \/ Timeout(c)
    <2>1. /\ state = "Open" /\ phase # "dropped" /\ state' = "Poisoned"
          /\ UNCHANGED <<nextId, remote, acked>>
        BY <1>0, <1>6 DEF EndOfStream, Timeout
    <2> QED BY <2>1
<1>7. CASE Receive(c)
    <2> DEFINE f == Head(stdout)
    <2>1. /\ pc[c] = "await" /\ state = "Open" /\ phase # "dropped" /\ stdout # <<>>
          /\ UNCHANGED <<nextId, remote>>
        BY <1>0, <1>7 DEF Receive
    <2>2. /\ state' = IF Poisons(c, f) THEN "Poisoned" ELSE state
          /\ phase' = IF phase # "opening" THEN phase
                      ELSE IF Accepts(c, f) THEN "shared" ELSE "dropped"
          /\ acked' = IF Accepts(c, f) /\ req[c].op = "write"
                      THEN acked \cup {req[c].id} ELSE acked
        BY <1>7 DEF Receive, Settle
    <2>3. CASE Accepts(c, f)
        <3>1. f = stdout[1] /\ 1 \in 1..Len(stdout)
            BY <2>1, IdTypes, TailFacts
        <3>2. req[c].op = "write" => req[c].id \in remote
            BY <2>1, <2>3, <3>1 DEF SessionInv, OkFramesTrue, Awaits, Accepts
        <3>3. state' = "Open"
            BY <2>1, <2>2, <2>3 DEF Poisons, Accepts
        <3> QED BY <2>1, <2>2, <2>3, <3>2, <3>3
    <2>4. CASE ~Accepts(c, f)
        BY <2>1, <2>2, <2>4
    <2> QED BY <2>3, <2>4
<1>8. CASE Reap(c)
    BY <1>0, <1>8 DEF Reap
<1>9. CASE Cancel(c)
    BY <1>0, <1>9 DEF Cancel
<1> QED BY <1>1, <1>2, <1>3, <1>4, <1>5, <1>6, <1>7, <1>8, <1>9 DEF CallerStep

----------------------------------------------------------------------------
(* The bridge, which can do nothing but deliver.                           *)

LEMMA BridgeContract ==
    ASSUME SessionInv, OrderInv, BridgeStep
    PROVE  ContractStep
<1>1. UNCHANGED <<phase, state, nextId, acked>>
    BY DEF BridgeStep, ReadRequest, OpenBudget, ReadData, ApplyWrite, RefuseWrite,
           SyncWrite, CloseBudget, HandlerTimeout, LateApply, LateSync, Shutdown,
           BridgeDies, rustVars, history
<1>2. remote' = remote \/ remote' = Pushed
    BY DEF BridgeStep, ReadRequest, OpenBudget, ReadData, ApplyWrite, RefuseWrite,
           SyncWrite, CloseBudget, HandlerTimeout, LateApply, LateSync, Shutdown,
           BridgeDies, dataVars
<1>3. node.pc # "exited"
    BY DEF BridgeStep, ReadRequest, OpenBudget, ReadData, ApplyWrite, RefuseWrite,
           SyncWrite, CloseBudget, HandlerTimeout, LateApply, LateSync, Shutdown,
           BridgeDies, Alive, SessionInv, BridgeStages
<1>4. Status # "Closed" /\ UNCHANGED Status
    BY <1>1, <1>3 DEF SessionInv, ClosedSessionHasNoBridge, Alive, Status
<1>5. local \in SUBSET (1..(nextId - 1))
    BY IdTypes
       DEF SessionInv, TypeOK, IdsIssued, OrderInv, WritesInOrder, NullId
<1>6. CASE remote' = remote
    BY <1>1, <1>4, <1>6 DEF ContractStep
<1>7. CASE remote' = Pushed
    BY <1>1, <1>4, <1>5, <1>7 DEF ContractStep, Pushed
<1> QED BY <1>2, <1>6, <1>7

----------------------------------------------------------------------------
LEMMA NextContract ==
    SessionInv /\ OrderInv /\ [Next]_vars
    => [Contract!Next]_(Contract!contractVars)
<1> SUFFICES ASSUME SessionInv, OrderInv, [Next]_vars
             PROVE  [Contract!Next]_(Contract!contractVars)
    OBVIOUS
<1>1. nextId \in Nat /\ nextId' \in Nat
    BY NextSessionInv DEF SessionInv, TypeOK
<1>2. ASSUME Drop PROVE ContractStep
    BY <1>2 DEF Drop, Kill, history, Status, ContractStep
<1>3. ASSUME UNCHANGED vars PROVE ContractStep
    BY <1>3 DEF vars, rustVars, dataVars, history, Status, ContractStep
<1>4. ContractStep
    BY <1>2, <1>3, CallerContract, BridgeContract DEF Next
<1> QED BY <1>1, <1>4, ContractStepSuffices

\* The session implements its contract (session.rs:25-63): requests are
\* numbered as issued, an unusable session issues none, acknowledged writes
\* are on the server, and a closed session changes nothing any more.
THEOREM SessionImplementsContract == Spec => ImplementsContract
BY InitContract, NextContract, OrderInvariance, PTL
   DEF Spec, ImplementsContract, Contract!Spec
=============================================================================
