-------------------------- MODULE SessionContract --------------------------
(***************************************************************************)
(* What a bridge session promises to the code that uses it, without pipes, *)
(* processes or callers: requests are numbered as they are issued, an      *)
(* unusable session issues none, a write is acknowledged only once the     *)
(* server has it, and a closed session changes nothing any more.           *)
(***************************************************************************)
EXTENDS Naturals

VARIABLES
    status,  \* "Open", "Poisoned" or "Closed"
    issued,  \* how many requests have been issued
    server,  \* the requests whose write reached the server
    acked    \* the writes reported as done

contractVars == <<status, issued, server, acked>>

Init == status = "Open" /\ issued = 0 /\ server = {} /\ acked = {}

\* A request may find the bridge gone and ruin the session.
Issue ==
    /\ status = "Open"
    /\ issued' = issued + 1
    /\ status' \in {"Open", "Poisoned", "Closed"}
    /\ UNCHANGED <<server, acked>>

\* Writes reach the server at any moment until the session is closed: before
\* their answer, or after the caller was told that they failed.
Deliver ==
    /\ status # "Closed"
    /\ \E S \in SUBSET (1..issued) : server' = server \cup S
    /\ UNCHANGED <<status, issued, acked>>

Acknowledge ==
    /\ status = "Open"
    /\ \E w \in server : acked' = acked \cup {w}
    /\ UNCHANGED <<status, issued, server>>

Poison ==
    /\ status = "Open"
    /\ status' = "Poisoned"
    /\ UNCHANGED <<issued, server, acked>>

Close ==
    /\ status # "Closed"
    /\ status' = "Closed"
    /\ UNCHANGED <<issued, server, acked>>

Next == Issue \/ Deliver \/ Acknowledge \/ Poison \/ Close

Spec == Init /\ [][Next]_contractVars
=============================================================================
