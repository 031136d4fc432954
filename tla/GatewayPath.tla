----------------------------- MODULE GatewayPath -----------------------------
(***************************************************************************)
(* The connections of a gateway path between its ingress listeners and the *)
(* harness's backend listeners (transport/gateway.rs, transport/tproxy.rs, *)
(* gateway/process.rs).  A lane is one rule pair: a single path has one, a *)
(* multi-stream path one per traffic class.                                *)
(*                                                                         *)
(* A connection accepted at the ingress is in transit until the gateway    *)
(* has opened the matching one to the backend, where it waits in the       *)
(* listener's backlog.  The gateway forwards in no particular order and    *)
(* reports the close of a client only after a while, as an end of stream   *)
(* or as a reset.  wait_ready opens and drops throwaway connections at     *)
(* every listener until the path is up: they are forwarded like any other. *)
(***************************************************************************)
EXTENDS Integers, Sequences, FiniteSets

CONSTANTS
    MaxProbes   \* bound: readiness probes forwarded on one lane

ASSUME PathAssumption == MaxProbes \in Nat \ {0}

VARIABLES
    lanes,      \* the number of rule pairs of the path
    stage,      \* of the start: "starting", "draining", "ready" or "failed"
    at,         \* the lane drain_readiness_probes is working on
    probes,     \* probes opened on each lane
    transit,    \* connections the gateway has still to forward
    backlog,    \* per lane: forwarded connections not yet accepted
    closed,     \* of the connections not yet accepted: those whose client end is closed
    eof,        \* those whose backend end shows the end of the stream
    reset       \* and those whose backend end shows a reset

pathVars == <<lanes, stage, at, probes, transit, backlog, closed, eof, reset>>

Lanes == 1 .. lanes

Connection(lane, kind, n) == [lane |-> lane, kind |-> kind, n |-> n]

PathInit(n, first) ==
    /\ lanes = n
    /\ stage = first
    /\ at = 1
    /\ probes = [l \in Lanes |-> 0]
    /\ transit = {} /\ closed = {} /\ eof = {} /\ reset = {}
    /\ backlog = [l \in Lanes |-> << >>]

\* Connections that have been forwarded and not yet accepted.
Waiting == UNION {{backlog[l][i] : i \in DOMAIN backlog[l]} : l \in Lanes}

(***************************************************************************)
(* The harness's ends.                                                     *)
(***************************************************************************)

\* connect_timeout succeeds as soon as the ingress has accepted.
Connect(c) ==
    /\ transit' = transit \cup {c}
    /\ UNCHANGED <<lanes, stage, at, probes, backlog, closed, eof, reset>>

\* accept() returns the connection that has waited longest.
Accept(l) ==
    LET c == Head(backlog[l]) IN
    /\ backlog' = [backlog EXCEPT ![l] = Tail(@)]
    /\ closed' = closed \ {c} /\ eof' = eof \ {c} /\ reset' = reset \ {c}
    /\ UNCHANGED <<lanes, stage, at, probes, transit>>

\* The clients of these connections are dropped.
CloseAll(cs) ==
    /\ closed' = closed \cup (cs \cap (transit \cup Waiting))
    /\ UNCHANGED <<lanes, stage, at, probes, transit, backlog, eof, reset>>

(***************************************************************************)
(* Starting: start_path, then drain_readiness_probes.                      *)
(***************************************************************************)

\* all_listeners_up connects to a listener and drops the stream; it starts again from
\* the first listener as long as a later one is not up.
ProbeListener(l) ==
    LET c == Connection(l, "probe", probes[l] + 1) IN
    /\ stage = "starting" /\ probes[l] < MaxProbes
    /\ probes' = [probes EXCEPT ![l] = @ + 1]
    /\ transit' = transit \cup {c}
    /\ closed' = closed \cup {c}
    /\ UNCHANGED <<lanes, stage, at, backlog, eof, reset>>

\* Every gateway is ready.  The transparent transport does not drain.
ListenersUp(drains) ==
    /\ stage = "starting" /\ \A l \in Lanes : probes[l] > 0
    /\ stage' = IF drains THEN "draining" ELSE "ready"
    /\ UNCHANGED <<lanes, at, probes, transit, backlog, closed, eof, reset>>

\* A gateway exits during its start or is not ready in time.
StartFails ==
    /\ stage = "starting" /\ stage' = "failed"
    /\ UNCHANGED <<lanes, at, probes, transit, backlog, closed, eof, reset>>

\* Everything that arrives before the first client is accepted and dropped.
DrainAccept ==
    /\ stage = "draining" /\ backlog[at] # << >>
    /\ Accept(at)

\* Nothing is waiting and READINESS_DRAIN_TIMEOUT has passed: on to the next lane.
DrainEnds ==
    /\ stage = "draining" /\ backlog[at] = << >>
    /\ IF at = lanes THEN stage' = "ready" /\ UNCHANGED at
                      ELSE at' = at + 1 /\ UNCHANGED stage
    /\ UNCHANGED <<lanes, probes, transit, backlog, closed, eof, reset>>

(***************************************************************************)
(* The gateway, as the harness sees it.                                    *)
(***************************************************************************)
Forward(c) ==
    /\ c \in transit
    /\ transit' = transit \ {c}
    /\ backlog' = [backlog EXCEPT ![c.lane] = Append(@, c)]
    /\ UNCHANGED <<lanes, stage, at, probes, closed, eof, reset>>

\* A connection whose client has gone need not be forwarded at all.
GiveUp(c) ==
    /\ c \in transit \cap closed
    /\ transit' = transit \ {c}
    /\ closed' = closed \ {c}
    /\ UNCHANGED <<lanes, stage, at, probes, backlog, eof, reset>>

\* The close of the client reaches the backend end while the connection waits there.
RelayClose(c) ==
    /\ c \in (closed \cap Waiting) \ (eof \cup reset)
    /\ \/ eof' = eof \cup {c} /\ UNCHANGED reset
       \/ reset' = reset \cup {c} /\ UNCHANGED eof
    /\ UNCHANGED <<lanes, stage, at, probes, transit, backlog, closed>>

Forwards == \E c \in transit : Forward(c) \/ GiveUp(c)

Gateway == Forwards \/ \E c \in closed : RelayClose(c)

Starting(drains) ==
    \/ \E l \in Lanes : ProbeListener(l)
    \/ ListenersUp(drains) \/ StartFails \/ DrainAccept \/ DrainEnds

===============================================================================
