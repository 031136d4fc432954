-------------------------- MODULE GatewayEndpoints --------------------------
(***************************************************************************)
(* How the run engine gets its connected pairs from a gateway path: one    *)
(* run after the other, one connection after the other, on a single        *)
(* thread.  A TCP or transparent transport connects the sender to the      *)
(* ingress and takes the connection that the gateway forwards to its       *)
(* backend listener for the receiver (transport/gateway.rs, tproxy.rs); a  *)
(* UDS or SHM transport asks the management interface for two endpoints    *)
(* (transport/uds.rs, shm.rs).  The gateway keeps one endpoint for each    *)
(* (application id, direction) and drops the one that is registered twice. *)
(***************************************************************************)
EXTENDS GatewayPath

CONSTANTS
    Carriers,   \* transports to explore: "tcp", "classes", "tproxy" or "local"
    NConns,     \* connections of a run
    NRuns,      \* runs on the same transport
    NClasses    \* traffic classes of a multi-stream path

ASSUME EndpointsAssumption ==
    /\ Carriers \subseteq {"tcp", "classes", "tproxy", "local"}
    /\ NConns \in Nat \ {0} /\ NRuns \in Nat \ {0} /\ NClasses \in Nat \ {0}

VARIABLES
    carrier,    \* the transport
    pc,         \* "path", "open", "accept", "encrypt", "traffic", "over" or "failed"
    run,        \* the current run
    opened,     \* the pairs of this run, in the order they were opened
    next_conn,  \* local transport: pipelines handed out so far
    registry,   \* local transport: endpoints the gateway keeps, with their owners
    mistaken,   \* history: connections taken although their client had closed them
    quiet       \* history: had every probe been dealt with when the path was ready?

pairVars == <<carrier, pc, run, opened, next_conn, registry, mistaken, quiet>>

PairsTypeOK ==
    /\ pc \in {"path", "open", "accept", "encrypt", "traffic", "over", "failed"}
    /\ run \in 1 .. NRuns /\ Len(opened) <= NConns /\ next_conn \in 0 .. NConns * NRuns

PairsInit ==
    /\ carrier \in Carriers
    /\ PathInit(IF carrier = "classes" THEN NClasses ELSE 1,
                IF carrier = "local" THEN "ready" ELSE "starting")
    /\ pc = IF carrier = "local" THEN "open" ELSE "path"
    /\ run = 1 /\ opened = << >> /\ next_conn = 0
    /\ registry = {} /\ mistaken = {} /\ quiet = TRUE

Fail == pc' = "failed" /\ UNCHANGED <<carrier, run, opened, next_conn, registry, mistaken, quiet>>

\* The path is ready: the run engine starts to open its connections.
Ready ==
    /\ pc = "path" /\ stage = "ready"
    /\ pc' = "open"
    /\ quiet' = (transit \cup Waiting = {})
    /\ UNCHANGED <<pathVars, carrier, run, opened, next_conn, registry, mistaken>>

NotReady == pc = "path" /\ stage = "failed" /\ Fail /\ UNCHANGED pathVars

(***************************************************************************)
(* loopback_pair, pingpong_pair and pair_for_class of the TCP transports.  *)
(***************************************************************************)
\* The lane of the i-th connection: pair_for_class looks its traffic class up.
LaneOf(i) == ((i - 1) % lanes) + 1

\* The connection of the i-th client of a run.
Client(r, i) == Connection(LaneOf(i), "client", (r - 1) * NConns + i)

This == Len(opened) + 1

\* The client of the next pair, and of the pair that is being opened.
Mine == Client(run, This)

OpenPair ==
    /\ pc = "open" /\ carrier # "local" /\ This <= NConns
    /\ Connect(Mine)
    /\ pc' = "accept"
    /\ UNCHANGED <<carrier, run, opened, next_conn, registry, mistaken, quiet>>

ConnectFails == pc = "open" /\ This <= NConns /\ carrier # "local" /\ Fail /\ UNCHANGED pathVars

\* Regression: a connection at its end is taken like any other.
Skips_Nothing(c) == FALSE

\* A connection that is at its end already is the rest of a readiness probe.
Skips(c) == c \in eof

\* The transparent transport takes a connection that has been reset, the others give up.
Refuses(c) == c \in reset /\ carrier # "tproxy"

AcceptSkips ==
    LET l == LaneOf(This) IN
    /\ pc = "accept" /\ backlog[l] # << >> /\ Skips(Head(backlog[l]))
    /\ Accept(l)
    /\ UNCHANGED pairVars

AcceptRefuses ==
    LET l == LaneOf(This) IN
    /\ pc = "accept" /\ backlog[l] # << >> /\ Refuses(Head(backlog[l]))
    /\ Accept(l)
    /\ Fail

\* Anything else is live: it has data, or nothing happened while it was peeked at.
AcceptTakes ==
    LET l == LaneOf(This)
        c == Head(backlog[l])
    IN  /\ pc = "accept" /\ backlog[l] # << >> /\ ~Skips(c) /\ ~Refuses(c)
        /\ Accept(l)
        /\ opened' = Append(opened, [sink |-> Mine, source |-> c])
        /\ mistaken' = IF c \in closed \ eof THEN mistaken \cup {c} ELSE mistaken
        /\ pc' = "open"
        /\ UNCHANGED <<carrier, run, next_conn, registry, quiet>>

\* Regression: accept_forwarded waits without a deadline.
AcceptTimesOut_Never == FALSE

\* ACCEPT_TIMEOUT passes.
AcceptTimesOut == pc = "accept" /\ Fail /\ UNCHANGED pathVars

(***************************************************************************)
(* loopback_pair and pingpong_pair of the UDS and SHM transports: the      *)
(* decrypt endpoint is created first, as the encrypt endpoint dials it.    *)
(***************************************************************************)

\* The suffix of the application id of pipeline i; the head is the scenario's.
conn_app_id(i) == i

\* provisioned_pipelines: one rule pair for every connection of every run.
Pipelines == NConns * NRuns

Templates == {conn_app_id(i) : i \in 0 .. Pipelines - 1}

\* Registering a key drops whoever had it.
Register(app, direction) ==
    registry' = {e \in registry : e.app # app \/ e.direction # direction}
                  \cup {[app |-> app, direction |-> direction, owner |-> Mine]}

CreateDecrypt ==
    /\ pc = "open" /\ carrier = "local" /\ This <= NConns
    /\ next_conn < Pipelines /\ conn_app_id(next_conn) \in Templates
    /\ Register(conn_app_id(next_conn), "decrypt")
    /\ next_conn' = next_conn + 1
    /\ pc' = "encrypt"
    /\ UNCHANGED <<pathVars, carrier, run, opened, mistaken, quiet>>

CreateEncrypt ==
    /\ pc = "encrypt"
    /\ Register(conn_app_id(next_conn - 1), "encrypt")
    /\ opened' = Append(opened, [sink |-> Mine, source |-> Mine])
    /\ pc' = "open"
    /\ UNCHANGED <<pathVars, carrier, run, next_conn, mistaken, quiet>>

\* No pipeline is left, or the management interface refuses.
CreateFails ==
    /\ \/ pc = "open" /\ carrier = "local" /\ This <= NConns
       \/ pc = "encrypt"
    /\ Fail
    /\ UNCHANGED pathVars

(***************************************************************************)
(* A run: the engine has its pairs, uses them and drops them.              *)
(***************************************************************************)
\* A multi-stream scenario is run once.
Runs == IF carrier = "classes" THEN 1 ELSE NRuns

RunTraffic ==
    /\ pc = "open" /\ This > NConns
    /\ pc' = "traffic"
    /\ UNCHANGED <<pathVars, carrier, run, opened, next_conn, registry, mistaken, quiet>>

EndRun ==
    /\ pc = "traffic"
    /\ CloseAll(IF carrier = "local" THEN {} ELSE {opened[i].sink : i \in DOMAIN opened})
    /\ IF run = Runs THEN pc' = "over" /\ UNCHANGED <<run, opened>>
                      ELSE pc' = "open" /\ run' = run + 1 /\ opened' = << >>
    /\ UNCHANGED <<carrier, next_conn, registry, mistaken, quiet>>

Harness ==
    \/ (pc = "path" /\ Starting(carrier # "tproxy") /\ UNCHANGED pairVars)
    \/ Ready \/ NotReady
    \/ OpenPair \/ ConnectFails \/ AcceptSkips \/ AcceptRefuses \/ AcceptTakes \/ AcceptTimesOut
    \/ CreateDecrypt \/ CreateEncrypt \/ CreateFails
    \/ RunTraffic \/ EndRun

PairsNext == Harness \/ (pc # "over" /\ Gateway /\ UNCHANGED pairVars)

PairsSpec == PairsInit /\ [][PairsNext]_<<pathVars, pairVars>>

\* The thread that opens the connections goes on; the gateway owes nothing.
PairsFairness == WF_<<pathVars, pairVars>>(Harness)

(***************************************************************************)
(* Properties.                                                             *)
(***************************************************************************)
Connected(pair) ==
    IF carrier = "local"
    THEN \A d \in {"encrypt", "decrypt"} : \E e \in registry : e.direction = d /\ e.owner = pair.sink
    ELSE pair.sink = pair.source

\* Every sender is connected to its own receiver, over all the runs of a transport: the
\* gateway forwards out of order, but one connection is opened at a time, and no pipeline
\* takes over the endpoints of another.  What can go wrong is named: a connection whose
\* client has closed it is taken for live while the close is on its way.  That takes a
\* readiness probe which the drain of a TCP path missed, and from then on the pairs of
\* that lane are out of step.
PairsMatch ==
    /\ \A i \in DOMAIN opened : Connected(opened[i]) \/
         \E c \in mistaken : carrier # "local" /\ c.lane = LaneOf(i)
    /\ carrier # "tproxy" /\ quiet => mistaken = {}

\* Opening and using the connections ends, with every run done or with an error, whatever
\* the gateway does: accept_forwarded has a deadline.
PairsEnd == <>(pc \in {"over", "failed"})
===============================================================================
