------------------------------ MODULE ConnRate ------------------------------
(***************************************************************************)
(* The connection-rate engine (run/engine.rs, run_scenario_connrate) over  *)
(* its two harnesses: loopback TCP (transport/tcp.rs), where the kernel    *)
(* completes the handshake, and a gateway path (transport/gateway.rs),     *)
(* where a connector writes a probe message and waits for the backend to   *)
(* close.  Connector threads churn connections, one acceptor thread takes  *)
(* them from the backlog and drops them, the main thread drives the phase, *)
(* joins the connectors, and then stops the acceptor.                      *)
(***************************************************************************)
EXTENDS GatewayPath

CONSTANTS
    Connectors,     \* connector threads
    Harnesses,      \* harnesses to explore: "direct" or "gateway"
    NChurnRuns,     \* runs of the scenario
    MaxChurn        \* bound: connections a connector opens in a run

ASSUME ChurnAssumption ==
    /\ IsFiniteSet(Connectors) /\ Harnesses \subseteq {"direct", "gateway"}
    /\ NChurnRuns \in Nat \ {0} /\ MaxChurn \in Nat \ {0}

VARIABLES
    harness,    \* the harness
    main,       \* "path", the phase, "stopping", "over" or "failed"
    churnRun,   \* the current run
    connector,  \* per thread: "loop", "waiting" or "finished"
    loaded,     \* per waiting thread: the phase it loaded before it connected
    attempts,   \* per thread: connections opened in this run
    acceptor,   \* "serving", "broken" or "stopped"
    served,     \* connections the acceptor has dropped while their connector is reading
    samples     \* handshakes recorded in this run: had the connection been served?

churnVars == <<harness, main, churnRun, connector, loaded, attempts, acceptor, served, samples>>

Phases == <<"warmup", "measure", "cooldown", "done">>

Churning == main \in {"warmup", "measure", "cooldown", "done", "stopping"}

ThreadsInit ==
    /\ connector = [k \in Connectors |-> "loop"]
    /\ loaded = [k \in Connectors |-> "none"]
    /\ attempts = [k \in Connectors |-> 0]
    /\ acceptor = "serving"
    /\ samples = {}

ChurnInit ==
    /\ harness \in Harnesses
    /\ PathInit(1, IF harness = "direct" THEN "ready" ELSE "starting")
    /\ main = "path" /\ churnRun = 1 /\ served = {}
    /\ ThreadsInit

\* The i-th connection of thread k in this run: threads and runs do not share any.
ChurnConnection(k, i) == Connection(1, k, (churnRun - 1) * MaxChurn + i)

\* The one it is working on.
Current(k) == ChurnConnection(k, attempts[k])

\* conn_harness succeeds and the threads are spawned, or the path did not come up.
SpawnThreads ==
    /\ main = "path" /\ stage \in {"ready", "failed"}
    /\ main' = IF stage = "ready" THEN "warmup" ELSE "failed"
    /\ UNCHANGED <<pathVars, harness, churnRun, connector, loaded, attempts, acceptor, served, samples>>

(***************************************************************************)
(* The main thread.                                                        *)
(***************************************************************************)
NextPhase ==
    /\ \E i \in 1 .. 3 : main = Phases[i] /\ main' = Phases[i + 1]
    /\ UNCHANGED <<pathVars, harness, churnRun, connector, loaded, attempts, acceptor, served, samples>>

\* Every connector has been joined.
Joined == \A k \in Connectors : connector[k] = "finished"

StopAcceptor ==
    /\ main = "done" /\ Joined
    /\ main' = "stopping"
    /\ UNCHANGED <<pathVars, harness, churnRun, connector, loaded, attempts, acceptor, served, samples>>

\* The acceptor is joined; the next run gets threads, and a loopback listener, of its own.
EndChurn ==
    /\ main = "stopping" /\ acceptor # "serving"
    /\ IF churnRun = NChurnRuns
       THEN /\ main' = "over"
            /\ UNCHANGED <<pathVars, churnRun, connector, loaded, attempts, acceptor, served, samples>>
       ELSE /\ main' = "warmup" /\ churnRun' = churnRun + 1
            /\ connector' = [k \in Connectors |-> "loop"]
            /\ loaded' = [k \in Connectors |-> "none"]
            /\ attempts' = [k \in Connectors |-> 0]
            /\ acceptor' = "serving" /\ served' = {} /\ samples' = {}
            /\ backlog' = IF harness = "direct" THEN [backlog EXCEPT ![1] = << >>] ELSE backlog
            /\ UNCHANGED <<lanes, stage, at, probes, transit, closed, eof, reset>>
    /\ UNCHANGED harness

(***************************************************************************)
(* A connector: connrate_client_loop and connect_once.                     *)
(***************************************************************************)
Opening(k) == ChurnConnection(k, attempts[k] + 1)

\* The phase is loaded, and then a connection is opened.
ConnectOnce(k) ==
    /\ Churning /\ connector[k] = "loop" /\ main # "done" /\ attempts[k] < MaxChurn
    /\ attempts' = [attempts EXCEPT ![k] = @ + 1]
    /\ \/ /\ connector' = [connector EXCEPT ![k] = "waiting"]
          /\ loaded' = [loaded EXCEPT ![k] = main]
          /\ IF harness = "gateway" THEN Connect(Opening(k))
             ELSE /\ backlog' = [backlog EXCEPT ![1] = Append(@, Opening(k))]
                  /\ UNCHANGED <<lanes, stage, at, probes, transit, closed, eof, reset>>
       \/ UNCHANGED <<pathVars, connector, loaded>>     \* the connect fails: back off and retry
    /\ UNCHANGED <<harness, main, churnRun, acceptor, served, samples>>

\* The read ends: at the close of the backend or of the gateway, at a reset, or at
\* RECV_POLL_TIMEOUT.  Its outcome is not looked at.  Through a gateway the write of the
\* probe message may have failed, and then nothing is recorded.
Returns(k) ==
    /\ Churning /\ connector[k] = "waiting"
    /\ connector' = [connector EXCEPT ![k] = "loop"]
    /\ \/ samples' = IF loaded[k] = "measure"
                     THEN samples \cup {Current(k) \in served}
                     ELSE samples
       \/ harness = "gateway" /\ UNCHANGED samples
    /\ loaded' = [loaded EXCEPT ![k] = "none"]
    /\ served' = served \ {Current(k)}
    /\ CloseAll({Current(k)})
    /\ UNCHANGED <<harness, main, churnRun, attempts, acceptor>>

Finishes(k) ==
    /\ main = "done" /\ connector[k] = "loop"
    /\ connector' = [connector EXCEPT ![k] = "finished"]
    /\ UNCHANGED <<pathVars, harness, main, churnRun, loaded, attempts, acceptor, served, samples>>

(***************************************************************************)
(* The acceptor: serve.  A gateway's connection is read from once, a       *)
(* loopback one is not; either is then dropped.                            *)
(***************************************************************************)
Reading == {Current(k) : k \in {j \in Connectors : connector[j] = "waiting"}}

Serve ==
    /\ Churning /\ acceptor = "serving" /\ backlog[1] # << >>
    /\ served' = served \cup ({Head(backlog[1])} \cap Reading)
    /\ Accept(1)
    /\ UNCHANGED <<harness, main, churnRun, connector, loaded, attempts, acceptor, samples>>

\* accept fails for good, or the stop flag is seen at the top of the loop.
ServeEnds ==
    /\ Churning /\ acceptor = "serving"
    /\ acceptor' = IF main = "stopping" THEN "stopped" ELSE "broken"
    /\ UNCHANGED <<pathVars, harness, main, churnRun, connector, loaded, attempts, served, samples>>

ChurnThreads ==
    \/ SpawnThreads \/ NextPhase \/ StopAcceptor \/ EndChurn
    \/ \E k \in Connectors : ConnectOnce(k) \/ Returns(k) \/ Finishes(k)
    \/ Serve
    \/ ServeEnds

ChurnNext ==
    \/ main = "path" /\ Starting(TRUE) /\ UNCHANGED churnVars
    \/ ChurnThreads
    \* what the acceptor reads makes no difference to it, so the relayed closes are left out
    \/ main \notin {"over", "failed"} /\ Forwards /\ UNCHANGED churnVars

cvars == <<pathVars, churnVars>>

ChurnSpec == ChurnInit /\ [][ChurnNext]_cvars

\* Every thread runs; reads and accepts are bounded by their poll timeouts.
ChurnFairness ==
    /\ WF_cvars(main = "path" /\ Starting(TRUE) /\ UNCHANGED churnVars)
    /\ WF_cvars(SpawnThreads \/ NextPhase \/ StopAcceptor \/ EndChurn)
    /\ \A k \in Connectors : WF_cvars(Finishes(k) \/ Returns(k))
    /\ WF_cvars(main = "stopping" /\ ServeEnds)

(***************************************************************************)
(* Properties.                                                             *)
(***************************************************************************)

\* A connection-rate run returns, even when the acceptor has lost its listener.
ChurnEnds == <>(main \in {"over", "failed"})

(***************************************************************************)
(* What the repository's comments say and the code does not do.            *)
(***************************************************************************)

\* transport/gateway.rs, comment of GatewayConnFactory: the probe write and the EOF "make the
\* returned time a completed-path handshake": a handshake recorded through a gateway is one
\* whose connection the backend has taken and closed.  connect_once discards the outcome of
\* its read, so a timeout and a reset count as well.
HandshakeCompletesPath == harness = "gateway" => FALSE \notin samples
===============================================================================
