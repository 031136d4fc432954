----------------------------- MODULE MCWorkloads -----------------------------
(* The workloads other than the open-loop run, on small instances: a behaviour is a *)
(* closed-loop run, a multi-stream run or a distributed run, and the other two are  *)
(* at rest in it.                                                                   *)
EXTENDS PingPong, MultiStream, Distributed

workVars == <<vars, streamVars, distVars>>

MCTrafficClass == [s \in Streams |-> IF s = 1 THEN "safety" ELSE "normal"]

NoPingPong ==
    /\ mode = [kind |-> "datagram", gateway |-> FALSE]
    /\ phase = PHASE_DONE /\ main = "returned"
    /\ client = "exited" /\ seq = 0 /\ measuring = FALSE /\ sends = 0 /\ timeouts = 0
    /\ samples = << >>
    /\ req = << >> /\ resp = << >> /\ lost = {} /\ bad = {} /\ net = "up"
    /\ server = "exited" /\ held = << >>

NoStreams ==
    /\ clock = "over" /\ spawned = 0 /\ joined = 0
    /\ tx = [s \in Streams |-> "none"] /\ rx = [s \in Streams |-> "none"]
    /\ next_seq = [s \in Streams |-> 0] /\ inflight = [s \in Streams |-> << >>]
    /\ cut = {} /\ missed = [s \in Streams |-> {}] /\ metrics = [s \in Streams |-> << >>]
    /\ outcome = [recorded |-> FALSE, loss_free |-> TRUE]

NoHosts ==
    /\ sender = "over" /\ receiver = "over" /\ listening = FALSE
    /\ writer = [l \in Links |-> "none"] /\ written = [l \in Links |-> 0] /\ counted = 0
    /\ queue = << >> /\ conns = << >> /\ reading = 1
    /\ buffered = [l \in Links |-> << >>] /\ dropped = {} /\ early = {}
    /\ report = [l \in Links |-> << >>]

WorkInit ==
    \/ Init /\ NoStreams /\ NoHosts
    \/ StreamsInit /\ NoPingPong /\ NoHosts
    \/ DistInit /\ NoPingPong /\ NoStreams

WorkNext ==
    \/ Next /\ UNCHANGED <<streamVars, distVars>>
    \/ StreamsNext /\ UNCHANGED <<vars, distVars>>
    \/ DistNext /\ UNCHANGED <<vars, streamVars>>

WorkSpec ==
    /\ WorkInit /\ [][WorkNext]_workVars
    /\ ThreadsRun /\ StreamsFairness /\ DistFairness

\* Both workloads with two sides return: run_multi_stream with all its threads joined or
\* with an error, and the two programs of a distributed run, although neither waits for the
\* other.  The gateway of a multi-stream run is assumed to relay the close of a connection.
WorkloadsReturn == StreamsEnd /\ BothReturn
===============================================================================
