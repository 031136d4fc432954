---------------------------- MODULE MCTransports ----------------------------
(* What carries the messages of a run, on small instances.  A behaviour is of one of     *)
(* three parts, and the others are at rest in it: a byte stream between two endpoints    *)
(* (messages of 3 bytes with a 2-byte header, so that headers and payloads are split by  *)
(* reads, and a buffer of two frames that must compact), the pairs of a gateway path,    *)
(* and its connection churn.                                                             *)
EXTENDS StreamFraming, GatewayEndpoints, ConnRate

transportVars == <<vars, pathVars, pairVars, churnVars>>

NoFraming ==
    /\ total = [k \in Numbers |-> MessageBytes] /\ blocking = TRUE
    /\ tx = "closed" /\ seq = 0 /\ msgs = 0 /\ idx = 0 /\ off = 0
    /\ wire = << >> /\ rst = FALSE
    /\ rx = "closed" /\ buf = [i \in Slots |-> 0] /\ start = 0 /\ end = 0
    /\ count = 0 /\ frames = << >>

NoPath == PathInit(1, "failed")

NoPairs ==
    /\ carrier = "tcp" /\ pc = "over" /\ run = 1 /\ opened = << >> /\ next_conn = 0
    /\ registry = {} /\ mistaken = {} /\ quiet = TRUE

NoChurn ==
    /\ harness = "gateway" /\ main = "over" /\ churnRun = 1 /\ served = {} /\ samples = {}
    /\ connector = [k \in Connectors |-> "finished"]
    /\ loaded = [k \in Connectors |-> "none"]
    /\ attempts = [k \in Connectors |-> 0]
    /\ acceptor = "stopped"

TransportInit ==
    \/ Init /\ NoPath /\ NoPairs /\ NoChurn
    \/ PairsInit /\ NoFraming /\ NoChurn
    \/ ChurnInit /\ NoFraming /\ NoPairs

TransportNext ==
    \/ Next /\ UNCHANGED <<pathVars, pairVars, churnVars>>
    \/ pc # "over" /\ PairsNext /\ UNCHANGED <<vars, churnVars>>
    \/ main # "over" /\ ChurnNext /\ UNCHANGED <<vars, pairVars>>

TransportSpec ==
    /\ TransportInit /\ [][TransportNext]_transportVars
    /\ WF_vars(RxStep) /\ PairsFairness /\ ChurnFairness

\* Every use of a path returns to its caller, whatever the other side does: opening pairs
\* ends with all runs done or with an error, and a connection-rate run returns even when its
\* acceptor has lost its listener (accept_forwarded, run_once_connrate).
EndpointsReturn == PairsEnd /\ ChurnEnds
===============================================================================
