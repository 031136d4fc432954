------------------------------ MODULE PingPong ------------------------------
(***************************************************************************)
(* One closed-loop run of the benchmark engine (run/engine.rs,             *)
(* run_once_pingpong): a client thread per connection sends a message,     *)
(* waits for its echo and records the round-trip time; an echo thread      *)
(* bounces every message back.  The transport kinds are                    *)
(*   "stream"   TCP: blocking sends, in order, lossless, close is visible; *)
(*   "datagram" UDP: a send always succeeds, overflow and loss are silent  *)
(*            (only on the loopback, which neither reorders nor duplicates:  *)
(*            a UDP gateway has no echo path);                               *)
(*   "ring"     SHM: the gateway itself relays the request ring to the     *)
(*              response ring, the echo thread is a stub that only waits   *)
(*              for the end of the run, and a full ring is WouldBlock.     *)
(*                                                                         *)
(* A receive that times out makes the client send the same sequence number *)
(* again, with a fresh start time; every send has an identity of its own   *)
(* here, so that an echo can be told from the one the client waits for.    *)
(***************************************************************************)
EXTENDS FlowMetrics

CONSTANTS
    Kinds,          \* transport kinds to explore
    Gateways,       \* does the path run through gateway processes?
    Capacity,       \* messages one direction can hold in flight
    MaxSends,       \* bound: sends per run
    MaxFaults       \* bound: messages the path chooses to lose or damage

ASSUME ModesAssumption ==
    Kinds \subseteq {"stream", "datagram", "ring"} /\ Gateways \subseteq BOOLEAN
ASSUME BoundsAssumption ==
    Capacity \in Nat \ {0} /\ MaxSends \in Nat /\ MaxFaults \in Nat

VARIABLES
    mode,       \* transport kind and whether there is a gateway
    phase,      \* the AtomicU8 phase flag
    main,       \* program counter of the main thread
    client,     \* program counter of the client thread
    seq,        \* client: sequence number of the next message
    measuring,  \* client: the phase it loaded before the send was MEASURE
    sends,      \* client: sends accepted so far; the current one has this identity
    timeouts,   \* client: receives that timed out and were followed by another send
    samples,    \* client: FlowMetrics, the echoes recorded
    req, resp,  \* messages in flight in each direction
    lost,       \* identities of the sends whose echo the path lost
    bad,        \* sequence numbers whose echo arrived damaged
    net,        \* health of the path: "up", "stalled" or "broken"
    server,     \* program counter of the echo thread
    held        \* echo thread: the message it received and has not sent back yet

clientVars == <<client, seq, measuring, sends, timeouts, samples>>
serverVars == <<server, held>>
mainVars   == <<phase, main>>
pathVars   == <<req, resp, lost, net>>
vars       == <<mode, mainVars, clientVars, pathVars, bad, serverVars>>

PHASE_WARMUP   == 0
PHASE_MEASURE  == 1
PHASE_COOLDOWN == 2
PHASE_DONE     == 3

Message == [seq : Nat, id : Nat]

Init ==
    /\ mode \in {m \in [kind : Kinds, gateway : Gateways] :
                    /\ m.kind = "ring" => m.gateway
                    /\ m.kind = "datagram" => ~m.gateway}
    /\ phase = PHASE_WARMUP /\ main = "warmup"
    /\ client = "top" /\ seq = 0 /\ measuring = FALSE /\ sends = 0 /\ timeouts = 0
    /\ samples = << >>
    /\ req = << >> /\ resp = << >> /\ lost = {} /\ bad = {} /\ net = "up"
    /\ server = "recv" /\ held = << >>

(***************************************************************************)
(* The main thread, once every pair is connected and its threads spawned.  *)
(***************************************************************************)
NextPhase(from, stored, to) ==
    /\ main = from /\ phase' = stored /\ main' = to
    /\ UNCHANGED <<mode, clientVars, pathVars, bad, serverVars>>

StoreMeasure  == NextPhase("warmup", PHASE_MEASURE, "measure")
StoreCooldown == NextPhase("measure", PHASE_COOLDOWN, "cooldown")
StoreDone     == NextPhase("cooldown", PHASE_DONE, "join_clients")

\* The clients are joined first, for their metrics, and then the echo threads.
Join ==
    /\ \/ main = "join_clients" /\ client = "exited" /\ main' = "join_servers"
       \/ main = "join_servers" /\ server = "exited" /\ main' = "returned"
    /\ UNCHANGED <<mode, phase, clientVars, pathVars, bad, serverVars>>

MainStep == StoreMeasure \/ StoreCooldown \/ StoreDone \/ Join

(***************************************************************************)
(* The client thread: pingpong_client_loop.                                *)
(***************************************************************************)

\* The top of the loop: leave at DONE.
ClientTop ==
    /\ client = "top"
    /\ phase = PHASE_DONE \/ sends < MaxSends
    /\ client' = IF phase = PHASE_DONE THEN "exited" ELSE "load"
    /\ UNCHANGED <<mode, mainVars, seq, measuring, sends, timeouts, samples, pathVars, bad,
                   serverVars>>

\* A second load decides whether this round trip is measured.
ClientLoad ==
    /\ client = "load"
    /\ measuring' = (phase = PHASE_MEASURE)
    /\ client' = "send"
    /\ UNCHANGED <<mode, mainVars, seq, sends, timeouts, samples, pathVars, bad, serverVars>>

\* The message is sent: it is in flight, or a datagram path has dropped it.
ClientSend ==
    /\ client = "send"
    /\ sends' = sends + 1
    /\ \/ /\ Len(req) < Capacity /\ net # "broken"
          /\ req' = Append(req, [seq |-> seq, id |-> sends + 1])
          /\ UNCHANGED lost
       \/ /\ mode.kind = "datagram" /\ (Len(req) >= Capacity \/ net = "broken")
          /\ lost' = lost \cup {sends + 1}
          /\ UNCHANGED req
    /\ client' = "recv"
    /\ UNCHANGED <<mode, mainVars, seq, measuring, timeouts, samples, resp, bad, net, serverVars>>

\* The ring stays full for the whole poll window: leave at DONE, otherwise try again.
ClientWouldBlock ==
    /\ client = "send" /\ mode.kind = "ring"
    /\ Len(req) >= Capacity \/ net = "broken"
    /\ client' = IF phase = PHASE_DONE THEN "exited" ELSE "top"
    /\ UNCHANGED <<mode, mainVars, seq, measuring, sends, timeouts, samples, pathVars, bad,
                   serverVars>>

\* The connection is gone, as the client sees it.
ClientCut ==
    \/ net = "broken"
    \/ mode.kind = "stream" /\ server = "exited" /\ net = "up"

\* A send or a receive reports an error, or the end of the stream.
ClientError ==
    /\ client \in {"send", "recv"} /\ ClientCut
    /\ (client = "recv" /\ net = "up") => resp = << >>
    /\ client' = "exited"
    /\ UNCHANGED <<mode, mainVars, seq, measuring, sends, timeouts, samples, pathVars, bad,
                   serverVars>>

\* Regression: the sequence number is taken from the echo instead of advanced.
NextSeq_Copied(m) == m.seq

\* Any echo ends the round trip: the sequence number advances without a look at the header.
NextSeq(m) == seq + 1

\* Regression: the phase is loaded when the echo arrives.
Recordable_Late == phase # PHASE_WARMUP

\* Whether the round trip is recorded.
Recordable == measuring

\* An echo arrives, intact or damaged: it is recorded against the start time of the current
\* send, keyed by its own sequence number.
ClientRecv ==
    LET m == Head(resp) IN
    /\ client = "recv" /\ resp # << >> /\ net # "stalled"
    /\ \E good \in BOOLEAN :
         /\ good \/ (mode.gateway /\ Cardinality(lost) + Cardinality(bad) < MaxFaults)
         /\ samples' = IF Recordable /\ good
                       THEN Append(samples, [seq |-> m.seq, behind |-> sends - m.id,
                                             timeouts |-> timeouts,
                                             lostBefore |-> Cardinality({l \in lost : l < m.id}),
                                             late |-> phase > PHASE_MEASURE])
                       ELSE samples
         /\ bad' = IF good THEN bad ELSE bad \cup {m.seq}
    /\ seq' = NextSeq(m)
    /\ resp' = Tail(resp)
    /\ client' = "top"
    /\ UNCHANGED <<mode, mainVars, measuring, sends, timeouts, req, lost, net, serverVars>>

\* Regression: a timed-out client never looks at the phase, it only retries.
TimeoutLeaves_Never == FALSE

\* Whether a poll timeout ends the thread: a client or an echo thread leaves at DONE.
TimeoutLeaves == phase = PHASE_DONE

\* No echo within the poll window: leave at DONE, otherwise send the same number again.
ClientTimeout ==
    /\ client = "recv" /\ (resp = << >> \/ net = "stalled")
    /\ \/ TimeoutLeaves /\ client' = "exited" /\ UNCHANGED timeouts
       \/ phase # PHASE_DONE /\ client' = "top" /\ timeouts' = timeouts + 1
    /\ UNCHANGED <<mode, mainVars, seq, measuring, sends, samples, pathVars, bad, serverVars>>

ClientStep ==
    \/ ClientTop \/ ClientLoad \/ ClientSend \/ ClientWouldBlock \/ ClientError
    \/ ClientRecv \/ ClientTimeout

(***************************************************************************)
(* The echo thread: echo_loop.                                             *)
(***************************************************************************)
ServerRecv ==
    /\ server = "recv" /\ mode.kind # "ring" /\ req # << >> /\ net # "stalled"
    /\ held' = <<Head(req)>>
    /\ req' = Tail(req)
    /\ server' = "echo"
    /\ UNCHANGED <<mode, mainVars, clientVars, resp, lost, bad, net>>

\* Regression: the echo is sent twice, as a retry that does not know the first one left.
Echo_Twice(m) == <<m, m>>

\* What the echo thread puts on the connection for a message it received.
Echo(m) == <<m>>

\* The message goes back, or a datagram path drops it.
ServerEcho ==
    /\ server = "echo"
    /\ \/ /\ Len(resp) < Capacity /\ net # "broken"
          /\ resp' = resp \o Echo(Head(held))
          /\ UNCHANGED lost
       \/ /\ mode.kind = "datagram" /\ (Len(resp) >= Capacity \/ net = "broken")
          /\ lost' = lost \cup {Head(held).id}
          /\ UNCHANGED resp
    /\ held' = << >>
    /\ server' = "recv"
    /\ UNCHANGED <<mode, mainVars, clientVars, req, bad, net>>

\* The thread leaves: a poll timeout at DONE, the end of the stream, or an error.
ServerExit ==
    /\ \/ /\ server = "recv" /\ TimeoutLeaves
          /\ req = << >> \/ net = "stalled" \/ mode.kind = "ring"
       \/ /\ server = "recv" /\ mode.kind = "stream" /\ client = "exited"
          /\ req = << >> /\ net = "up"
       \/ /\ server = "recv" /\ mode.kind # "ring" /\ net = "broken"
       \/ /\ server = "echo"
          /\ \/ net = "broken"
             \/ mode.kind = "stream" /\ client = "exited" /\ net = "up"
    /\ server' = "exited"
    /\ UNCHANGED <<mode, mainVars, clientVars, pathVars, bad, held>>

ServerStep == ServerRecv \/ ServerEcho \/ ServerExit

(***************************************************************************)
(* The path under test.                                                    *)
(***************************************************************************)

\* On the ring transport the gateway relays the request ring to the response ring.
Relay ==
    /\ mode.kind = "ring" /\ net = "up"
    /\ req # << >> /\ Len(resp) < Capacity
    /\ resp' = Append(resp, Head(req)) /\ req' = Tail(req)
    /\ UNCHANGED <<mode, mainVars, clientVars, lost, bad, net, serverVars>>

\* A datagram path loses the next message in either direction.
Lose ==
    /\ mode.kind = "datagram" /\ Cardinality(lost) + Cardinality(bad) < MaxFaults
    /\ \/ req # << >> /\ lost' = lost \cup {Head(req).id} /\ req' = Tail(req) /\ UNCHANGED resp
       \/ resp # << >> /\ lost' = lost \cup {Head(resp).id} /\ resp' = Tail(resp)
          /\ UNCHANGED req
    /\ UNCHANGED <<mode, mainVars, clientVars, bad, net, serverVars>>

\* The gateway stops relaying, or resets the connection.
GatewayFault ==
    /\ mode.gateway /\ net = "up" /\ main # "returned"
    /\ net' \in {"stalled", "broken"}
    /\ UNCHANGED <<mode, mainVars, clientVars, req, resp, lost, bad, serverVars>>

\* The watchdog's budget runs out while main still joins: the gateway is killed.
WatchdogKill ==
    /\ mode.gateway /\ net # "broken" /\ main \in {"join_clients", "join_servers"}
    /\ net' = "broken"
    /\ UNCHANGED <<mode, mainVars, clientVars, req, resp, lost, bad, serverVars>>

EnvStep == Relay \/ Lose \/ GatewayFault \/ WatchdogKill

Finished == main = "returned" /\ UNCHANGED vars

Next == MainStep \/ ClientStep \/ ServerStep \/ EnvStep \/ Finished

Spec == Init /\ [][Next]_vars

\* The threads run, the sleeps end and the watchdog's clock runs; the path need not
\* deliver anything.
ThreadsRun ==
    WF_vars(MainStep) /\ WF_vars(ClientStep) /\ WF_vars(ServerStep) /\ WF_vars(WatchdogKill)

FairSpec == Spec /\ ThreadsRun

(***************************************************************************)
(* Properties.                                                             *)
(***************************************************************************)

\* Type invariant of a closed-loop run; at most one message is in the echo thread's hands.
TypeOK ==
    /\ phase \in PHASE_WARMUP .. PHASE_DONE
    /\ main \in {"warmup", "measure", "cooldown", "join_clients", "join_servers", "returned"}
    /\ client \in {"top", "load", "send", "recv", "exited"}
    /\ seq \in Nat /\ measuring \in BOOLEAN /\ sends \in Nat /\ timeouts \in Nat
    /\ samples \in Seq([seq : Nat, behind : Nat, timeouts : Nat, lostBefore : Nat,
                        late : BOOLEAN])
    /\ req \in Seq(Message) /\ resp \in Seq(Message)
    /\ Len(req) <= Capacity /\ Len(resp) <= Capacity
    /\ lost \subseteq Nat /\ bad \subseteq Nat /\ net \in {"up", "stalled", "broken"}
    /\ server \in {"recv", "echo", "exited"} /\ held \in Seq(Message) /\ Len(held) <= 1

\* What a sample measures.  A sample's echo answers the send made d sends before the one it
\* is timed against, where d is the number of timeouts so far less the number of earlier
\* sends whose echo was really lost: a timeout that was only a delay is never made up for,
\* and without any the round trip is the message's own.
EchoDebt ==
    \A i \in DOMAIN samples : samples[i].behind = samples[i].timeouts - samples[i].lostBefore

\* The echoes recorded never go backwards, and while no receive has timed out the integrity
\* counters of metrics/app.rs are exact: no duplicate, and as many lost as were damaged.
IntegrityExactWithoutTimeouts ==
    LET nums == [i \in DOMAIN samples |-> samples[i].seq]
        rep  == integrity(nums)
    IN  /\ rep.reordered = 0
        /\ timeouts = 0 => /\ rep.duplicate = 0
                           /\ nums # << >> =>
                                rep.lost = Cardinality(bad \cap (Min(Range(nums)) .. Max(Range(nums))))

\* The measure window leaks by at most one round trip: the phase is loaded before the send
\* and used after the echo, so at most one sample is recorded after COOLDOWN was stored.
OneLateSample == Cardinality({i \in DOMAIN samples : samples[i].late}) <= 1

\* A ping-pong run returns, whatever the path loses, delays or cuts.
RunReturns == <>(main = "returned")
===============================================================================
