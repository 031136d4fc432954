----------------------------- MODULE MultiStream -----------------------------
(***************************************************************************)
(* The multi-stream workload (workload/streams.rs, run_multi_stream, and   *)
(* its caller run_multistream_scenario in commands.rs): a sender and a     *)
(* receiver thread for every stream, two flags set by the main thread, and *)
(* the verdict on the safety streams computed from what was received.      *)
(* Messages are numbered from 0 in every stream.  A multi-stream scenario  *)
(* runs over TCP and no impairment is installed for it: the path keeps the *)
(* order of messages and holds StreamCapacity of them.  It may lose some   *)
(* and damage some, and either end of it may break at any time.            *)
(***************************************************************************)
EXTENDS FlowMetrics

CONSTANTS
    Streams,        \* 1 .. the number of streams of the scenario
    TrafficClass,   \* the canonical class of each
    MaxMsgs,        \* bound: messages a stream sends
    StreamCapacity        \* messages the path of a stream holds

ASSUME StreamsAssumption ==
    /\ IsFiniteSet(Streams) /\ Streams = 1 .. Cardinality(Streams) /\ Streams # {}
    /\ TrafficClass \in [Streams -> {"safety", "normal"}]
    /\ MaxMsgs \in Nat \ {0} /\ StreamCapacity \in Nat \ {0}

VARIABLES
    clock,      \* main thread: "spawning", "warmup", "measuring", "stopping", "over", "failed"
    spawned,    \* streams whose threads are running
    joined,     \* streams whose threads have been joined
    tx,         \* sender threads: "none", "running", "sending" or "finished"
    rx,         \* receiver threads: "none", "checked" (the stop flag), "looping" or "finished"
    next_seq,        \* the next number of each sender
    inflight,   \* messages on the path of each stream
    cut,        \* streams whose sender has been told that its receiver is gone
    missed,     \* history: messages the path lost, or that arrived damaged and were rejected
    metrics,    \* numbers recorded by each receiver
    outcome     \* what the scenario reports

streamVars == <<clock, spawned, joined, tx, rx, next_seq, inflight, cut, missed, metrics, outcome>>

StreamsInit ==
    /\ clock = "spawning" /\ spawned = 0 /\ joined = 0
    /\ tx = [s \in Streams |-> "none"] /\ rx = [s \in Streams |-> "none"]
    /\ next_seq = [s \in Streams |-> 0]
    /\ inflight = [s \in Streams |-> << >>]
    /\ cut = {} /\ missed = [s \in Streams |-> {}]
    /\ metrics = [s \in Streams |-> << >>]
    /\ outcome = [recorded |-> FALSE, loss_free |-> FALSE]

\* The flags, as the threads load them.
recv_measuring == clock \in {"measuring", "stopping"}
stop == clock = "stopping"

(***************************************************************************)
(* The main thread.                                                        *)
(***************************************************************************)

\* Both threads of the next stream are spawned.
SpawnStream ==
    LET s == spawned + 1 IN
    /\ clock = "spawning" /\ s \in Streams
    /\ spawned' = s
    /\ tx' = [tx EXCEPT ![s] = "running"]
    /\ rx' = [rx EXCEPT ![s] = "looping"]
    /\ UNCHANGED <<clock, joined, next_seq, inflight, cut, missed, metrics, outcome>>

\* A thread cannot be spawned: the error is returned at once, with the threads of the
\* earlier streams running and the stop flag unset.
SpawnFails ==
    /\ clock = "spawning" /\ spawned + 1 \in Streams
    /\ clock' = "failed"
    /\ UNCHANGED <<spawned, joined, tx, rx, next_seq, inflight, cut, missed, metrics, outcome>>

Tick ==
    /\ \/ clock = "spawning" /\ spawned = Cardinality(Streams) /\ clock' = "warmup"
       \/ clock = "warmup" /\ clock' = "measuring"
       \/ clock = "measuring" /\ clock' = "stopping"
    /\ UNCHANGED <<spawned, joined, tx, rx, next_seq, inflight, cut, missed, metrics, outcome>>

Summary(s) == integrity(metrics[s])

Safety == {s \in Streams : TrafficClass[s] = "safety"}

\* Regression: the verdict is taken over all the streams.
safety_loss_free_AllStreams == \A s \in Streams : Summary(s).lost = 0

\* MultiStreamResult::from_streams.
safety_loss_free == \A s \in Safety : Summary(s).lost = 0

\* The sender of a stream is joined before its receiver, stream by stream.  The result is
\* recorded unless not even the best stream has received anything.
JoinStream ==
    LET s == joined + 1 IN
    /\ clock = "stopping" /\ s \in Streams
    /\ tx[s] = "finished" /\ rx[s] = "finished"
    /\ joined' = s
    /\ IF s = Cardinality(Streams)
       THEN /\ clock' = "over"
            /\ outcome' = [recorded |-> \E t \in Streams : metrics[t] # << >>,
                           loss_free |-> safety_loss_free]
       ELSE UNCHANGED <<clock, outcome>>
    /\ UNCHANGED <<spawned, tx, rx, next_seq, inflight, cut, missed, metrics>>

(***************************************************************************)
(* A sender: paced or blast, it looks at the stop flag before every        *)
(* message and leaves at the first error.                                  *)
(***************************************************************************)
\* The flag is loaded and then, in a step of its own, the message is sent.
TxChecks(s) ==
    /\ tx[s] = "running" /\ (stop \/ next_seq[s] < MaxMsgs)
    /\ tx' = [tx EXCEPT ![s] = IF stop THEN "finished" ELSE "sending"]
    /\ UNCHANGED <<clock, spawned, joined, rx, next_seq, inflight, cut, missed, metrics, outcome>>

\* A send into a full path blocks, and does not see the flag.
SendMsg(s) ==
    /\ tx[s] = "sending" /\ Len(inflight[s]) < StreamCapacity /\ s \notin cut
    /\ inflight' = [inflight EXCEPT ![s] = Append(@, next_seq[s])]
    /\ next_seq' = [next_seq EXCEPT ![s] = @ + 1]
    /\ tx' = [tx EXCEPT ![s] = "running"]
    /\ UNCHANGED <<clock, spawned, joined, rx, cut, missed, metrics, outcome>>

\* Whatever breaks the connection ends the sender.
SendFails(s) ==
    /\ tx[s] = "sending"
    /\ tx' = [tx EXCEPT ![s] = "finished"]
    /\ UNCHANGED <<clock, spawned, joined, rx, next_seq, inflight, cut, missed, metrics, outcome>>

(***************************************************************************)
(* A receiver: it leaves at the stop flag without draining the path.       *)
(***************************************************************************)
RxChecks(s) ==
    /\ rx[s] = "looping"
    /\ rx' = [rx EXCEPT ![s] = IF stop THEN "finished" ELSE "checked"]
    /\ UNCHANGED <<clock, spawned, joined, tx, next_seq, inflight, cut, missed, metrics, outcome>>

\* A message arrives, and the measuring flag is loaded after it.  One that was damaged on the
\* way is counted as an integrity failure: its number is not known.
RecvMsg(s) ==
    /\ rx[s] = "checked" /\ inflight[s] # << >>
    /\ inflight' = [inflight EXCEPT ![s] = Tail(@)]
    /\ \/ /\ metrics' = IF recv_measuring
                        THEN [metrics EXCEPT ![s] = Append(@, Head(inflight[s]))] ELSE metrics
          /\ UNCHANGED missed
       \/ /\ missed' = [missed EXCEPT ![s] = @ \cup {Head(inflight[s])}]
          /\ UNCHANGED metrics
    /\ rx' = [rx EXCEPT ![s] = "looping"]
    /\ UNCHANGED <<clock, spawned, joined, tx, next_seq, cut, outcome>>

\* The poll times out: nothing is there to be received.
RecvNothing(s) ==
    /\ rx[s] = "checked" /\ inflight[s] = << >>
    /\ rx' = [rx EXCEPT ![s] = "looping"]
    /\ UNCHANGED <<clock, spawned, joined, tx, next_seq, inflight, cut, missed, metrics, outcome>>

\* The path reports the end of the stream or an error, whatever is still on its way.
RecvEnds(s) ==
    /\ rx[s] = "checked"
    /\ rx' = [rx EXCEPT ![s] = "finished"]
    /\ UNCHANGED <<clock, spawned, joined, tx, next_seq, inflight, cut, missed, metrics, outcome>>

(***************************************************************************)
(* The path through the gateway.                                           *)
(***************************************************************************)
LoseMsg(s) ==
    /\ inflight[s] # << >>
    /\ missed' = [missed EXCEPT ![s] = @ \cup {Head(inflight[s])}]
    /\ inflight' = [inflight EXCEPT ![s] = Tail(@)]
    /\ UNCHANGED <<clock, spawned, joined, tx, rx, next_seq, cut, metrics, outcome>>

\* Regression: a receiver that leaves keeps its socket open.
SourceClosed_Never(s) == FALSE

\* The receiver has closed its source.
SourceClosed(s) == rx[s] = "finished"

RelaySourceClose(s) ==
    /\ SourceClosed(s) /\ s \notin cut
    /\ cut' = cut \cup {s}
    /\ UNCHANGED <<clock, spawned, joined, tx, rx, next_seq, inflight, missed, metrics, outcome>>

StreamsMain == SpawnStream \/ SpawnFails \/ Tick \/ JoinStream

StreamsNext ==
    \/ StreamsMain
    \/ \E s \in Streams :
         \/ TxChecks(s) \/ SendMsg(s) \/ SendFails(s) \/ RxChecks(s) \/ RecvMsg(s)
         \/ RecvNothing(s) \/ RecvEnds(s) \/ LoseMsg(s) \/ RelaySourceClose(s)

StreamsSpec == StreamsInit /\ [][StreamsNext]_streamVars

\* The threads run and the gateway relays a close, which makes a send fail.  Without the
\* latter nothing ends a send into a full path: a multi-stream scenario has no watchdog.
StreamsFairness ==
    /\ WF_streamVars(StreamsMain)
    /\ \A s \in Streams :
         /\ WF_streamVars(TxChecks(s))
         /\ WF_streamVars(SendMsg(s) \/ (s \in cut /\ SendFails(s)))
         /\ WF_streamVars(RxChecks(s)) /\ WF_streamVars(RecvMsg(s) \/ RecvNothing(s))
         /\ WF_streamVars(RelaySourceClose(s))

(***************************************************************************)
(* Properties.                                                             *)
(***************************************************************************)

\* What was lost or damaged between the first and the last recorded message of a stream.
MissedWithin(s) ==
    LET got == Range(metrics[s]) IN
    {n \in missed[s] : got # {} /\ Min(got) < n /\ n < Max(got)}

\* The verdict on the safety streams is exact for what lies between the first and the last
\* message each of them recorded: it is loss-free iff nothing there was lost, and nothing
\* there was damaged either, although the receivers start recording and leave at moments of
\* their own: what was in flight at either edge is never reported as lost.
\* Beyond those edges the verdict says nothing: a safety stream that recorded nothing
\* passes as long as another stream recorded something.
SafetyVerdictExact ==
    clock = "over" => (outcome.loss_free <=> \A s \in Safety : MissedWithin(s) = {})

\* A multi-stream run returns to its caller, with every thread joined or with an error.
StreamsEnd == <>(clock \in {"over", "failed"})
===============================================================================
