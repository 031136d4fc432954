------------------------------ MODULE RunEngine ------------------------------
(***************************************************************************)
(* One throughput run of the benchmark engine (run/engine.rs, run_once).   *)
(*                                                                         *)
(* The main thread connects every pair, spawns a receiver and a sender     *)
(* thread per connection, and then only moves the shared phase flag        *)
(* through WARMUP, MEASURE, COOLDOWN and DONE before it joins the senders  *)
(* and then the receivers.  Every other decision is taken by the worker    *)
(* threads from relaxed loads of that flag, so a load and the use of its   *)
(* result are separate steps here.                                         *)
(*                                                                         *)
(* A connection is a bounded FIFO of messages.  Its kind is what the       *)
(* transport under test does when the FIFO is full, when the peer is gone  *)
(* and when it loses data:                                                 *)
(*   "stream"   TCP and UDS sockets: blocking writes, lossless, end of     *)
(*              stream is visible to the receiver;                         *)
(*   "ring"     SHM rings: a full ring is reported as WouldBlock, and the  *)
(*              blast sender may build in place (supports_inplace);        *)
(*   "datagram" UDP: a send always succeeds, overflow and loss are silent, *)
(*              closing the sink is invisible to the receiver.             *)
(* A datagram path through a gateway may be shuffled besides: the netem    *)
(* impairment a gateway scenario installs reorders and duplicates, and all *)
(* the connections share one backend socket, so that a receiver may read   *)
(* what was sent on another connection.                                    *)
(***************************************************************************)
EXTENDS FlowMetrics, SequencesExt

CONSTANTS
    Conns,          \* the connections of the scenario (params.connections)
    Kinds,          \* transport kinds to explore
    Pacings,        \* sender patterns to explore: "paced" and/or "blast"
    Gateways,       \* {TRUE}, {FALSE} or both: does the path run through gateway processes?
    Shuffles,       \* {TRUE}, {FALSE} or both: does it reorder, duplicate and mix messages?
    Watchdog,       \* is the per-scenario watchdog armed on gateway paths?
    Capacity,       \* messages one connection can hold in flight
    TxBatch,        \* preferred_batch of the sink
    RxBatch,        \* preferred_batch of the source
    MaxMsgs,        \* bound: sequence numbers used per connection
    MaxSlots,       \* bound: pacer deadlines drawn per connection
    MaxFaults       \* bound: messages per connection the path chooses to lose or damage;
                    \* with 0 no gateway stalls or resets a connection either

ASSUME ConnsAssumption == IsFiniteSet(Conns) /\ Conns # {}
ASSUME ModesAssumption ==
    /\ Kinds \subseteq {"stream", "ring", "datagram"}
    /\ Pacings \subseteq {"paced", "blast"}
    /\ Gateways \subseteq BOOLEAN /\ Shuffles \subseteq BOOLEAN
    /\ Watchdog \in BOOLEAN
ASSUME BoundsAssumption ==
    /\ Capacity \in Nat \ {0} /\ TxBatch \in Nat \ {0} /\ RxBatch \in Nat \ {0}
    /\ MaxMsgs \in Nat /\ MaxSlots \in Nat /\ MaxFaults \in Nat

VARIABLES
    mode,       \* the scenario: transport kind, pacing, in-place flags, gateway or not
    phase,      \* the AtomicU8 phase flag
    main,       \* program counter of the main thread
    opened,     \* connections whose loopback_pair returned
    tx,         \* program counter of each sender thread
    seq,        \* sender: next sequence number to build
    sent,       \* sender: messages of the current batch already accepted
    slot,       \* sender: pacer deadlines drawn so far
    txMeasuring,\* sender: the phase it sampled after its sleep was MEASURE
    lag,        \* sender: number of SendLag samples
    chan,       \* messages in flight on the connection
    lost,       \* sequence numbers the connection lost or damaged
    net,        \* health of the path: "up", "stalled" or "broken"
    rx,         \* program counter of each receiver thread
    batch,      \* receiver: messages drained and not yet ingested
    rxMeasuring,\* receiver: the phase it loaded for this batch was MEASURE
    recorded,   \* FlowMetrics of the receiver: the messages recorded, in order
    failures    \* FlowMetrics of the receiver: integrity failures

mainVars == <<phase, main, opened>>
txVars   == <<tx, seq, sent, slot, txMeasuring, lag>>
rxVars   == <<rx, batch, rxMeasuring, recorded, failures>>
netVars  == <<chan, lost, net>>
vars     == <<mode, mainVars, txVars, netVars, rxVars>>

PHASE_WARMUP   == 0
PHASE_MEASURE  == 1
PHASE_COOLDOWN == 2
PHASE_DONE     == 3

Phases == PHASE_WARMUP .. PHASE_DONE

(***************************************************************************)
(* A message carries its sequence number and, on a paced run, the pacer    *)
(* slot whose deadline is its timestamp.  History: the phase in which the  *)
(* transport accepted it, whether the receiver drained it before MEASURE   *)
(* and whether it recorded it after MEASURE, whether it was accepted after *)
(* the last poll of a receiver that has timed out or is gone, and whether  *)
(* a shuffled path has moved it.                                           *)
(***************************************************************************)
Message == [seq : Nat, stamp : Nat, sentIn : Phases, early : BOOLEAN, late : BOOLEAN,
            intact : BOOLEAN, unpolled : BOOLEAN, moved : BOOLEAN]

NewMessage(c, s, stamp) ==
    [seq |-> s, stamp |-> stamp, sentIn |-> phase, early |-> FALSE, late |-> FALSE,
     intact |-> TRUE, unpolled |-> rx[c] \in {"timeout", "exited"}, moved |-> FALSE]

Modes ==
    {m \in [kind : Kinds, pacing : Pacings, inplace : BOOLEAN, inplaceRecv : BOOLEAN,
            gateway : Gateways, shuffled : Shuffles] :
        \* only the SHM slot ring builds in place, and receives in place (large messages)
        /\ m.inplace => m.kind = "ring"
        /\ m.inplaceRecv => m.inplace
        \* in-place building differs from copying only on the blast path
        /\ (m.inplace /\ m.pacing = "paced") => m.inplaceRecv
        \* netem shuffles gateway paths only, and TCP hides it; the UDP connections of a
        \* gateway path share a socket
        /\ m.shuffled => m.kind = "datagram" /\ m.gateway
        /\ (m.kind = "datagram" /\ m.gateway /\ Cardinality(Conns) > 1) => m.shuffled}

Init ==
    /\ mode \in Modes
    /\ phase = PHASE_WARMUP
    /\ main = "connect"
    /\ opened = {}
    /\ tx = [c \in Conns |-> "idle"]
    /\ seq = [c \in Conns |-> 0]
    /\ sent = [c \in Conns |-> 0]
    /\ slot = [c \in Conns |-> 0]
    /\ txMeasuring = [c \in Conns |-> FALSE]
    /\ lag = [c \in Conns |-> 0]
    /\ chan = [c \in Conns |-> << >>]
    /\ lost = [c \in Conns |-> {}]
    /\ net = [c \in Conns |-> "up"]
    /\ rx = [c \in Conns |-> "idle"]
    /\ batch = [c \in Conns |-> << >>]
    /\ rxMeasuring = [c \in Conns |-> FALSE]
    /\ recorded = [c \in Conns |-> << >>]
    /\ failures = [c \in Conns |-> 0]

(***************************************************************************)
(* The main thread: run_once.                                              *)
(***************************************************************************)

\* loopback_pair succeeds for one more connection, or fails and `?` drops them all.
Connect(c) ==
    /\ main = "connect" /\ c \notin opened
    /\ \/ opened' = opened \cup {c} /\ UNCHANGED main
       \/ opened' = {} /\ main' = "failed"
    /\ UNCHANGED <<mode, phase, txVars, netVars, rxVars>>

\* The receiver thread and the sender thread of one pair are spawned.
Spawn(c) ==
    /\ main \in {"connect", "spawn"} /\ opened = Conns /\ tx[c] = "idle"
    /\ rx' = [rx EXCEPT ![c] = "recv"]
    /\ tx' = [tx EXCEPT ![c] = "top"]
    /\ main' = IF \A d \in Conns \ {c} : tx[d] # "idle" THEN "warmup" ELSE "spawn"
    /\ UNCHANGED <<mode, phase, opened, seq, sent, slot, txMeasuring, lag, netVars,
                   batch, rxMeasuring, recorded, failures>>

\* The sleep of the current phase ends and the next phase is stored.
NextPhase(from, stored, to) ==
    /\ main = from
    /\ phase' = stored
    /\ main' = to
    /\ UNCHANGED <<mode, opened, txVars, netVars, rxVars>>

StoreMeasure  == NextPhase("warmup", PHASE_MEASURE, "measure")
StoreCooldown == NextPhase("measure", PHASE_COOLDOWN, "cooldown")
StoreDone     == NextPhase("cooldown", PHASE_DONE, "join_tx")

\* Senders are joined first, receivers second; then the metrics are aggregated.
JoinTx ==
    /\ main = "join_tx"
    /\ \A c \in Conns : tx[c] = "exited"
    /\ main' = "join_rx"
    /\ UNCHANGED <<mode, phase, opened, txVars, netVars, rxVars>>

\* Regression: receivers are detached instead of joined.
ReceiversJoined_Detached == TRUE

ReceiversJoined == \A c \in Conns : rx[c] = "exited"

JoinRx ==
    /\ main = "join_rx"
    /\ ReceiversJoined
    /\ main' = "returned"
    /\ UNCHANGED <<mode, phase, opened, txVars, netVars, rxVars>>

MainStep ==
    \/ \E c \in Conns : Connect(c) \/ Spawn(c)
    \/ StoreMeasure \/ StoreCooldown \/ StoreDone
    \/ JoinTx \/ JoinRx

(***************************************************************************)
(* The transport, as a sender sees it.                                     *)
(***************************************************************************)
\* What a shuffled path holds back comes on top of what the socket holds.
Room == IF mode.shuffled THEN Capacity + 1 ELSE Capacity

Full(c) == Len(chan[c]) >= Room

\* The transport takes message m: it is now in flight, or silently lost by a datagram path.
Accept(c, m) ==
    \/ /\ ~Full(c) /\ net[c] # "broken"
       /\ chan' = [chan EXCEPT ![c] = Append(@, m)]
       /\ UNCHANGED <<lost, net>>
    \/ /\ mode.kind = "datagram" /\ (Full(c) \/ net[c] = "broken")
       /\ lost' = [lost EXCEPT ![c] = @ \cup {m.seq}]
       /\ UNCHANGED <<chan, net>>

\* A send reports an error: the path is broken, or it relays that the receiver has closed
\* its end (a stalled gateway relays nothing).
SendFails(c) == net[c] = "broken" \/ (rx[c] = "exited" /\ net[c] = "up")

\* A send reports WouldBlock.  Sockets block instead, so only a ring does.
SendWouldBlock(c) == mode.kind = "ring" /\ (Full(c) \/ net[c] = "broken")

(***************************************************************************)
(* The sender thread: sender_loop.                                         *)
(***************************************************************************)

\* Leave the loop and close the sink.
TxExit(c) == tx' = [tx EXCEPT ![c] = "exited"]

\* The top of the loop, and the check after the sleep, see DONE.
TxDone(c) ==
    /\ tx[c] \in {"top", "asleep"}
    /\ phase = PHASE_DONE
    /\ TxExit(c)
    /\ UNCHANGED <<mode, mainVars, seq, sent, slot, txMeasuring, lag, netVars, rxVars>>

\* Regression: a deadline is handed out again, as if the pacer had not advanced.
DrawSlot_Stuck(c) == IF slot[c] = 0 THEN 1 ELSE slot[c]

\* The pacer slot next_deadline_ns hands out: every call consumes one.
DrawSlot(c) == slot[c] + 1

\* Paced: draw the next deadline and sleep until it.
TxDraw(c) ==
    /\ tx[c] = "top" /\ mode.pacing = "paced"
    /\ phase # PHASE_DONE
    /\ slot[c] < MaxSlots /\ seq[c] < MaxMsgs
    /\ slot' = [slot EXCEPT ![c] = DrawSlot(c)]
    /\ tx' = [tx EXCEPT ![c] = "asleep"]
    /\ UNCHANGED <<mode, mainVars, seq, sent, txMeasuring, lag, netVars, rxVars>>

\* Paced: the deadline has passed; the phase is sampled before the send.
TxWake(c) ==
    /\ tx[c] = "asleep" /\ phase # PHASE_DONE
    /\ txMeasuring' = [txMeasuring EXCEPT ![c] = (phase = PHASE_MEASURE)]
    /\ tx' = [tx EXCEPT ![c] = "sending"]
    /\ UNCHANGED <<mode, mainVars, seq, sent, slot, lag, netVars, rxVars>>

\* Paced: the message is sent with the drawn deadline as its timestamp.
TxSend(c) ==
    /\ tx[c] = "sending"
    /\ Accept(c, NewMessage(c, seq[c], slot[c]))
    /\ lag' = [lag EXCEPT ![c] = @ + (IF txMeasuring[c] THEN 1 ELSE 0)]
    /\ seq' = [seq EXCEPT ![c] = @ + 1]
    /\ txMeasuring' = [txMeasuring EXCEPT ![c] = FALSE]
    /\ tx' = [tx EXCEPT ![c] = "top"]
    /\ UNCHANGED <<mode, mainVars, sent, slot, rxVars>>

\* Paced: the ring is full; yield and go back to the top of the loop.
TxSendBlocked(c) ==
    /\ tx[c] = "sending" /\ SendWouldBlock(c)
    /\ txMeasuring' = [txMeasuring EXCEPT ![c] = FALSE]
    /\ tx' = [tx EXCEPT ![c] = "top"]
    /\ UNCHANGED <<mode, mainVars, seq, sent, slot, lag, netVars, rxVars>>

\* Blast: start a batch at the next sequence number.
TxStage(c) ==
    /\ tx[c] = "top" /\ mode.pacing = "blast" /\ phase # PHASE_DONE
    /\ sent' = [sent EXCEPT ![c] = 0]
    /\ tx' = [tx EXCEPT ![c] = "pushing"]
    /\ UNCHANGED <<mode, mainVars, seq, slot, txMeasuring, lag, netVars, rxVars>>

\* Blast: one more message of the batch reaches the transport.
TxPush(c) ==
    /\ tx[c] = "pushing" /\ sent[c] < TxBatch /\ seq[c] + sent[c] < MaxMsgs
    /\ Accept(c, NewMessage(c, seq[c] + sent[c], 0))
    /\ sent' = [sent EXCEPT ![c] = @ + 1]
    /\ UNCHANGED <<mode, mainVars, tx, seq, slot, txMeasuring, lag, rxVars>>

\* Regression: the batch is taken as sent in full whatever the transport accepted.
Advance_WholeBatch(c) == seq[c] + TxBatch

\* Regression: the messages that were not accepted are subtracted instead of left out.
Advance_Underflow(c) == seq[c] + sent[c] - TxBatch

\* The next sequence number once a batch is over: only what was accepted counts.
Advance(c) == seq[c] + sent[c]

\* Blast: the batch ends because it is complete or the ring is full; the sequence
\* number advances by the messages accepted, and an empty batch only yields.
TxFlush(c) ==
    /\ tx[c] = "pushing"
    /\ sent[c] = TxBatch \/ seq[c] + sent[c] = MaxMsgs \/ SendWouldBlock(c)
    /\ seq' = [seq EXCEPT ![c] = Advance(c)]
    /\ sent' = [sent EXCEPT ![c] = 0]
    /\ tx' = [tx EXCEPT ![c] = "top"]
    /\ UNCHANGED <<mode, mainVars, slot, txMeasuring, lag, netVars, rxVars>>

\* The send reports an error and the loop breaks.  An in-place commit error only ends
\* the batch (TxFlush); there it is the wakeup after a non-empty batch that can fail.
TxError(c) ==
    /\ tx[c] \in {"sending", "pushing"} /\ SendFails(c)
    /\ (tx[c] = "pushing" /\ mode.inplace) => sent[c] > 0
    /\ TxExit(c)
    /\ UNCHANGED <<mode, mainVars, seq, sent, slot, txMeasuring, lag, netVars, rxVars>>

TxStep(c) ==
    \/ TxDone(c)
    \/ TxDraw(c) \/ TxWake(c) \/ TxSend(c) \/ TxSendBlocked(c)
    \/ TxStage(c) \/ TxPush(c) \/ TxFlush(c)
    \/ TxError(c)

(***************************************************************************)
(* The receiver thread: receiver_loop.                                     *)
(***************************************************************************)

\* Messages one recv call hands over under a single phase load: a batch when they are
\* copied out, one at a time when they are validated in the ring.
RxMax == IF mode.inplaceRecv THEN 1 ELSE RxBatch

\* Bound on the losses the path chooses (those a full datagram socket forces are not).
MayFault(c) == Cardinality(lost[c]) < MaxFaults

\* recv_batch copies the oldest message out of the transport, intact or damaged.
RxDrain(c) ==
    /\ rx[c] = "recv" /\ chan[c] # << >> /\ net[c] # "stalled"
    /\ Len(batch[c]) < RxMax
    /\ \E good \in BOOLEAN :
        /\ good \/ (mode.gateway /\ MayFault(c))
        /\ batch' = [batch EXCEPT ![c] =
                        Append(@, [Head(chan[c]) EXCEPT !.early = (phase = PHASE_WARMUP),
                                                !.intact = good, !.unpolled = FALSE,
                                                !.moved = FALSE])]
        /\ lost' = [lost EXCEPT ![c] = @ \cup (IF good THEN {} ELSE {Head(chan[c]).seq})]
    /\ chan' = [chan EXCEPT ![c] = Tail(@)]
    /\ UNCHANGED <<mode, mainVars, txVars, net, rx, rxMeasuring, recorded, failures>>

\* Regression: once measuring, always measuring.
LoadMeasuring_Sticky(c) == rxMeasuring[c] \/ phase = PHASE_MEASURE

\* The relaxed load that decides whether the batch is recorded.
LoadMeasuring(c) == phase = PHASE_MEASURE

\* recv_batch returns messages; the phase is loaded once for all of them.
RxLoadPhase(c) ==
    /\ rx[c] = "recv" /\ batch[c] # << >>
    /\ rxMeasuring' = [rxMeasuring EXCEPT ![c] = LoadMeasuring(c)]
    /\ rx' = [rx EXCEPT ![c] = "ingest"]
    /\ UNCHANGED <<mode, mainVars, txVars, netVars, batch, recorded, failures>>

\* One message of the batch is recorded, rejected as damaged, or discarded.
RxIngest(c) ==
    LET m == Head(batch[c]) IN
    /\ rx[c] = "ingest" /\ batch[c] # << >>
    /\ recorded' = [recorded EXCEPT ![c] =
                       IF rxMeasuring[c] /\ m.intact
                       THEN Append(@, [m EXCEPT !.late = (phase > PHASE_MEASURE)]) ELSE @]
    /\ failures' = [failures EXCEPT ![c] =
                       @ + (IF rxMeasuring[c] /\ ~m.intact THEN 1 ELSE 0)]
    /\ batch' = [batch EXCEPT ![c] = Tail(@)]
    /\ rx' = [rx EXCEPT ![c] = IF Len(batch[c]) = 1 THEN "recv" ELSE "ingest"]
    /\ UNCHANGED <<mode, mainVars, txVars, netVars, rxMeasuring>>

\* Regression: the poll timeout is reported although messages are queued.
Idle_Impatient(c) == TRUE

\* A read polls without finding a message: nothing is queued, or the path holds it back.
Idle(c) == chan[c] = << >> \/ net[c] # "up"

\* Regression: a timed-out receiver waits for the end of the stream instead of DONE.
TimeoutLeaves_NeedsClose(c) == phase = PHASE_DONE /\ mode.kind # "datagram"

\* Whether a receiver leaves its loop when a read times out.
TimeoutLeaves(c) == phase = PHASE_DONE

\* The poll timeout expires with nothing to read.
RxTimeout(c) ==
    /\ rx[c] = "recv" /\ batch[c] = << >> /\ Idle(c)
    /\ rx' = [rx EXCEPT ![c] = "timeout"]
    /\ UNCHANGED <<mode, mainVars, txVars, netVars, batch, rxMeasuring, recorded, failures>>

\* Only then is the phase loaded: leave once the run is DONE, otherwise read again.
RxAfterTimeout(c) ==
    /\ rx[c] = "timeout" /\ batch[c] = << >>
    /\ rx' = [rx EXCEPT ![c] = IF TimeoutLeaves(c) THEN "exited" ELSE "recv"]
    /\ UNCHANGED <<mode, mainVars, txVars, netVars, batch, rxMeasuring, recorded, failures>>

\* The stream ended: the sink was closed and everything it sent has been read.
RxClosed(c) ==
    /\ rx[c] = "recv" /\ batch[c] = << >> /\ chan[c] = << >>
    /\ mode.kind # "datagram" /\ tx[c] = "exited"
    /\ rx' = [rx EXCEPT ![c] = "exited"]
    /\ UNCHANGED <<mode, mainVars, txVars, netVars, batch, rxMeasuring, recorded, failures>>

\* The read fails on a broken path; a ring read also abandons the batch it had drained.
RxError(c) ==
    /\ rx[c] = "recv" /\ net[c] = "broken"
    /\ batch[c] # << >> => mode.kind = "ring"
    /\ batch' = [batch EXCEPT ![c] = << >>]
    /\ rx' = [rx EXCEPT ![c] = "exited"]
    /\ UNCHANGED <<mode, mainVars, txVars, netVars, rxMeasuring, recorded, failures>>

RxStep(c) ==
    \/ RxDrain(c) \/ RxLoadPhase(c) \/ RxIngest(c)
    \/ RxTimeout(c) \/ RxAfterTimeout(c) \/ RxClosed(c) \/ RxError(c)

(***************************************************************************)
(* The path under test, and the watchdog that can kill it.                 *)
(***************************************************************************)

\* A datagram path, or a broken one, loses the message it would deliver next.
Lose(c) ==
    /\ chan[c] # << >>
    /\ mode.kind = "datagram" \/ net[c] = "broken"
    /\ MayFault(c)
    /\ lost' = [lost EXCEPT ![c] = @ \cup {Head(chan[c]).seq}]
    /\ chan' = [chan EXCEPT ![c] = Tail(@)]
    /\ UNCHANGED <<mode, mainVars, txVars, net, rxVars>>

\* On a shuffled path a message arrives before those sent ahead of it, or a second time, or
\* at a receiver d that polls the shared socket for another connection; once for each.
Shuffle(c) ==
    /\ mode.shuffled
    /\ \E i \in DOMAIN chan[c], twice \in BOOLEAN, d \in Conns :
         LET m    == [chan[c][i] EXCEPT !.moved = TRUE]
             rest == IF twice THEN [chan[c] EXCEPT ![i] = m] ELSE RemoveAt(chan[c], i)
         IN  /\ ~chan[c][i].moved
             /\ d = c \/ rx[d] = "recv"
             /\ chan' = [[chan EXCEPT ![c] = rest] EXCEPT ![d] = <<m>> \o @]
    /\ UNCHANGED <<mode, mainVars, txVars, lost, net, rxVars>>

\* The gateway stops relaying this connection without closing it, or resets it.
GatewayFault(c) ==
    /\ mode.gateway /\ MaxFaults > 0 /\ c \in opened /\ net[c] = "up" /\ main # "returned"
    /\ \E health \in {"stalled", "broken"} : net' = [net EXCEPT ![c] = health]
    /\ UNCHANGED <<mode, mainVars, txVars, chan, lost, rxVars>>

\* The watchdog's budget, which is larger than all the sleeps together, runs out before the
\* scenario is done: every gateway process is force-killed, which breaks every connection.
WatchdogKill ==
    /\ Watchdog /\ mode.gateway
    /\ main \in {"join_tx", "join_rx"}
    /\ \E c \in Conns : net[c] # "broken"
    /\ net' = [c \in Conns |-> "broken"]
    /\ UNCHANGED <<mode, mainVars, txVars, chan, lost, rxVars>>

EnvStep == (\E c \in Conns : Lose(c) \/ Shuffle(c) \/ GatewayFault(c)) \/ WatchdogKill

\* The run has returned (with statistics or with an error): the model stops here.
Finished == main \in {"returned", "failed"} /\ UNCHANGED vars

Next ==
    \/ MainStep
    \/ \E c \in Conns : TxStep(c) \/ RxStep(c)
    \/ EnvStep
    \/ Finished

Spec == Init /\ [][Next]_vars

\* Threads are scheduled fairly, the sleeps end, and the watchdog's clock runs; nothing
\* forces a path to lose, shuffle, stall or damage anything.
Fairness ==
    /\ WF_vars(MainStep)
    /\ \A c \in Conns : WF_vars(TxStep(c)) /\ WF_vars(RxStep(c))
    /\ WF_vars(WatchdogKill)

FairSpec == Spec /\ Fairness

(***************************************************************************)
(* Properties.                                                             *)
(***************************************************************************)

\* Type invariant of the run (the shared phase flag, the threads' program counters and
\* locals, the transport and the receivers' metrics).
TypeOK ==
    /\ mode \in Modes
    /\ phase \in Phases
    /\ main \in {"connect", "spawn", "warmup", "measure", "cooldown", "join_tx", "join_rx",
                 "returned", "failed"}
    /\ opened \subseteq Conns
    /\ tx \in [Conns -> {"idle", "top", "asleep", "sending", "pushing", "exited"}]
    /\ seq \in [Conns -> Nat] /\ sent \in [Conns -> Nat]
    /\ slot \in [Conns -> Nat] /\ lag \in [Conns -> Nat]
    /\ txMeasuring \in [Conns -> BOOLEAN]
    /\ chan \in [Conns -> Seq(Message)]
    /\ lost \in [Conns -> SUBSET Nat]
    /\ net \in [Conns -> {"up", "stalled", "broken"}]
    /\ rx \in [Conns -> {"idle", "recv", "ingest", "timeout", "exited"}]
    /\ batch \in [Conns -> Seq(Message)]
    /\ rxMeasuring \in [Conns -> BOOLEAN]
    /\ recorded \in [Conns -> Seq(Message)]
    /\ failures \in [Conns -> Nat]

SeqNumbers(ms) == [i \in DOMAIN ms |-> ms[i].seq]

\* The loss report is exact on a path that is not shuffled.  Although recording starts and
\* stops in mid-stream, at instants no sender knows of, and a batch may be accepted only in
\* part, the numbers a receiver records have no duplicate and no inversion, and what
\* metrics/app.rs counts as lost is exactly what the path lost or damaged between the first
\* and the last of them.  In particular a lossless path reports zero loss.
LossReportExact ==
    ~mode.shuffled => \A c \in Conns :
        LET nums == SeqNumbers(recorded[c])
            i    == integrity(nums)
        IN  /\ i.duplicate = 0 /\ i.reordered = 0
            /\ nums # << >> =>
                 i.lost = Cardinality(lost[c] \cap (Min(Range(nums)) .. Max(Range(nums))))

\* No message the transport accepted after the main thread stored COOLDOWN is ever
\* recorded, however late the receiver acts on the phase it loaded.
CooldownNeverRecorded ==
    \A c \in Conns : \A i \in DOMAIN recorded[c] : recorded[c][i].sentIn <= PHASE_MEASURE

\* The phase is loaded after the batch was drained and used after it may have changed, so
\* each edge of the measure window is blurred, but by at most one receive batch: at most
\* RxBatch recorded messages were drained before MEASURE was stored, and at most RxBatch
\* were recorded after COOLDOWN was.
WindowEdgesBlurredByOneBatch ==
    \A c \in Conns :
        LET In(P(_)) == Cardinality({i \in DOMAIN recorded[c] : P(recorded[c][i])})
        IN  /\ In(LAMBDA m : m.early) <= RxMax
            /\ In(LAMBDA m : m.late) <= RxMax

\* What run/engine.rs and docs/methodology.md say: warmup and cooldown traffic never gets
\* into the statistics, no message that was received before MEASURE was stored, and none
\* that is recorded after COOLDOWN was.  The phase is loaded once per batch, not once per
\* message, and does not exclude either.
WarmupAndCooldownExcluded ==
    \A c \in Conns : \A i \in DOMAIN recorded[c] : ~recorded[c][i].early /\ ~recorded[c][i].late

\* Pacing survives backpressure: the timestamps of a paced connection strictly increase
\* with the sequence number and never run ahead of the schedule, and every message has a
\* slot of its own (a retried message skips slots, it never shares one).  The record has
\* the order of the schedule on a path that is not shuffled.
ScheduleNeverReused ==
    (mode.pacing = "paced" /\ ~mode.shuffled) =>
        \A c \in Conns :
            /\ \A i, j \in DOMAIN recorded[c] :
                 i < j => recorded[c][i].stamp < recorded[c][j].stamp
            /\ \A i \in DOMAIN recorded[c] : recorded[c][i].stamp > recorded[c][i].seq

\* Nothing that was there to be read is left behind: what is in flight behind a receiver
\* that has left a healthy connection was accepted after its last poll had come back
\* empty.  That poll may have ended before DONE was stored: a message sent in COOLDOWN, or
\* even earlier, is then left unread, and only the cooldown makes that unlikely.
CooldownDrains ==
    \A c \in Conns :
        (rx[c] = "exited" /\ net[c] = "up") => \A i \in DOMAIN chan[c] : chan[c][i].unpolled

\* Once run_once has returned, no worker thread adds to the statistics it aggregated.
AggregateIsFinal == [][main = "returned" => UNCHANGED <<recorded, failures, lag>>]_vars

\* run_once always returns, whatever the path loses, stalls or damages: the senders leave
\* at DONE or on an error, the receivers after them, and a wedged gateway is killed.
RunReturns == <>(main \in {"returned", "failed"})
===============================================================================
