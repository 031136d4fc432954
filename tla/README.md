# SCG-SESHAT: TLA+ models, checks and proofs

SESHAT is a benchmark harness: it pushes numbered, time-stamped messages
through a path under test (a plain loopback transport, or one or two SCG
gateway processes), measures throughput, latency and loss in a bounded
window, and records the result of every scenario of a suite. What makes its
numbers trustworthy is concurrent and failure-prone code: worker threads that
act on a relaxed phase flag, partial writes and reads, echo timeouts with
retries, connections that are paired through a gateway which forwards them in
its own order, helper threads that signal processes by process id, kernel
network state that is installed command by command, and a result directory
that must survive being interrupted. That is what is modelled here.

## 1. Inventory

| Component (source) | State | Operations | Interacts with | Correct if |
|---|---|---|---|---|
| throughput engine (`run/engine.rs`, `workload/receiver.rs`) | phase flag, per-connection sequence number, batch, metrics | connect, spawn, phase stores, send, receive, ingest, join | transports through `DataSink`/`DataSource`; metrics; watchdog | only the measure window is recorded, reported loss is real loss, the run returns |
| ping-pong engine (`run/engine.rs`) | phase flag, sequence number, measuring flag | send, await echo, retry, echo | transports through `DuplexEnd` | a sample is the round trip of its own message, the run returns |
| connection-rate engine (`run/engine.rs`) | phase and stop flags, handshake samples | connect once, serve, join, stop | `conn_harness` of TCP and gateway transports | a recorded handshake is a completed one, the acceptor is stopped last, the run returns |
| multi-stream workload (`workload/streams.rs`) | stop and measuring flags, per-stream metrics | spawn, measure, stop, join, verdict | gateway transports per traffic class | the safety verdict follows from what the path lost |
| distributed mode (`run/engine.rs`, `commands.rs`) | a phase clock per program, listener, accepted connections | connect, write, accept, read in turn, drop | the other program over TCP | what is reported is what was written, both programs end |
| framing (`transport/tcp.rs`, `transport/mod.rs`, `proto/wire.rs`) | iovec position, reassembly buffer and cursors | `writev_full`, `take_one`, `take_messages`, `fill_once` | sockets, both engines | a byte stream carries whole messages in order; damage is contained |
| datagram, UDS, SHM, null transports (`transport/*.rs`) | sockets, rings, registered endpoints | send, receive, reserve/commit, register, close | gateways | they keep the same contract, with their own way of being full |
| gateway transports (`transport/gateway.rs`, `tproxy.rs`) | backend listeners, expected peers, TPROXY rules | probe readiness, drain, open client, accept backend, liveness probe | gateway processes, kernel | client and backend are the two ends of one connection |
| pacer and builder (`workload/sender.rs`) | next deadline, burst position | `next_deadline_ns`, build | sender loop | deadlines never repeat or run backwards |
| metrics (`metrics/*.rs`) | samples | record, integrity, aggregate, sample /proc | engines, reports | loss, duplicates and reordering are what happened |
| gateway processes (`gateway/process.rs`, `gateway/mod.rs`) | child, pid, configuration file | spawn, wait_ready, shutdown, drop, signal, force_kill | scenarios, helper threads | no orphan, no signal to a stranger, no file left |
| gateway configuration and log scan (`gateway/mod.rs`, `config.rs`, `logscan.rs`) | the rules of a path | plan, resolve security, build rules, read the logs | scenarios, transports | rules and sockets fit, the label is what carried the traffic |
| scenarios (`commands.rs`) | watchdog and reload flags, result | start, run, watch, reload, stop, record | engine, processes, results | every scenario ends, what is recorded happened |
| calibration, sweep (`run/calibrate.rs`, `saturation.rs`) | ceiling cache | probe, look up, fall back, sweep | scenarios | a row is compared with a ceiling of its own conditions |
| configuration and matrix (`config/*.rs`, `matrix.rs`) | none of their own | default, inherit, validate, expand | suite | what is generated validates and can be measured |
| topology and impairment (`topology/*.rs`) | kernel objects, guards | setup, teardown, drop, operator subcommands | scenarios, kernel | the host is left as it was found |
| suite and results (`commands.rs`, `report/*.rs`) | scenario list, ceilings, artifacts | dispatch, run, skip, record, abort, resume, report | file system | a resumed suite equals an uninterrupted one |
| statistics, system metrics, overview report, PKI, CLI, console | none the others depend on | compute, sample, render, call tools | all | not modelled |

What is hard here, and hard to test: a phase loaded before and used after it
changes; a batch accepted in part; a timeout that races the answer; a probe
whose close is late and which is taken for the real connection; a helper thread
that outlives the process whose id it remembers; a stalled path under blocking
writes; two programs whose clocks are apart; one of several network commands
that fails; a cached ceiling of other conditions; a stop between two artifacts,
and what a resumed suite makes of them. The list with lines and properties is
`hazards` in `PROJECT.json`.

## 2. Modules

| Module | Models | Code |
|---|---|---|
| `FlowMetrics` | `integrity`: loss, duplicates, reordering of a list of sequence numbers | `metrics/app.rs` |
| `RunEngine` | `run_once`, `sender_loop`, `receiver_loop`, `ingest`; transports by kind, impaired and shared paths | `run/engine.rs`, `workload/`, `transport/` |
| `PingPong` | `run_once_pingpong`, `pingpong_client_loop`, `echo_loop` | `run/engine.rs` |
| `MessageChannel` | abstract: the promise of `DataSink` and `DataSource` | `transport/mod.rs` |
| `StreamFraming` | `writev_full`, `FramedReader`, `recv_batch`, byte by byte | `transport/tcp.rs`, `transport/mod.rs` |
| `GatewayPath` | readiness probes, drain, backlog and relayed closes of a path | `transport/gateway.rs`, `gateway/process.rs` |
| `GatewayEndpoints` (extends `GatewayPath`) | how connected pairs are opened, run after run | `transport/gateway.rs`, `tproxy.rs`, `uds.rs`, `shm.rs` |
| `ConnRate` (extends `GatewayPath`) | `run_once_connrate`, both harnesses | `run/engine.rs`, `transport/tcp.rs`, `gateway.rs` |
| `MultiStream` (extends `FlowMetrics`) | `run_multi_stream` and its verdict | `workload/streams.rs`, `commands.rs` |
| `Distributed` (extends `FlowMetrics`) | `run_distributed_sender`, `run_distributed_receiver` | `run/engine.rs`, `commands.rs` |
| `GatewayScenario` | `run_gateway_scenario`, `run_hotreload_scenario`, `GatewayProcess`, the watchdog and the reload thread | `commands.rs`, `gateway/` |
| `ScenarioConfig` | the fields execution branches on, defaults, validation, labels | `config/schema.rs`, `config/mod.rs` |
| `ScenarioMatrix` | the documents a matrix generates | `matrix.rs` |
| `GatewayPlan` (extends `ScenarioConfig`) | from a scenario to rules, providers and the effective label | `commands.rs`, `gateway/mod.rs`, `logscan.rs` |
| `HostNetwork` | kernel objects, commands, guards, the operator's subcommands | `topology/`, `transport/tproxy.rs` |
| `SuiteRun` (extends `GatewayPlan`, `HostNetwork`) | the suite from launch to end | `commands.rs`, `run/calibrate.rs`, `saturation.rs` |
| `SuiteResume` | `run_config`, `ResultDir` (`record_scenario`, `record_skipped`, `finish`), `report`, `--resume` | `commands.rs`, `report/results.rs` |
| `RunEngine_proofs`, `PingPong_proofs`, `StreamFraming_proofs`, `GatewayEndpoints_proofs`, `GatewayScenario_proofs`, `SuiteRun_proofs`, `SuiteResume_proofs` | theorems about the module they extend | |
| `Workloads_proofs` (extends `MultiStream`, `Distributed`) | theorems about two workloads that share no state | |
| `MCRunEngine`, `MCGatewayScenario`, `MCSuiteRun`, `MCSuiteResume` | instances of one module for TLC | |
| `MCWorkloads` (`PingPong`, `MultiStream`, `Distributed`), `MCTransports` (`StreamFraming`, `GatewayEndpoints`, `ConnRate`), `MCSuite` (`SuiteRun`, `SuiteResume`) | instances of several modules: a behaviour is of one of them and the others are at rest | |

**RunEngine.** One record `mode` fixes the scenario (transport kind, pacing,
in-place flags, gateway or not). Each thread is a program counter with the
locals the code keeps across its shared accesses; the main thread only stores
phases and joins. Loading the phase (`RxLoadPhase`, `TxWake`) is a step of its
own, since the flag may move before the value is used. An empty poll takes
two steps: it comes back with a timeout (`RxTimeout`) and only then is the phase
loaded to decide whether to leave (`RxAfterTimeout`), so messages and the store
of DONE may fall in between. A connection is a bounded FIFO of messages;
"stream" blocks when full, "ring" reports WouldBlock, "datagram" drops. A
gateway path may stall, reset or damage. The datagram path through a gateway may
also be *shuffled* (`Shuffle`): the netem impairment a scenario installs
reorders and duplicates, and the UDP connections of a scenario share one backend
socket, so a message may be read by the receiver of another connection. With
more than one UDP connection through a gateway it always is. Messages carry
history fields (the phase they were accepted in, whether they were drained early
or recorded late, whether they came after the last poll of their receiver) that
no action reads.

**PingPong.** The client, the echo thread and the path in both directions of
one connection; connections share nothing but the phase flag. Every send has
an identity, so that a sample can be related to the send its echo answers. On
the SHM transport the gateway relays one ring to the other and the echo thread
only waits (`Relay`). Datagrams are echoed on the loopback only, where nothing
reorders or duplicates them: the UDP gateway transport has no echo path.

**StreamFraming.** Byte `o` of message `k` is the number
`k * MessageBytes + o`, so the correct stream is 0, 1, 2, .... A header is
abstracted to the total length it declares, 0 standing for a wrong magic.
Rescan, compaction and partial writes are as in the code. `MessageChannel` is
the promise: the messages sent, and the set of those handed out intact. The
refinement mapping counts a message as sent once its last byte is written;
`HandedOut` is the set of numbers of the frames whose header is not damaged.

**GatewayPath, GatewayEndpoints, ConnRate.** A connection is a record of its
lane (one rule pair) and who opened it. It is in transit until the gateway has
dialled the backend, then in the backlog until it is accepted; the close of its
client shows at the backend end later, as an end of stream or as a reset, or
never. The gateway forwards in any order and owes nothing. `wait_ready` leaves
probes on the path that are forwarded like any other connection; a TCP path
drains its listeners, a transparent one does not, and either relies on the
liveness check of `accept_forwarded_on`, which takes a connection for live when
its close has not arrived. `GatewayEndpoints` opens the pairs of all runs on one
thread; the UDS and SHM transports are its carrier "local", where the gateway
keeps one endpoint per application id and direction. `ConnRate` has the main
thread, the connectors and the acceptor of a connection-rate run, on a gateway
path or on the loopback.

**MultiStream, Distributed.** Two workloads with threads of their own. A flag
or phase is loaded in one step and acted upon in the next. A stream's connection
may lose, damage or break at any time: its receiver leaves on any error or
close, counts a damaged message as an integrity failure, and its sender leaves
on any error of a send. The distributed
programs share only the connections: each has its own clock, and any skew
between the clocks is a behaviour.

**GatewayScenario.** Consecutive scenarios, each with its processes, their
configuration files and one helper thread. A process is up, hung, exited (a
zombie), or reaped; its id is free again only when it is reaped, and signals go
to whoever has the id. `strays` remembers signals that did not reach the
process meant. Every early return of the two functions, and every handle that
`?` drops, is an action. The reload steps (read, write, signal, restore) are
separate, because a failed run shuts down between them. After the watchdog has
been joined a watched scenario may drive a saturation sweep through the same
processes (`Sweep`), which is fair only while none of them hangs.

**ScenarioConfig, ScenarioMatrix, GatewayPlan.** Pure decisions as operators
over records. A scenario holds the fields that a later stage branches on;
addresses are their form, certificates whether they are there, names the tuple
of their parts. `Generated` is the set of documents a matrix expands to; a rule
is the protocols of its two sides, its provider and its parameters.

**HostNetwork, SuiteRun.** The kernel is the set of objects that exist; a setup
is a sequence of commands that need, create and remove objects, and the guard
that undoes it exists only when all have succeeded. `SuiteRun` drives scenarios
through dispatch, topology, impairment, security material, start, traffic,
calibration, sweep, recording and the drop of every guard, in the order of
`run_config` and `run_gateway_scenario`. Disturbances (a refused command, a
gateway or a probe that fails, a kill, a resume, an operator's subcommand) are
actions counted against `host.faults`. `RunParams` is what `build_run_params`
hands to the engine: a message holds its header of 24 bytes, and there is at
least one connection and one run. Of the cases it is launched with the module
assumes only their shape: lists of scenarios, counts that are numbers, known
features.

**SuiteResume.** A scenario is its kind, which fixes the artifacts written for
it and their order; an artifact on disk is the number of the process that wrote
it. A stop (a kill, or an error that `?` passes up) may come between any two
writes or in the middle of one, which leaves the file empty. The next process
resumes: it skips what `Recorded` finds and starts with empty memory. Measured
figures are abstracted to where they come from: `paced` is the set of
throughput rows a latency row's rate is derived from, and whether a throughput
row counts for the ceiling is arbitrary. The scenarios are in matrix order,
throughput rows of the comparison group first. Starting the suite without
`--resume` makes a new directory, which is another behaviour of the same module.

The composition is by promise: `RunEngine` sees a transport as a FIFO, which is
proved to be the channel that `MessageChannel` states as long as the path is not
shuffled, `StreamFraming` shows that the byte-stream transports keep to the same
channel, `GatewayEndpoints` shows that the two ends of the FIFO belong together,
`GatewayScenario` sees the engine as a step that returns once no gateway hangs,
which is what `RunReturns` of the engines shows, and `SuiteRun` sees the traffic
of a scenario as a step that `GatewayScenario` opens.

## 3. Runs

| Run | Checks | Shows |
|---|---|---|
| `run_engine` | `TypeOK`, `LossReportExact`, `CooldownNeverRecorded`, `WindowEdgesBlurredByOneBatch`, `ScheduleNeverReused`, `CooldownDrains`, `RunReturns` | one connection, all transports and pacings, direct and gateway, on a path that keeps the order |
| `run_engine_shuffled` | `CooldownDrains`, `AggregateIsFinal` | two UDP connections of a gateway path that share a socket, with netem |
| `workloads` | `EchoDebt`, `IntegrityExactWithoutTimeouts`, `OneLateSample`, `SafetyVerdictExact`, `ReportComplete`, `RunReturns`, `WorkloadsReturn` | what a sample means after timeouts, what multi-stream and distributed runs report, and that all three return |
| `transports` | `BytesInOrder`, `BufferNeverFull`, `DamageIsContained`, `ImplementsChannel`, `NoMessageStuck`, `PairsMatch`, `EndpointsReturn` | the byte stream is a message channel, senders meet their own receivers, and every opening ends |
| `gateway_scenario` | `TypeOK`, `NoOrphanGateway`, `KillsOnlyOwn`, `ConfigRemoved`, `ReloadReportFinal`, `WatchedScenarioEnds` | processes, files and reports of two scenarios |
| `suite` | `PathCoherent`, `CeilingComparable`, `HostRestored`, `FullProtectionLabelled`, `GeneratedRowsMeasured`, `AbortsExplained`, `SuiteEnds`, `AccountedFor`, `RowIsOneMeasurement`, `PacedAlike`, `RecordedIsKept` | from a document to a measured row and the host afterwards, and what the tables of an interrupted and resumed suite hold |

Six runs are expected to fail. Each refutes a sentence of the repository by
what the code does; `findings` quotes them.

| Run | Property | What happens |
|---|---|---|
| `window_edges` | `WarmupAndCooldownExcluded` | the phase is loaded once per batch and not per message: a message received in warmup, or handled in cooldown, is recorded |
| `reload_stale_pid` | `ReloadSignalsOwnGateway` | after a failed run the reload thread is not joined and signals an id that is no longer its gateway's |
| `sweep_unwatched` | `ScenarioNeverHangsSuite` | the watchdog is joined before the saturation sweep, so a gateway that hangs in the sweep hangs the suite |
| `handshake_incomplete` | `HandshakeCompletesPath` | a probe whose read times out is recorded as a completed handshake while its connection is still inside the gateway |
| `suite_rows_lost` | `EveryScenarioListed` | a multi-stream scenario stopped after `stream_summary.csv` is skipped by every resume and is in no table |
| `tproxy_leftover` | `LeftoversTolerated` | what a killed transparent scenario left in the kernel makes the next one fail in its setup |

Three findings are about properties that hold, and say more than the repository
does: `AbortsExplained` lists connection churn over loopback UDP, which ends the
suite although `README.md:504` of the repository says it is skipped with a
notice; `ReportComplete` starts the record with the first message written,
although `DistributedParams::warmup` is documented as "data discarded"
(`run/engine.rs:1134`); `PairsMatch` excepts a closed connection taken for live,
although `transport/gateway.rs:21-24` calls the pairing deterministic.

`StreamFraming`, `PingPong`, `GatewayEndpoints`, `SuiteRun` and `SuiteResume`
state a type invariant too; it holds on the instances above, but it is not what
their runs are about. All of them are proved.

**Instances of several modules.** `MCWorkloads`, `MCTransports` and `MCSuite`
put modules side by side that share no thread. Their initial states are those of
one part with the other parts at rest (`NoStreams`, `NoPairs`, ...), in which no
step of those parts is enabled; the state space is the disjoint union of
the parts', and a property of one part speaks of the behaviours of that part.
Liveness properties of the parts are conjoined where they say the same thing
(`WorkloadsReturn`, `EndpointsReturn`).

**Bounds.** `run_engine`: 3 messages with sender and receiver batches of 2
over a path that holds 1, so that a batch is accepted in part, a batch spans
each phase change, and a message is lost between two recorded ones; 3 deadlines
allow a retry; 1 message is lost or damaged at will, and any number by
overflow. `run_engine_shuffled`: 2 connections of 1 message each, unthrottled,
in batches of 1: enough for a message to be duplicated, to overtake, or to be
read on the other connection, and for the two threads of each connection to end
in any order; the gateway itself does not fail here. Only safety is
checked in it, so the two connections are symmetric. `window_edges`: the
smallest case, 2 messages in batches of 1.

`workloads`: a closed-loop run of 4 sends over a capacity of 2 with 1 fault;
2 streams, one of them safety-critical, of 3 messages over a path that holds 1,
so that one can be lost between two that are recorded; 2 distributed links of 2
messages over a window of 1, so that a writer blocks.

`transports`: a header of 2 bytes, messages of 3, a buffer of
10 (the smallest the code would allocate, twice the header and the message) and
a socket of 4, so every alignment of message, buffer end and write occurs;
batches of 3 over 2 iovecs; damaged totals are a wrong magic, too short, longer
than a message, exactly the buffer and one more than it. 3 connections of 2 runs
over one lane, or over 2 lanes so that one lane is used twice, with one probe
per lane, which is enough to put a lane out of step; 2 connectors, 2 churn runs
and one connection each.

`gateway_scenario`: 2 scenarios with 2 gateways each and exactly 2 process ids,
so that every id of the first is used by the second.

`suite`: about 400 suites on a host: one scenario of each combination of the
fields a stage branches on, two that share the ceiling cache or the kernel (two
core pools, two rings on either side of the page floor), and every document of a
matrix with a profile of each kind the checked-in one has, on hosts that lack
each feature in turn; written suites meet two disturbances, enough for a kill,
then a resume onto what it left. For the result directory, 3 scenarios of the
five kinds in every order the matrix allows and 2 processes, so that a
comparison group has one throughput row and two latency rows, or two and one,
and each scenario may be cut at each of its writes and resumed; `report` may be
run in between.

Symmetry is used in `run_engine_shuffled` only: the liveness checks would not be
sound under it.

**Fairness.** Threads of the operating system are scheduled, sleeps and poll
timeouts end: weak fairness of each thread's next step. The watchdog thread is
a thread whose clock runs. Nothing is assumed of the path or of a gateway, with
one exception: it need not deliver, lose, stall or recover, but in `MultiStream`
it relays the close of a receiver, because nothing else ends a send into a full
path there (there is no watchdog). `SuiteResume` has safety properties
only and assumes no fairness. `EngineReturns` and `Sweep` in `GatewayScenario`
are fair only while no gateway of the scenario is hung. `SuiteRun` is fair to
the driver's steps, not to disturbances. Deadlock is checked except where the
modelled program simply ends: `workloads`, `transports`, `suite`,
`handshake_incomplete` and `tproxy_leftover`. In the first three a thread that
waits for ever is a violation of `RunReturns`, `WorkloadsReturn`,
`NoMessageStuck`, `EndpointsReturn` or `SuiteEnds` all the same.

**Mutants.** Each property of a passing run has a plausible regression of the
code, kept beside the definition it replaces (`X_Y` next to `X`), under which
TLC refutes it.

### Where a property names an exception

Some properties hold only with a case excepted; the exception is spelled out in
the property and is what the code does.

* `LossReportExact` and `ScheduleNeverReused` speak of paths that are not
  shuffled. On a shuffled one `integrity` does report duplicates, reordering and
  loss that no connection had: the "bogus per-connection loss" of
  `docs/methodology.md:263`, because of which the repository leaves several UDP
  connections through a gateway disabled.
* `WindowEdgesBlurredByOneBatch`: up to one batch per connection is recorded on
  either side of the window. That nothing is, as the comment at
  `run/engine.rs:15-17` says, is what `window_edges` refutes.
* `ScheduleNeverReused`: deadlines are consumed by attempts, so a paced message
  retried on a full ring is stamped with a later one.
* `CooldownDrains` bounds what a receiver leaves behind by its last poll, not by
  a phase: the poll returns before the phase is loaded (`run/engine.rs:257-258`),
  so a message sent in cooldown may be left in flight.
* `RunReturns` is stated with the watchdog; without one, a sender blocked on a
  stalled path never returns, and hot-reload runs have none.
* `WatchedScenarioEnds`: a gateway that hangs in the saturation sweep is excepted;
  the watchdog has been joined by then (`sweep_unwatched`).
* `EchoDebt`: after a timeout two messages of one connection may be in flight.
* `PairsMatch`: a late close makes a readiness probe look live, and the lane is
  out of step from then on; a transparent path never drains its probes, a TCP
  path may miss one.
* `SafetyVerdictExact`: the verdict covers what lies between the first and the
  last recorded message, and a damaged message there counts as lost; a safety
  stream that recorded nothing passes.
* `ReportComplete`: the distributed receiver records everything it reads, warmup
  and cooldown included, and it closes a connection that is silent for 500 ms.
* `PathCoherent`: hot reload with the `udp` interface and no framing drives TCP
  sockets into datagram rules, and so does multi-stream with a custom provider
  over `udp`, plain routing excepted.
* `FullProtectionLabelled`: rows with integrity or routing protection and
  `kernel: true` are labelled ktls although another provider carries them.
* `GeneratedRowsMeasured`: the ping-pong rows generated for datagram profiles
  can never be measured.
* `AbortsExplained`: connection churn over loopback UDP ends the suite, although
  `README.md:504` of the repository says it is skipped with a notice.
* `HostRestored`: what a setup that fails midway made stays, and so does what a
  killed process had installed; an operator's own `setup` makes a later veth or
  netns scenario fail.

## 4. Proofs

All theorems hold for every value of the constants that satisfies the
`ASSUME`s next to them. Every invariant and every action property that a
passing run checks is also proved, and so is the refinement. Where a property is
not inductive, the text says what had to be added and why.

`RunEngine_proofs`, for any connections, capacity, batch sizes and bounds
* `TypeCorrect`: `Spec => []TypeOK`, by one case per action.
* `CooldownSafe`: `Spec => []CooldownNeverRecorded`. Not inductive by itself:
  a receiver may act on an old MEASURE. `WindowInv` adds that the phase flag
  follows the main thread (and so never goes back), that nothing in flight or
  in a batch was accepted in a later phase than the current one, and that a
  batch to be recorded was drained, hence accepted, by the end of MEASURE.
* `ScheduleSafe` (`ScheduleNeverReused`), `DrainsSafe` (`CooldownDrains`),
  `LossIsExact` (`LossReportExact`), `EdgesSafe`
  (`WindowEdgesBlurredByOneBatch`) and `AggregateSafe` (`AggregateIsFinal`, an
  action property), from one invariant `FlowInv` per connection. The first and
  the third are about paths that are not shuffled, and `FlowInv` has the parts
  `OrderInv` and `LossInv` for those only. `OrderInv`:
  record, batch and channel hold messages in the order of sending, each ahead
  of the next, and none was issued after what the sender holds (`SenderInv`: a
  paced sender never stamps ahead of its schedule). `LossInv`: every number
  after a message that is recorded, or may still be, is lost or on its way to
  the record. That fails once recording resumes after a batch that was thrown
  away, so `PhaseInv` shows that it never does. `EdgeInv`: early messages are in
  the first batch recorded, late ones in the last. `LeftBehind`: behind a
  receiver that has left, or whose poll has timed out, only what was accepted
  after that poll remains, shuffled or not. `Joined`:
  the main thread returns after the last thread. `FlowStep` sums up what any
  step of any thread may do to one connection, so that each part of the
  invariant is shown once per kind of step and not once per action. The count
  of lost messages is then a cardinality: an interval less the distinct numbers
  in it.
* `ConnectionsAreChannels`: each connection of a path that is not shuffled
  implements `MessageChannel`, the specification `StreamFraming` implements for the bytes below. A message is sent
  when the transport has accepted it, also in the middle of a batch, and handed
  over when it is neither in flight nor lost; the channel may skip messages
  exactly where the path is a datagram one or leads through a gateway. The step
  is again shown per kind of `FlowStep`: `FlowInv` puts the head of the FIFO
  behind everything handed over, and `Reliable` says that no other path loses
  anything or breaks.

`PingPong_proofs`, for any capacity, number of sends and number of losses
* `TypeCorrect`, `DebtIsExact` (`EchoDebt`), `OneLateAtMost` (`OneLateSample`)
  and `IntegrityIsExact` (`IntegrityExactWithoutTimeouts`), from `IInv`. The key
  is that the two directions and what the echo thread holds are one queue
  (`Queued`: echoes, then the held message, then requests), in which the
  position of a message is the debt its sample will have; `InHand` says when the
  echo thread holds a message, `LateIsLast` that nothing is recorded behind a
  late sample, `NumbersRise` that numbers rise along samples and queue, and
  `OneByOne` that without a timeout the numbers recorded or found damaged are
  consecutive.

`StreamFraming_proofs`, for any message, header, buffer, socket and batch sizes
* `TypeCorrect`, `StreamIsWhatWasSent` (`BytesInOrder`), `NeverFull`
  (`BufferNeverFull`) and `DamageContained` (`DamageIsContained`), from `IInv`,
  which adds the writer's place in its batch (`CursorInBatch`), that a reader
  about to fill has room (`RoomToFill`), that every frame lies behind the read
  position (`FramesBehind`) and that an intact message behind it was handed out
  or swallowed by a damaged length (`NoneSkipped`).
* `StreamImplementsChannel`: `Spec => ImplementsChannel`. Each step of the byte
  stream is a send of one message, a delivery, or leaves the channel unchanged.

`GatewayEndpoints_proofs`, for any number of connections, lanes and runs
* `PairsAlwaysMatch`: `PairsSpec => []PairsMatch`. `IInv` speaks of all the
  connections that are on their way: none is in two places (`NoTwice`), a new
  one has a new number (`Numbered`), each is closed, or the one being opened, or
  on a lane that was mistaken before (`OnlyLeftovers`), a path that was drained
  completely has only the one being opened (`QuietPath`), and the endpoints of a
  local pipeline are registered under an id of their own (`OwnPlaces`,
  `OwnIds`).
* `TypeCorrect`, and `PipelinesAreExact`: over all the runs every connection
  finds a local pipeline of its own, and the runs leave none. `PoolInv` ties the
  counter, which is never reset, to the run and the pairs opened in it. The
  second half is what `SuiteRun` takes for granted when a sweep over local
  pipelines ends the suite.

`GatewayScenario_proofs`, for any number of scenarios, gateways and process ids
* `TypeCorrect`, `NoOrphan` (`NoOrphanGateway`) and `KillsSafe`
  (`KillsOnlyOwn`), from one inductive invariant `IInv`: the main thread's
  program counter and index bound which processes are alive and which must be
  (`Owned`, `Progress`), two live processes never share an id, and nobody has
  the id of one that exited while it started (`UniquePids`), and a watchdog is
  awake only while its scenario runs or is joining it, when all its processes
  are alive (`Watching`). Hence a termination signal finds its own process.
  The reload thread has no such property, and its SIGHUP is the finding above.
* `ConfigSafe` (`ConfigRemoved`) and `ReloadReportSafe` (`ReloadReportFinal`),
  from `RInv`: which scenarios may have a reload thread, and that it ends with
  its flag set (`Reloading`), that a scenario not yet reached has no process and
  no report (`Fresh`, `PendingAhead`), that the file of a watched process goes
  before the process is waited for, one that exited while it started excepted
  (`WatchedFiles`), that a scenario is recorded with its helper ended
  (`Recording`) and not touched again (`RecordedFinal`: a helper that was joined
  acts no more), and that signals go astray only behind a scenario, or behind
  one that will not be recorded (`StraysBehind`).

`SuiteRun_proofs`, for any configurations on any hosts
* `HostIsRestored` (`HostRestored`), from `HostInv`: every kernel object has one
  owner (the operator, a leak, the setup under way, a guard), and what a setup
  has created is a function of how many of its commands have run.
* `CeilingsCompare` (`CeilingComparable`) and `LabelsAreTrue`
  (`FullProtectionLabelled`), from `RowInv`: the entries of the cache are what
  their keys say (`CacheHonest`), although earlier configurations made them; the
  carrier is the one the scenario resolves to (`CarrierFits`).
* `AbortsAreExplained` (`AbortsExplained`), from `AbortInv`: as long as nothing
  was disturbed, the place of the driver tells which tests the scenario has
  passed (`WayHere`). The last of the three cases needs products of connections,
  runs and sweep steps.
* `PathsAreCoherent` (`PathCoherent`), from `PathInv`: past validation every
  scenario has no errors, and a running gateway has the rules and sockets its
  driver computes. The theorem composes five stages that decide a part each:
  validation, plan, specification, framing and the split into processes. The
  first attempt failed: `PathCoherent` then excepted hot reload over `udp`
  altogether, but where a framing puts TLS under the datagrams the rules do
  speak TCP. TLC exhibited the case once the instance varied it, and the
  exception now says so.
* `GeneratedRowsAreMeasured` (`GeneratedRowsMeasured`) and
  `GeneratedSuitesValidate`, for the documents of every coherent matrix. The
  hypotheses of both are about the input only: what `generate` checks of a matrix
  and what holds of the checked-in one by inspection (`Coherent`; TLC evaluates
  it on the instance's matrices as `MatrixCoherent`), and that the suite's items
  are the rows the generator wrote (`Expanded`). What a row of each section of
  the matrix looks like (`Written`) then implies that validation has nothing to
  say (`Smooth`) and that every stage of the driver finds what it needs, or stops
  at a requirement or a gateway the host lacks (`OnItsWay`, `Explained`). For the
  transparent rows it must also be shown that none of their kernel commands finds
  its object already there (`TproxySucceeds`). Documents are concatenations of
  sections, so membership in a concatenation is proved once, by induction over
  its length.
* `SuitesRunDown`: `StepsLeft` is a natural number in every reachable state and
  every step lowers it or is a disturbance, of which a host has finitely many.
  It weighs the scenarios left, the place of the driver in the current one and
  the commands left of an installation: at most 180 steps per scenario. This is
  the part of `SuiteEnds` that needs no fairness.
* `TypeCorrect`. Not inductive by itself: the points of a sweep are whole numbers
  only because validation refuses a start or a step that is not positive, so
  `TypeInv` says of every scenario past validation that its sweep is sound
  (`SweepsWhole`).

`SuiteResume_proofs`, for any number of scenarios and launches
* `TypeCorrect` and `KeptSafe` (`RecordedIsKept`, an action property), from
  `IInv`: a process writes a scenario only if no earlier one left a terminal
  artifact of it (`FreshWhenWritten`).
* `RowsSafe` (`RowIsOneMeasurement`), from `RInv`. The property is about the
  disk and depends on the order of the writes, so the invariant follows the
  list of artifacts still to be written: it is in `Order`, and `Ready` says what
  the process has written by the time an artifact is next. `WriteKeepsRows`
  covers complete and torn writes alike, `RebuiltRows` the tables.
* `AccountSafe` (`AccountedFor`), from `AInv`: what is decided about a scenario
  once an artifact is next (`Decided`), that no scenario has two verdicts
  (`OneVerdict`), that what is being written ends in an artifact `Recorded`
  finds (`EndsRecorded`), that everything before the current scenario is
  recorded (`NoneLeftOut`), and which tables are up to date (`TablesBuilt`).
* `PacingSafe` (`PacedAlike`), from `PInv`: throughput rows come first
  (`ThroughputFirst`), a summary of the running process is of a scenario its
  loop has come to (`Reached`), and a latency row whose summary is still to be
  written was paced off the ceiling (`PacedWhenMeasured`), which therefore does
  not change under it.

`Workloads_proofs`
* `VerdictIsExact`: `StreamsSpec => []SafetyVerdictExact`, for any number of
  streams and any capacity. `StreamsInv` keeps an account per stream: the path
  holds the latest numbers, every earlier one from the first recorded on is lost,
  damaged or recorded, and the record rises. Receivers record only while measuring
  (`RecordedLate`) and not after they were joined (`JoinedStopped`), so the
  verdict stays that of the final records although the path goes on losing.
* `ReportIsComplete`: `DistSpec => []ReportComplete`, for any number of links.
  `DistInv` follows a link to its end: report and buffer are consecutive and, as
  long as the link is open, all that was written; links are opened in order and
  are waiting or accepted but not both; they are read and closed in the order of
  acceptance; one closed after its writer had ended was read to its end. What
  was counted is bounded by the set of messages written.

Assumptions on the constants are that sizes, capacities and counts are positive
numbers, that enumerations (connections, streams, links, scenarios) are finite
initial segments where the code counts them, and the shape of the cases of
`SuiteRun`, where the rates of a sweep are whole numbers of Mbit/s (the code
computes with `f64`). TLC evaluates each of them on the instances.

Only model-checked is liveness (`RunReturns` of both engines, `NoMessageStuck`,
`WatchedScenarioEnds`, `SuiteEnds`, `EndpointsReturn`, `WorkloadsReturn`): the
prover does not reason about fairness and ENABLED. It cannot instantiate an
induction rule with an operator either; where an induction over a length is
needed, it is applied to the set of counterexamples, which has a smallest
element (`SmallestOf`, `CountUp`). Definitions by `RECURSIVE` operators are
avoided throughout.

## 5. Not modelled

* Statistics, latency figures, headroom verdicts and the knee of a sweep are
  floating-point arithmetic over returned values; what they are computed from,
  and under which conditions it was measured, is modelled.
* System metrics, the overview report, PKI, console, command line and progress
  read the host or render text; nothing the properties speak of depends on them.
* Core affinity reads the topology of the host; the pools it yields are fields
  of a scenario in `SuiteRun`.
* DSCP marks are socket options whose observation only sets a column.
* Which source a datagram of a shared backend socket came from: a shuffled path
  of `RunEngine` hands it to any receiver, and nothing is promised about the
  statistics of a single connection there.
* Port reservation (`gateway/mod.rs:112`): the `u16` counter wraps at 65536,
  which is no multiple of the 12000 ports, so the sequence jumps; a port in use
  is refused by the bind and the next one is tried.
* The connection pool (`gateway/config.rs`) is capped at 4096, above which it
  is smaller than the number of connections.
* Process ids given to programs outside the suite: `KillsOnlyOwn` speaks of the
  suite's own processes.
* What a gateway does with a SIGHUP. The result of the signal is discarded.
* veth and netns topologies are set up and removed, but the traffic of a
  scenario does not use them (`topology/mod.rs:10-12`); multi-stream scenarios
  set up neither topology nor impairment.
* The comparison table of a resumed suite (`results.rs:801`) holds the rows of
  the last process; a hot-reload scenario stopped before its last artifact never
  gets it. Both are states of `SuiteResume` about which nothing is promised.

The relaxed ordering of the phase flag is a single atomic location, for which
interleaving is exact.

## 6. Plan

What remains to be proved is an abstract suite that is never interrupted, which
`SuiteResume` implements up to the excepted multi-stream case. Of the code, the
pacer's deadlines and the percentile ranks remain as pure algorithms.
