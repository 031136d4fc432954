------------------------------ MODULE SuiteRun ------------------------------
(***************************************************************************)
(* A suite from launch to end, as run_config drives it (commands.rs): each *)
(* scenario is dispatched, its host network is prepared, its gateway       *)
(* started, its traffic run, its ceiling probed, its sweep run, its row    *)
(* recorded, and everything it installed is dropped on the way out.  The   *)
(* traffic itself is one step here; RunEngine and GatewayScenario open it. *)
(*                                                                         *)
(* An error returned with "?" ends the suite; an error a scenario reports  *)
(* as a skip ends only that scenario.  Disturbances (a refused command, a  *)
(* failing gateway or probe, a killed process, an operator's own           *)
(* subcommand) may happen as often as the host allows: host.faults.        *)
(***************************************************************************)
EXTENDS GatewayPlan, HostNetwork

CONSTANT Cases      \* what is launched where: a set of [suite, host]

\* A suite is [generated, defaults, items], a host [features, binary, faults].
ASSUME CasesAssumption ==
    \A c \in Cases : /\ c.host.features \subseteq Features
                     /\ c.host.binary \in BOOLEAN /\ c.host.faults \in Nat
                     /\ IsList(c.suite.items)
                     /\ \A item \in ToSet(c.suite.items) :
                           /\ IsList(item.scenario.streams)
                           /\ item.scenario.connections \in Nat /\ item.scenario.runs \in Nat
                           /\ LET sweep == item.scenario.sweep IN
                              sweep.given => {sweep.start, sweep.step, sweep.max} \subseteq Int

VARIABLES suite,        \* the suite given on the command line
          host,         \* the host it runs on: features, gateway binary, faults to come
          todo,         \* items still to run: [scenario, cores]
          pc,           \* where the driver is
          path,         \* which driver runs the current scenario
          dut,          \* what carries its traffic
          opened,       \* connections opened on it so far
          ceilings,     \* the ceiling cache: key -> conditions it was probed under
          ceiling,      \* the entry the current scenario uses
          row,          \* the row recorded last
          recorded,     \* names of the recorded scenarios
          outcome,      \* how the current or the last scenario ended
          disturbances

driverVars == <<suite, host, todo, pc, path, dut, opened, ceilings, ceiling, row, recorded, outcome,
                disturbances>>
vars == <<driverVars, hostVars>>

NoDut     == [kind |-> "none", gateway |-> FALSE, rules |-> <<>>, pipelines |-> 0]
NoCeiling == [transport |-> Absent]
NoRow     == [scenario |-> Absent]

Paths == {"none", "loopback", "gateway", "streams", "reload"}

Scn   == Head(todo).scenario
Cores == Head(todo).cores
Plan1 == PlanFor(Scn)

\* build_run_params: what the engine is given.  A message holds its header, and there
\* is at least one connection and one run.
AtLeast(least, n) == IF n < least THEN least ELSE n

HEADER_LEN == 24

RunParams(s) ==
    [ size |-> AtLeast(HEADER_LEN, s.size), connections |-> AtLeast(1, s.connections),
      runs |-> AtLeast(1, s.runs) ]

Params == RunParams(Scn)

Has(feature) == feature \in host.features

Undisturbed == disturbances < host.faults
Disturb     == Undisturbed /\ disturbances' = disturbances + 1

\* Ways a scenario can end.
SkipReasons ==
    {"unmet-requirements", "not-implemented", "no-gateway-binary", "unsupported-mode",
     "unsupported-topology", "no-capability", "setup-failed", "no-security-material",
     "gateway-failed-to-start", "run-failed", "zero-metrics"}

(***************************************************************************)
(* Steps of the driver.  Goto keeps everything but its place; Leave ends   *)
(* the scenario with an outcome: what it holds is dropped by EndScenario.  *)
(***************************************************************************)
Goto(next) ==
    /\ pc' = next
    /\ UNCHANGED <<suite, host, todo, path, dut, opened, ceilings, ceiling, row, recorded, outcome>>

Leave(how) ==
    /\ pc' = "leave" /\ outcome' = how
    /\ UNCHANGED <<suite, host, todo, path, dut, opened, ceilings, ceiling, row, recorded>>

Calm == UNCHANGED <<hostVars, disturbances>>

\* run refuses a suite that does not validate.
Launch ==
    /\ pc = "idle"
    /\ LET scenarios == [i \in DOMAIN suite.items |-> suite.items[i].scenario] IN
       Goto(IF Validates(suite.defaults, scenarios) THEN "next" ELSE "refused")
    /\ Calm

FinishSuite == pc = "next" /\ todo = <<>> /\ Goto("done") /\ Calm

\* Regression: a scenario that is passed over is looked at again.
PassOver_Stays ==
    /\ pc = "next" /\ todo # <<>>
    /\ ~Scn.enabled \/ Scn.name \in recorded
    /\ UNCHANGED vars

\* Disabled scenarios and, on a resume, recorded ones are passed over.
PassOver ==
    /\ pc = "next" /\ todo # <<>>
    /\ ~Scn.enabled \/ Scn.name \in recorded
    /\ todo' = Tail(todo)
    /\ UNCHANGED <<suite, host, pc, path, dut, opened, ceilings, ceiling, row, recorded, outcome>>
    /\ Calm

LoopbackDut(interface) == [kind |-> interface, gateway |-> FALSE, rules |-> <<>>, pipelines |-> 0]

Enter(driver, carrier, next) ==
    /\ path' = driver /\ dut' = carrier /\ pc' = next /\ opened' = 0
    /\ ceiling' = NoCeiling /\ outcome' = "running"
    /\ UNCHANGED <<suite, host, todo, ceilings, row, recorded>>

\* The order of the tests is the order of run_config.
Dispatch ==
    /\ pc = "next" /\ todo # <<>> /\ Scn.enabled /\ Scn.name \notin recorded
    /\ CASE ~(Needs(Scn) \subseteq host.features) -> Leave("unmet-requirements")
         [] OTHER ->
            IF LoopbackTransport(Scn) # Absent
            THEN Enter("loopback", LoopbackDut(LoopbackTransport(Scn)), "run")
            ELSE IF Plan1 = NoPlan THEN Leave("not-implemented")
            ELSE IF ~host.binary THEN Leave("no-gateway-binary")
            ELSE IF HasStreams(Scn) /\ Plan1.security.mode \in {"dtls", "routing-udp"}
            THEN Leave("unsupported-mode")
            ELSE IF HasStreams(Scn) THEN Enter("streams", NoDut, "spec")
            ELSE IF Scn.reload # Absent THEN Enter("reload", NoDut, "spec")
            ELSE IF Scn.mode = "pingpong" /\ Plan1.security.mode = "dtls"
            THEN Leave("unsupported-mode")
            ELSE Enter("gateway", NoDut, "topology")
    /\ Calm

(***************************************************************************)
(* run_gateway_scenario: topology, then impairment.                        *)
(***************************************************************************)
Install(what) == StartInstalling(what) /\ Goto("installing") /\ UNCHANGED disturbances

ProvisionTopology ==
    /\ pc = "topology"
    /\ \/ Scn.topology = "loopback" /\ Goto("impair") /\ Calm
       \/ Scn.topology \in {"physical", "remote"} /\ Leave("unsupported-topology") /\ Calm
       \/ /\ Scn.topology \in {"veth", "netns"}
          /\ IF Has("cap_net_admin") THEN Install(Scn.topology)
             ELSE Leave("no-capability") /\ Calm

Impair ==
    /\ pc = "impair"
    /\ \/ ~Scn.impaired /\ Goto("spec") /\ Calm
       \/ Scn.impaired /\ Install("netem")

\* Where each installation continues.
After(what) ==
    CASE what \in {"veth", "netns"} -> "impair"
      [] what = "netem"             -> "spec"
      [] what = "tproxy"            -> "start"

InstallStep ==
    /\ pc = "installing"
    /\ \/ CommandRuns /\ Has("cap_net_admin") /\ UNCHANGED driverVars
       \/ Installed /\ Goto(After(installing)) /\ UNCHANGED disturbances
       \/ /\ CommandFails(~Has("cap_net_admin")) /\ Leave("setup-failed")
          /\ UNCHANGED disturbances

\* The kernel refuses a command although the process has the capability.
InstallRefused ==
    /\ pc = "installing" /\ Has("cap_net_admin")
    /\ CommandFails(TRUE) /\ Leave("setup-failed") /\ Disturb

\* build_security_spec: an error ends a multi-stream suite, and skips elsewhere.
BuildSpec ==
    /\ pc = "spec"
    /\ \/ /\ SpecBuildable(Scn, Plan1.security, Has("openssl"))
          /\ IF path = "gateway" /\ DutKind(Plan1) = "tproxy"
             THEN IF Has("cap_net_admin") THEN Install("tproxy")
                  ELSE Leave("no-capability") /\ Calm
             ELSE Goto("start") /\ Calm
       \/ /\ ~SpecBuildable(Scn, Plan1.security, Has("openssl"))
          /\ Leave(IF path = "streams" THEN "aborted" ELSE "no-security-material")
          /\ Calm

(***************************************************************************)
(* Starting the gateway.  The rules of each driver: multi-stream has a     *)
(* pair per traffic class, hot-reload knows neither framing nor tuning,    *)
(* and a local endpoint replaces the outer side of its pair.               *)
(***************************************************************************)
StreamClasses(s) == {CanonicalClass(s.streams[i].class) : i \in DOMAIN s.streams}

BaseSpec == SecuritySpec(Scn, Plan1.security)
FullSpec == WithOptimizations(WithFraming(BaseSpec, Scn.app), Scn)

LocalPair(pair, proto) ==
    <<[pair[1] EXCEPT !.listen = proto], [pair[2] EXCEPT !.upstream = proto]>>

TransparentPair(pair) == <<[pair[1] EXCEPT !.transparent = TRUE], pair[2]>>

RulePairs ==
    CASE path = "streams" ->
            LET classes == SetToSeq(StreamClasses(Scn))
            IN  [i \in DOMAIN classes |-> RulePair(WithTrafficClass(BaseSpec, classes[i]))]
      [] path = "reload"  -> <<RulePair(BaseSpec)>>
      [] path = "gateway" ->
            CASE DutKind(Plan1) \in {"uds", "shm"} -> <<LocalPair(RulePair(FullSpec), DutKind(Plan1))>>
              [] DutKind(Plan1) = "tproxy"         -> <<TransparentPair(RulePair(FullSpec))>>
              [] OTHER                             -> <<RulePair(FullSpec)>>

\* Plain routing through one transparent gateway is a single hop.
SingleHop == DutKind(Plan1) = "tproxy" /\ FullSpec.provider = "routing" /\ Scn.chain # "scg-scg"

Rules ==
    IF path = "gateway" /\ SingleHop THEN <<<<RulePairs[1][1]>>>> ELSE SplitRules(Scn, RulePairs)

CarrierKind == IF path = "gateway" THEN DutKind(Plan1) ELSE "tcp"

\* Endpoint reloads need one process and a TCP rule to copy the template from.
TemplateAvailable ==
    Scn.reload \in {"add_connection", "remove_connection"} =>
        Scn.chain = "scg-direct" /\ EncryptRule(BaseSpec).listen = "tcp"

StartGateway ==
    /\ pc = "start"
    /\ \/ /\ path = "reload" => TemplateAvailable
          /\ dut' = [ kind |-> CarrierKind, gateway |-> TRUE, rules |-> Rules,
                      pipelines |-> ProvisionedPipelines(Params.connections, Params.runs) ]
          /\ pc' = "run"
          /\ UNCHANGED <<suite, host, todo, path, opened, ceilings, ceiling, row, recorded, outcome>>
          /\ Calm
       \/ path = "reload" /\ ~TemplateAvailable /\ Leave("gateway-failed-to-start") /\ Calm

StartFails == pc = "start" /\ Leave("gateway-failed-to-start") /\ Disturb /\ UNCHANGED hostVars

(***************************************************************************)
(* Running the traffic.                                                    *)
(***************************************************************************)
\* Which transports can play each mode; the others report Unsupported.
Supports(carrier, mode) ==
    CASE mode = "throughput" -> TRUE
      [] mode = "pingpong"   -> ~(carrier.gateway /\ carrier.kind = "udp")
      [] mode = "connrate"   -> carrier.kind = "tcp"

\* Regression: every engine error is propagated.
EngineError_Propagated == Leave("aborted")

\* An engine error ends the suite on the loopback and in multi-stream.
EngineError == Leave(IF path \in {"loopback", "streams"} THEN "aborted" ELSE "run-failed")

EngineMode == IF path = "streams" THEN "throughput" ELSE Scn.mode

RunTraffic ==
    /\ pc = "run"
    /\ IF Supports(dut, EngineMode)
       THEN /\ opened' = Params.connections * Params.runs
            /\ pc' = IF path \in {"loopback", "gateway"} /\ Scn.mode = "throughput"
                     THEN "calibrate" ELSE "record"
            /\ UNCHANGED <<suite, host, todo, path, dut, ceilings, ceiling, row, recorded, outcome>>
       ELSE EngineError
    /\ Calm

RunFails == pc = "run" /\ EngineError /\ Disturb /\ UNCHANGED hostVars

\* No message arrived: only the gateway drivers look.
RunEmpty ==
    pc = "run" /\ path # "loopback" /\ Leave("zero-metrics") /\ Disturb /\ UNCHANGED hostVars

(***************************************************************************)
(* Calibration: the ceiling of the access interface under the scenario's   *)
(* own conditions, probed once per key.                                    *)
(***************************************************************************)
CeilingTransport ==
    CASE dut.kind = "uds" -> "uds-null"
      [] dut.kind = "shm" -> "shm-null"
      [] dut.kind = "udp" -> "udp"
      [] OTHER            -> "tcp"

\* ShmNullTransport::new: the ring of the probe has the scenario's size, at least a page.
NullRing(ring) == AtLeast(4096, ring)

\* ProbeSpec::for_params, and the ring of a shared-memory probe.
Conditions(transport) ==
    [ transport |-> transport, size |-> Params.size, connections |-> Params.connections,
      cores |-> Cores, ring |-> IF transport = "shm-null" THEN NullRing(Scn.ring) ELSE 0 ]

\* cache_key: the name of the transport and what its ability depends on.
CacheKey(transport) ==
    IF transport = "shm-null" THEN <<transport, NullRing(Scn.ring)>> ELSE <<transport>>

\* Regression: the core pools are not part of the key.
CeilingKey_NoCores(transport) ==
    [ transport |-> CacheKey(transport), size |-> Params.size, connections |-> Params.connections,
      cores |-> Absent ]

CeilingKey(transport) ==
    [ transport |-> CacheKey(transport), size |-> Params.size, connections |-> Params.connections,
      cores |-> Cores ]

UseCeiling(transport) ==
    LET key   == CeilingKey(transport)
        probe == IF key \in DOMAIN ceilings THEN ceilings[key] ELSE Conditions(transport)
    IN  /\ ceiling' = probe
        /\ ceilings' = [k \in DOMAIN ceilings \cup {key} |->
                           IF k = key THEN probe ELSE ceilings[k]]

CalibrateWith(transport) ==
    /\ UseCeiling(transport) /\ pc' = "sweep"
    /\ UNCHANGED <<suite, host, todo, path, dut, opened, row, recorded, outcome>>

Calibrate == pc = "calibrate" /\ CalibrateWith(CeilingTransport) /\ Calm

\* A failing null transport falls back to TCP; a TCP or UDP probe that fails, the fallback
\* among them, ends the suite.
NullCeiling == CeilingTransport \notin {"tcp", "udp"}

ProbeFails ==
    /\ pc = "calibrate"
    /\ CeilingKey(CeilingTransport) \notin DOMAIN ceilings
    /\ \/ NullCeiling /\ CalibrateWith("tcp")
       \/ (NullCeiling => CeilingKey("tcp") \notin DOMAIN ceilings) /\ Leave("aborted")
    /\ Disturb /\ UNCHANGED hostVars

\* sweep_saturation: every point opens its own connections; an error ends the suite.
\* Rates are whole numbers of Mbit/s.
MaxSweepPoints == 10000

SweepPoints(s) ==
    LET points == (s.sweep.max - s.sweep.start) \div s.sweep.step + 1
    IN  IF points > MaxSweepPoints THEN MaxSweepPoints ELSE points

Exhausted(more) == dut.kind \in {"uds", "shm"} /\ opened + more > dut.pipelines

Sweep ==
    /\ pc = "sweep"
    /\ IF ~Scn.sweep.given THEN Goto("record")
       ELSE IF Exhausted(Params.connections) THEN Leave("aborted")
       ELSE /\ opened' = opened + SweepPoints(Scn) * Params.connections
            /\ pc' = "record"
            /\ UNCHANGED <<suite, host, todo, path, dut, ceilings, ceiling, row, recorded, outcome>>
    /\ Calm

(***************************************************************************)
(* Recording: the gateway has been shut down and its log says whether a    *)
(* requested kernel TLS was active.                                        *)
(***************************************************************************)
Provider == IF dut.gateway THEN dut.rules[1][1].provider ELSE "none"

Record(fell_back) ==
    /\ pc = "record"
    /\ fell_back => KernelRequested(Plan1.security)
    /\ row' = [ scenario |-> Scn, driver |-> path, cores |-> Cores,
                label |-> IF path = "loopback" THEN ProtocolLabel(Scn)
                          ELSE EffectiveLabel(Scn, Plan1.security, fell_back),
                provider |-> Provider, kernel |-> Provider = "ktls" /\ ~fell_back,
                ceiling |-> ceiling, installed |-> guards ]
    /\ recorded' = recorded \cup {Scn.name}
    /\ outcome' = "recorded" /\ pc' = "leave"
    /\ UNCHANGED <<suite, host, todo, path, dut, opened, ceilings, ceiling>>
    /\ Calm

\* The scenario's values go out of scope: guards are dropped, then the loop goes on
\* or, after an error, the suite ends.
EndScenario ==
    /\ pc = "leave"
    /\ DropGuards(Installations)
    /\ dut' = NoDut /\ path' = "none" /\ opened' = 0 /\ ceiling' = NoCeiling
    /\ todo' = Tail(todo)
    /\ pc' = IF outcome = "aborted" THEN "aborted" ELSE "next"
    /\ UNCHANGED <<suite, host, ceilings, row, recorded, outcome, disturbances>>

(***************************************************************************)
(* The process is killed; the suite may be resumed in the same results     *)
(* directory.  Between two runs the operator may use the subcommands.      *)
(***************************************************************************)
Killed ==
    /\ pc \notin {"idle", "refused", "done", "aborted", "dead"}
    /\ ProcessDies /\ Disturb
    /\ pc' = "dead" /\ dut' = NoDut /\ path' = "none" /\ opened' = 0 /\ ceiling' = NoCeiling
    /\ UNCHANGED <<suite, host, todo, ceilings, row, recorded, outcome>>

Resume ==
    /\ pc \in {"dead", "aborted"}
    /\ pc' = "next" /\ todo' = suite.items /\ ceilings' = <<>> /\ outcome' = "none"
    /\ UNCHANGED <<suite, host, path, dut, opened, ceiling, row, recorded>>
    /\ Disturb /\ UNCHANGED hostVars

OperatorCommand ==
    /\ pc \in {"idle", "dead"}
    /\ Has("cap_net_admin") /\ Disturb
    /\ \/ \E what \in {"veth", "netns", "netem"} : OperatorSetup(what)
       \/ \E mode \in {"veth", "netns"} : OperatorTeardown(mode)
    /\ UNCHANGED <<suite, host, todo, pc, path, dut, opened, ceilings, ceiling, row, recorded, outcome>>

Init ==
    /\ HostInit
    /\ \E c \in Cases : suite = c.suite /\ host = c.host
    /\ todo = suite.items
    /\ pc = "idle" /\ path = "none" /\ dut = NoDut /\ opened = 0
    /\ ceilings = <<>> /\ ceiling = NoCeiling /\ row = NoRow /\ recorded = {}
    /\ outcome = "none" /\ disturbances = 0

Progress ==
    \/ Launch \/ FinishSuite \/ PassOver \/ Dispatch
    \/ ProvisionTopology \/ Impair \/ InstallStep \/ BuildSpec \/ StartGateway
    \/ RunTraffic \/ Calibrate \/ Sweep \/ EndScenario
    \/ \E fell_back \in BOOLEAN : Record(fell_back)

Disturbance ==
    \/ InstallRefused \/ StartFails \/ RunFails \/ RunEmpty \/ ProbeFails
    \/ Killed \/ Resume \/ OperatorCommand

Next == Progress \/ Disturbance

Spec == Init /\ [][Next]_vars /\ WF_vars(Progress)

-----------------------------------------------------------------------------
TypeOK ==
    /\ HostTypeOK
    /\ path \in Paths /\ opened \in Nat
    /\ outcome \in SkipReasons \cup {"none", "running", "recorded", "aborted"}
    /\ disturbances \in 0..host.faults

(***************************************************************************)
(* The rules of a gateway and the sockets of the harness fit together:     *)
(* the harness speaks the outer protocol of both ends and the two rules    *)
(* speak the same one between them.  Validation, the plan, the spec and    *)
(* the framing each decide a part of it.  The two cases that validation    *)
(* lets through are named: hot-reload drives TCP sockets and knows no      *)
(* framing, so datagrams misfit unless a framing put TLS, hence TCP rules, *)
(* under them; and a custom provider takes its protocol from the sender    *)
(* although multi-stream drives TCP.                                       *)
(***************************************************************************)
Misfit ==
    \/ path = "reload" /\ Scn.interface = "udp" /\ Scn.app = "none"
    \/ path = "streams" /\ Scn.interface = "udp" /\ Scn.kind = "custom" /\ ~PlainRouting(Scn)

Ends2(rules) ==
    LET all == UNION {ToSet(rules[i]) : i \in DOMAIN rules} IN
    [ encrypt |-> {r \in all : r.direction = "encrypt"},
      decrypt |-> {r \in all : r.direction = "decrypt"} ]

Fits ==
    LET e == Ends2(dut.rules) IN
    /\ \A r \in e.encrypt : r.listen = Sockets(dut.kind)
    /\ \A r \in e.decrypt : r.upstream = Sockets(dut.kind)
    /\ \A r \in e.encrypt, q \in e.decrypt : r.upstream = q.listen
    /\ e.decrypt = {} => \A r \in e.encrypt : r.upstream = Sockets(dut.kind)

PathCoherent == dut.gateway => (Fits <=> ~Misfit)

(***************************************************************************)
(* A row's headroom compares like with like: the ceiling it uses was       *)
(* probed with the row's message size, connections, core pools and ring    *)
(* (a page at least), over the interface the harness touches (or over TCP  *)
(* after a failed probe), although one cache serves all configurations of  *)
(* a suite.                                                                *)
(***************************************************************************)
CeilingComparable ==
    row # NoRow /\ row.ceiling # NoCeiling =>
        /\ row.ceiling.size = RunParams(row.scenario).size
        /\ row.ceiling.connections = RunParams(row.scenario).connections
        /\ row.ceiling.cores = row.cores
        /\ row.ceiling.transport = "shm-null" => row.ceiling.ring = NullRing(row.scenario.ring)
        /\ row.ceiling.transport \in
              CASE row.driver = "loopback" -> {row.scenario.interface}
                [] row.driver = "gateway"  ->
                     CASE row.scenario.interface = "unix" -> {"uds-null", "tcp"}
                       [] row.scenario.interface = "shm"  -> {"shm-null", "tcp"}
                       [] row.scenario.interface = "udp"  -> {"udp"}
                       [] OTHER                           -> {"tcp"}

(***************************************************************************)
(* Between two scenarios the kernel holds what the operator installed and  *)
(* what a failed setup or a killed process left, and nothing else; no      *)
(* scenario removes what the operator owns.                                *)
(***************************************************************************)
HostRestored ==
    pc \in {"next", "done", "aborted", "idle", "dead"} => kernel = operator \cup leaked

(***************************************************************************)
(* The label of a row calls it kernel TLS exactly when the kernel carried  *)
(* it, wherever the protection is full.                                    *)
(***************************************************************************)
FullProtectionLabelled ==
    row # NoRow /\ row.scenario.protection = "full" =>
        (row.label.base = "ktls" <=> row.kernel)

(***************************************************************************)
(* Without a disturbance every enabled row of a generated suite is         *)
(* measured, or skipped for a requirement or a gateway the host lacks: the *)
(* requirements the matrix stamps on its rows are all the rows need.  The  *)
(* exception is named: ping-pong rows of datagram profiles are generated   *)
(* although no gateway path carries an echo back over UDP.                 *)
(***************************************************************************)
NoEcho == Scn.mode = "pingpong" /\ Scn.interface = "udp" /\ Scn.gateway

GeneratedRowsMeasured ==
    suite.generated /\ disturbances = 0 =>
        /\ pc # "refused"
        /\ pc = "leave" =>
              \/ outcome = "recorded" /\ ~NoEcho
              \/ outcome = "unmet-requirements"
              \/ outcome = "no-gateway-binary" /\ Scn.gateway
              \/ outcome \in {"unsupported-mode", "run-failed"} /\ NoEcho

(***************************************************************************)
(* Without a disturbance one scenario ends the whole suite in three cases  *)
(* only: connection churn over loopback UDP (of which README.md says that  *)
(* it is "skipped with a notice"), a sweep that outgrows the local         *)
(* pipelines of its gateway, and a multi-stream scenario whose             *)
(* certificates cannot be made.                                            *)
(***************************************************************************)
AbortsExplained ==
    pc = "leave" /\ disturbances = 0 =>
        (outcome = "aborted" <=>
            \/ path = "loopback" /\ Scn.interface = "udp" /\ Scn.mode = "connrate"
            \/ /\ path = "gateway" /\ dut.kind \in {"uds", "shm"}
               /\ Scn.mode = "throughput" /\ Scn.sweep.given
            \/ path = "streams" /\ ~dut.gateway)

\* However a suite is disturbed, every launch and every resume comes to an end: no
\* scenario leaves the driver waiting.
Over == pc \in {"done", "aborted", "refused", "dead"}

SuiteEnds == ~Over ~> Over

(***************************************************************************)
(* transport/tproxy.rs, on what a crashed run leaves: the setup copes with *)
(* a leftover.                                                             *)
(***************************************************************************)
LeftoversTolerated == "tproxy" \notin stale
=============================================================================
