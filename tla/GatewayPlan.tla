----------------------------- MODULE GatewayPlan -----------------------------
(***************************************************************************)
(* From a scenario to the gateway rules that carry it: the dispatch and    *)
(* the security decisions of commands.rs (loopback_transport,              *)
(* gateway_plan, resolve_security, build_security_spec), the rule pairs    *)
(* of gateway/mod.rs and the effective label of gateway/logscan.rs.        *)
(*                                                                         *)
(* A certificate is modelled by whether it is there; addresses and tuning  *)
(* knobs, which the gateway receives verbatim, are left out.  A rule is    *)
(* the protocols of its two sides, its provider and its parameters.        *)
(***************************************************************************)
EXTENDS ScenarioConfig

\* loopback_transport: the sockets of a scenario that needs no gateway.
LoopbackTransport(s) ==
    IF HasStreams(s) \/ s.gateway \/ s.kind # "none" \/ ~HasSender(s)
       \/ s.interface \notin {"tcp", "udp"}
    THEN Absent ELSE s.interface

(***************************************************************************)
(* GwSecurity: the protocol decision, before any certificate exists.       *)
(***************************************************************************)
Security(mode, version, kernel, mutual) ==
    [mode |-> mode, version |-> version, kernel |-> kernel, mutual |-> mutual]

Routing       == Security("routing", Absent, FALSE, FALSE)
RoutingUdp    == Security("routing-udp", Absent, FALSE, FALSE)
CustomSecurity == Security("custom", Absent, FALSE, FALSE)
TlsSecurity(s)  == Security("tls", s.version, s.kernel, s.mutual)
DtlsSecurity(s) == Security("dtls", s.version, FALSE, s.mutual)
\* The NULL cipher runs in userspace and authenticates the server only.
IntegrityOnly(s) == Security("integrity", s.version, FALSE, FALSE)

\* Neither provider nor rules differ when the protection is routing alone.
PlainRouting(s) == s.kind = "none" \/ s.protection = "routing"

\* resolve_security: the decision where the transport does not matter.
ResolveSecurity(s) ==
    CASE PlainRouting(s)   -> Routing
      [] s.kind = "tls" /\ s.protection = "integrity" /\ ~PlainRouting(s) -> IntegrityOnly(s)
      [] s.kind = "tls" /\ s.protection = "full" -> TlsSecurity(s)
      [] s.kind = "dtls" /\ ~PlainRouting(s)   -> DtlsSecurity(s)
      [] s.kind = "custom" /\ ~PlainRouting(s) -> CustomSecurity
      [] s.kind \in {"wireguard", "ipsec"}     -> Routing

(***************************************************************************)
(* gateway_plan: the security and the transport of a gateway scenario, or  *)
(* NoPlan when no path of the harness carries it.                          *)
(***************************************************************************)
NoPlan == [security |-> Routing, transport |-> Absent]

Plan(security, transport) == [security |-> security, transport |-> transport]

TcpPlan(s) ==
    CASE PlainRouting(s) -> Plan(Routing, "scg-tcp")
      [] s.kind = "tls" /\ s.protection = "integrity" -> Plan(IntegrityOnly(s), "scg-tls-integrity")
      [] s.kind = "tls" /\ s.protection = "full" ->
            Plan(TlsSecurity(s),
                 CASE s.kernel /\ s.mutual   -> "scg-ktls-mtls"
                   [] s.kernel /\ ~s.mutual  -> "scg-ktls"
                   [] ~s.kernel /\ s.mutual  -> "scg-mtls"
                   [] ~s.kernel /\ ~s.mutual -> "scg-tls")
      [] s.kind = "custom" /\ ~PlainRouting(s) -> Plan(CustomSecurity, "scg-custom")
      [] OTHER -> NoPlan

\* Datagrams: TLS only inside a framing, otherwise plain or a custom provider.
UdpPlan(s) ==
    CASE s.kind = "tls" /\ s.app = "none" -> NoPlan
      [] s.kind = "tls" /\ s.app # "none" ->
            Plan(TlsSecurity(s), IF s.app = "ale" THEN "scg-udp-ale" ELSE "scg-udp-raw")
      [] s.kind # "tls" /\ PlainRouting(s) -> Plan(RoutingUdp, "scg-udp-routing")
      [] s.kind = "custom" /\ ~PlainRouting(s) -> Plan(CustomSecurity, "scg-custom-udp")
      [] OTHER -> NoPlan

PlanFor(s) ==
    CASE ~s.gateway -> NoPlan
      [] s.gateway /\ HasStreams(s) -> Plan(ResolveSecurity(s), "scg-multistream")
      [] s.gateway /\ ~HasStreams(s) /\ ~HasSender(s) -> NoPlan
      [] OTHER ->
            IF s.kind = "dtls"
            THEN IF s.interface # "udp" THEN NoPlan
                 ELSE Plan(DtlsSecurity(s), IF s.mutual THEN "scg-dtls-mtls" ELSE "scg-dtls")
            ELSE CASE s.interface = "unix"   -> Plan(ResolveSecurity(s), "scg-uds")
                   [] s.interface = "shm"    -> Plan(ResolveSecurity(s), "scg-shm")
                   [] s.interface = "tproxy" -> Plan(ResolveSecurity(s), "scg-tproxy")
                   [] s.interface = "udp"    -> UdpPlan(s)
                   [] s.interface = "tcp"    -> TcpPlan(s)

(***************************************************************************)
(* SecuritySpec.  identity and bundle say whether a server certificate and *)
(* a client one with its CA are present.                                   *)
(***************************************************************************)
Spec0 ==
    [ provider |-> "routing", proto |-> "tcp", version |-> Absent, verify |-> Absent,
      server |-> FALSE, client |-> FALSE, ca |-> FALSE, server_name |-> FALSE,
      profile |-> Absent, app |-> "none", class |-> "normal", resumption |-> FALSE,
      encrypt_listen |-> Absent, encrypt_upstream |-> Absent,
      decrypt_listen |-> Absent, decrypt_upstream |-> Absent, zero_copy |-> FALSE ]

RoutingUdpSpec == [Spec0 EXCEPT !.proto = "udp"]

CustomSpec(provider, proto) == [Spec0 EXCEPT !.provider = provider, !.proto = proto]

ServerSpec(provider, proto, version) ==
    [Spec0 EXCEPT !.provider = provider, !.proto = proto, !.version = version,
                  !.verify = "none", !.server = TRUE]

MutualSpec(provider, proto, version) ==
    [Spec0 EXCEPT !.provider = provider, !.proto = proto, !.version = version,
                  !.verify = "mutual", !.server = TRUE, !.client = TRUE, !.ca = TRUE,
                  !.server_name = TRUE]

\* The certificates a decision needs, and whether the scenario selects them itself;
\* the ones it does not select are generated with the openssl command line.
NeedsServer(sec) == sec.mode \in {"tls", "integrity", "dtls"} /\ ~sec.mutual
NeedsBundle(sec) == sec.mode \in {"tls", "dtls"} /\ sec.mutual
SelectsServer(s) == {"server_cert", "server_key"} \subseteq s.certs
SelectsBundle(s) == MutualBundle \subseteq s.certs

MaterialAvailable(s, sec, openssl) ==
    /\ NeedsServer(sec) => SelectsServer(s) \/ openssl
    /\ NeedsBundle(sec) => SelectsBundle(s) \/ openssl

\* build_security_spec fails without the material, or without a custom provider.
SpecBuildable(s, sec, openssl) ==
    /\ MaterialAvailable(s, sec, openssl)
    /\ sec.mode = "custom" => s.provider # Absent

\* The spec of the decision alone.
DecidedSpec(s, sec) ==
    CASE sec.mode = "routing"     -> Spec0
      [] sec.mode = "routing-udp" -> RoutingUdpSpec
      [] sec.mode = "custom"      ->
            CustomSpec(s.provider, IF s.interface = "udp" THEN "udp" ELSE "tcp")
      [] sec.mode = "integrity"   ->
            [ServerSpec("tls", "tcp", sec.version) EXCEPT !.profile = "integrity-only"]
      [] sec.mode = "tls" ->
            LET provider == IF sec.kernel THEN "ktls" ELSE "tls"
            IN  IF sec.mutual THEN MutualSpec(provider, "tcp", sec.version)
                              ELSE ServerSpec(provider, "tcp", sec.version)
      [] sec.mode = "dtls" ->
            IF sec.mutual THEN MutualSpec("dtls", "udp", sec.version)
                          ELSE ServerSpec("dtls", "udp", sec.version)

\* apply_protocol_security_overrides: a given profile replaces the decided one.
Overridden(s, spec) ==
    [spec EXCEPT !.profile = IF s.profile = Absent THEN @ ELSE s.profile,
                 !.resumption = s.resumption,
                 !.server = @ \/ SelectsServer(s),
                 !.client = @ \/ "client_cert" \in s.certs,
                 !.ca = @ \/ "ca_cert" \in s.certs,
                 !.server_name = @ \/ "server_name" \in s.certs]

SecuritySpec(s, sec) == Overridden(s, DecidedSpec(s, sec))

\* Regression: the framing keeps one protocol for all four sides.
WithFraming_Symmetric(spec, app) == IF app = "none" THEN spec ELSE [spec EXCEPT !.app = app]

\* with_asymmetric_ale: datagrams outside, the TLS stream between the two rules.
WithFraming(spec, app) ==
    IF app = "none" THEN spec
    ELSE [spec EXCEPT !.app = app, !.encrypt_listen = "udp", !.encrypt_upstream = "tcp",
                      !.decrypt_listen = "tcp", !.decrypt_upstream = "udp"]

\* with_optimizations, as far as the rules show it.
WithOptimizations(spec, s) == [spec EXCEPT !.zero_copy = s.zero_copy]

WithTrafficClass(spec, class) == [spec EXCEPT !.class = class]

(***************************************************************************)
(* The rule pair of a spec (apply_common, apply_encrypt, apply_decrypt,    *)
(* build_rule_pair).                                                       *)
(***************************************************************************)
Given(override, default) == IF override = Absent THEN default ELSE override

Rule(spec, direction, listen, upstream, verify, cert, ca) ==
    [ direction |-> direction, listen |-> listen, upstream |-> upstream,
      provider |-> spec.provider, version |-> spec.version, profile |-> spec.profile,
      app |-> spec.app, class |-> spec.class, resumption |-> spec.resumption,
      zero_copy |-> spec.zero_copy, verify |-> verify, cert |-> cert, ca |-> ca,
      transparent |-> FALSE ]

\* Whether the connecting side verifies its peer is decided apart from verify.
EncryptVerify(spec) ==
    CASE spec.provider = "routing" -> Absent
      [] spec.provider # "routing" /\ spec.profile = "subset146-pki" -> "mutual"
      [] spec.provider # "routing" /\ spec.profile # "subset146-pki" ->
            IF spec.client /\ spec.ca THEN "server" ELSE "none"

EncryptRule(spec) ==
    Rule(spec, "encrypt", Given(spec.encrypt_listen, spec.proto),
         Given(spec.encrypt_upstream, spec.proto), EncryptVerify(spec), spec.client, spec.ca)

DecryptRule(spec) ==
    Rule(spec, "decrypt", Given(spec.decrypt_listen, spec.proto),
         Given(spec.decrypt_upstream, spec.proto), spec.verify, spec.server,
         spec.verify = "mutual" /\ spec.ca)

RulePair(spec) == <<EncryptRule(spec), DecryptRule(spec)>>

\* gateways_for_topology: one process with both rules, or one process each.
SplitRules(s, pairs) ==
    LET encrypts == [i \in DOMAIN pairs |-> pairs[i][1]]
        decrypts == [i \in DOMAIN pairs |-> pairs[i][2]]
    IN  IF s.chain = "scg-scg" THEN <<encrypts, decrypts>> ELSE <<encrypts \o decrypts>>

(***************************************************************************)
(* scan_effective and effective_protocol_label: fell_back says whether     *)
(* the gateway logged that kernel TLS is not active.                       *)
(***************************************************************************)
KernelRequested(sec) == sec.mode = "tls" /\ sec.kernel

\* Regression: the label is the configured one.
EffectiveLabel_Configured(s, sec, fell_back) == ProtocolLabel(s)

EffectiveLabel(s, sec, fell_back) ==
    IF KernelRequested(sec) /\ fell_back
    THEN [ProtocolLabel(s) EXCEPT !.base = IF @ = "ktls" THEN "tls" ELSE @]
    ELSE ProtocolLabel(s)

(***************************************************************************)
(* The transport run_gateway_scenario starts for a plan, and the sockets   *)
(* the harness opens on it.                                                *)
(***************************************************************************)
IsUdp(plan) ==
    plan.security.mode = "dtls" \/ plan.transport \in {"scg-udp-routing", "scg-custom-udp"}

IsFramed(plan) == plan.transport \in {"scg-udp-ale", "scg-udp-raw"}

DutKind(plan) ==
    CASE plan.transport = "scg-uds"    -> "uds"
      [] plan.transport = "scg-shm"    -> "shm"
      [] plan.transport = "scg-tproxy" -> "tproxy"
      [] OTHER -> IF IsUdp(plan) \/ IsFramed(plan) THEN "udp" ELSE "tcp"

Sockets(dut) == IF dut = "tproxy" THEN "tcp" ELSE dut

\* provisioned_pipelines: one local pipeline per connection of every repetition.
ProvisionedPipelines(connections, runs) ==
    (IF connections = 0 THEN 1 ELSE connections) * (IF runs = 0 THEN 1 ELSE runs)
=============================================================================
