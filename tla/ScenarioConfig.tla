--------------------------- MODULE ScenarioConfig ---------------------------
(***************************************************************************)
(* The scenario configuration (config/schema.rs) and its validation        *)
(* (config/mod.rs).  A scenario is a record of the choices that later      *)
(* stages branch on.  Addresses are modelled by their form, optional       *)
(* fields by the set of those that are given, and a validation report by   *)
(* the set of its errors: warnings and notes change nothing.               *)
(***************************************************************************)
EXTENDS Naturals, Sequences, FiniteSets, SequencesExt

IsList(q) == q \in Seq(ToSet(q))

Interfaces      == {"tcp", "udp", "unix", "shm", "tproxy"}
ProtocolTypes   == {"none", "tls", "dtls", "wireguard", "ipsec", "custom"}
TlsVersions     == {"1.0", "1.2", "1.3"}
ProtectionModes == {"full", "integrity", "routing"}
AppProtocols    == {"none", "ale", "raw"}
Modes           == {"throughput", "pingpong", "connrate"}
Patterns        == {"sustained", "periodic", "burst", "ramp"}
TopologyModes   == {"loopback", "veth", "netns", "physical", "remote"}
ReloadActions   == {"update_tls_profile", "add_connection", "remove_connection",
                    "rotate_cert", "invalid_config"}

\* Host features a scenario may require (Requirements).
Features == {"openssl", "ktls", "dtls10", "cap_net_admin", "perf", "ebpf",
             "cipher-suite"}

\* Pacing fields a sender may give, and certificate files a protocol may select.
PacingFields == {"interval_us", "burst_count", "ramp_start_mbps", "ramp_step_mbps",
                 "ramp_step_interval_secs", "rate_limit_mbps"}
CertFiles    == {"server_cert", "server_key", "client_cert", "client_key", "ca_cert"}
MutualBundle == CertFiles
CertNames    == CertFiles \cup {"server_name"}

\* Forms of an address, and those each interface accepts (validate_addr).
AddressForms == {"host:port", "/path", "shm:///name", "other"}

AddressOk(interface, addr) ==
    CASE interface \in {"tcp", "udp", "tproxy"} -> addr = "host:port"
      [] interface = "unix"                     -> addr = "/path"
      [] interface = "shm"                      -> addr = "shm:///name"

\* The traffic class behind a configured spelling.
CanonicalClass(raw) ==
    CASE raw \in {"safety", "safety-critical"}        -> "safety"
      [] raw \in {"normal", "non-safety", "bulk"}     -> "normal"
      [] OTHER                                        -> "unknown"

\* An absent sender, and an absent option in general.
Absent == "absent"

NoSweep == [start |-> 0, step |-> 0, max |-> 0, given |-> FALSE]

NoComparison == [group |-> <<>>, calibration |-> <<>>]

(***************************************************************************)
(* What deserialisation gives a scenario that states nothing: a plain TCP  *)
(* sender over the loopback.  Scenarios are written as exceptions to it.   *)
(***************************************************************************)
DefaultScenario ==
    [ name |-> <<"s">>, enabled |-> TRUE, category |-> "throughput", mode |-> "throughput",
      size |-> 64, connections |-> 1, runs |-> 1,
      interface |-> "tcp", addr |-> "host:port", pattern |-> "sustained", pacing |-> {},
      kind |-> "none", version |-> "1.3", protection |-> "full", kernel |-> FALSE,
      mutual |-> FALSE, app |-> "none", provider |-> Absent, resumption |-> FALSE,
      certs |-> {}, profile |-> Absent, cipher |-> Absent,
      topology |-> "loopback", impaired |-> FALSE,
      gateway |-> FALSE, chain |-> "scg-direct",
      streams |-> <<>>, reload |-> Absent, sweep |-> NoSweep, comparison |-> NoComparison,
      zero_copy |-> FALSE, perf_profile |-> Absent, ring |-> 1048576, requires |-> {} ]

DefaultStream ==
    [ interface |-> "tcp", addr |-> "host:port", connections |-> 1, size |-> 64,
      pattern |-> "sustained", interval |-> FALSE, class |-> "normal" ]

HasSender(s)  == s.interface # Absent
HasStreams(s) == s.streams # <<>>

\* unmet_requirements: the features stated, and the cipher suite if one is named.
Needs(s) == s.requires \cup IF s.cipher = Absent THEN {} ELSE {"cipher-suite"}

\* e as the one error of a check that failed.
Error(failed, e) == IF failed THEN {e} ELSE {}

(***************************************************************************)
(* validate_scenario, check by check.                                      *)
(***************************************************************************)
ProtocolErrors(s) ==
    Error(s.kind = "wireguard" /\ HasSender(s) /\ s.interface # "udp", "wireguard-needs-udp")
      \cup Error(s.kind = "ipsec", "ipsec-is-a-stub")
      \cup Error(s.kind = "custom" /\ s.provider = Absent, "custom-needs-a-provider")
      \cup Error(s.kernel /\ s.kind # "tls", "kernel-needs-tls")
      \cup Error(s.resumption /\ s.kind # "tls", "resumption-needs-tls")
      \cup Error(s.zero_copy /\ s.protection # "routing" /\ s.kind # "none" /\ ~s.kernel,
                 "zero-copy-needs-routing-or-kernel")
      \cup Error(s.perf_profile \notin {Absent, "throughput", "latency", "balanced"}, "perf-profile")

\* The fields each pattern needs.
PatternOk(pattern, pacing) ==
    CASE pattern = "sustained" -> TRUE
      [] pattern = "periodic"  -> "interval_us" \in pacing
      [] pattern = "burst"     -> "burst_count" \in pacing
      [] pattern = "ramp"      -> {"ramp_start_mbps", "ramp_step_mbps",
                                   "ramp_step_interval_secs"} \subseteq pacing

\* Interfaces whose endpoints only the gateway can provide.
NeedsGateway(interface) == interface \in {"unix", "shm"}

\* validate_protocol_transport: the version and the interface the protocol allows.
ProtocolTransportErrors(s) ==
    Error(s.kind = "tls" /\ s.version = "1.0", "tls-1.0")
      \cup Error(s.kind = "dtls" /\ s.version = "1.3", "dtls-1.3")
      \cup Error(s.kind = "dtls" /\ s.interface # "udp", "dtls-needs-udp")
      \cup Error(s.app # "none" /\ s.interface # "udp", "framing-needs-udp")
      \cup Error(s.app # "none" /\ s.kind # "tls", "framing-needs-tls")

SenderErrors(s) ==
    IF ~HasSender(s) THEN {}
    ELSE Error(~AddressOk(s.interface, s.addr), "sender-address")
           \cup Error(~PatternOk(s.pattern, s.pacing), "sender-pattern")
           \cup Error(NeedsGateway(s.interface) /\ ~s.gateway, "interface-needs-the-gateway")
           \cup ProtocolTransportErrors(s)

SweepErrors(s) ==
    IF ~s.sweep.given THEN {}
    ELSE Error(s.sweep.start <= 0, "sweep-start") \cup Error(s.sweep.step <= 0, "sweep-step")
           \cup Error(s.sweep.max < s.sweep.start, "sweep-max")

StreamErrors(s, t) ==
    Error(~AddressOk(t.interface, t.addr), "stream-address")
      \cup Error(NeedsGateway(t.interface) /\ ~s.gateway, "interface-needs-the-gateway")
      \cup Error(t.size = 0, "stream-size")
      \cup Error(t.pattern = "periodic" /\ ~t.interval, "stream-interval")
      \cup Error(CanonicalClass(t.class) = "unknown", "stream-class")
      \cup Error(t.interface # "tcp", "stream-interface")
      \cup Error(t.connections # 1, "stream-connections")

StreamsErrors(s) ==
    IF ~HasStreams(s) THEN {}
    ELSE (UNION {StreamErrors(s, t) : t \in ToSet(s.streams)})
           \cup Error(~s.gateway, "streams-need-the-gateway")
           \cup Error(s.kind \in {"dtls", "wireguard", "ipsec"}, "streams-need-tcp")

\* validate_certificate_selection.
CertErrors(s) ==
    IF s.certs = {} THEN {}
    ELSE Error(s.kind \notin {"tls", "dtls"}, "certificates-need-tls")
           \cup Error(("server_cert" \in s.certs) # ("server_key" \in s.certs), "server-identity")
           \cup Error(("client_cert" \in s.certs) # ("client_key" \in s.certs), "client-identity")
           \cup Error(/\ s.mutual \/ s.profile = "subset146-pki"
                      /\ s.certs \cap CertFiles # {}
                      /\ ~(MutualBundle \subseteq s.certs), "mutual-bundle")

ScenarioErrors(s) ==
    Error(s.name = <<>>, "name")
      \cup IF ~s.enabled THEN {}
           ELSE Error(~HasSender(s) /\ ~HasStreams(s), "needs-a-sender-or-streams")
                  \cup ProtocolErrors(s) \cup SenderErrors(s) \cup SweepErrors(s)
                  \cup StreamsErrors(s) \cup CertErrors(s)
                  \cup Error(s.reload # Absent /\ ~s.gateway, "reload-needs-the-gateway")

\* The names of a document must differ: disabled scenarios count too.
DuplicateNames(scenarios) ==
    \E i, j \in DOMAIN scenarios : i # j /\ scenarios[i].name = scenarios[j].name

\* What deserialisation accepts: an unknown variant of an enumeration is refused.
Deserializes(s) ==
    /\ s.interface \in Interfaces \cup {Absent} /\ s.addr \in AddressForms
    /\ s.mode \in Modes /\ s.pattern \in Patterns /\ s.pacing \subseteq PacingFields
    /\ s.kind \in ProtocolTypes /\ s.version \in TlsVersions
    /\ s.protection \in ProtectionModes /\ s.app \in AppProtocols /\ s.certs \subseteq CertNames
    /\ s.topology \in TopologyModes /\ s.reload \in ReloadActions \cup {Absent}
    /\ \A t \in ToSet(s.streams) : t.interface \in Interfaces /\ t.pattern \in Patterns

\* Of the suite-level checks, those on the suite's name and version and on the
\* confidence level, which nothing here depends on, are left out.
Validates(defaults, scenarios) ==
    /\ defaults.runs >= 1 /\ defaults.sample_rate >= 1
    /\ \A i \in DOMAIN scenarios : Deserializes(scenarios[i])
    /\ ~DuplicateNames(scenarios)
    /\ \A i \in DOMAIN scenarios : ScenarioErrors(scenarios[i]) = {}

(***************************************************************************)
(* protocol_label: the protection a scenario's row is labelled with.       *)
(***************************************************************************)
ProtocolLabel(s) ==
    [ base    |-> CASE s.kind = "tls" /\ s.kernel -> "ktls"
                    [] s.kind = "custom"          -> s.provider
                    [] OTHER                      -> s.kind,
      version |-> IF s.kind \in {"tls", "dtls"} THEN s.version ELSE Absent,
      suffix  |-> CASE s.kind = "tls" /\ s.protection = "integrity" -> "+integrity"
                    [] s.kind = "tls" /\ s.protection # "integrity" /\ s.mutual -> "+mtls"
                    [] s.kind = "dtls" /\ s.mutual -> "+mtls"
                    [] OTHER -> "",
      resume  |-> s.kind = "tls" /\ s.resumption ]
=============================================================================
