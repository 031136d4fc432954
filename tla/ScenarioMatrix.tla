--------------------------- MODULE ScenarioMatrix ---------------------------
(***************************************************************************)
(* matrix.rs: the expansion of a declarative matrix into the suites that   *)
(* are checked in under configs/.  A matrix is a record of profiles,       *)
(* dimensions, cipher suites, comparison paths and limitations; a profile  *)
(* gives its protocol as the fields it states.  A name is the tuple of the *)
(* parts it is formatted from, so two names differ when their parts do.    *)
(***************************************************************************)
EXTENDS ScenarioConfig, SequencesExt

\* The rows of all elements of a sequence, in order.
FlatMap(Rows(_), elements) == FlattenSeq([i \in DOMAIN elements |-> Rows(elements[i])])

\* Those elements of a sequence that pass a test, in order.
Passing(Test(_), elements) ==
    FlatMap(LAMBDA e : IF Test(e) THEN <<e>> ELSE <<>>, elements)

Plain     == [kind |-> "none", protection |-> "routing"]
Tls(version) == [kind |-> "tls", version |-> version]
KernelTls(version) == [kind |-> "tls", version |-> version, kernel |-> TRUE]

\* sender: the form of the address an interface gets.
SenderAddr(interface) ==
    CASE interface = "unix" -> "/path"
      [] interface = "shm"  -> "shm:///name"
      [] OTHER              -> "host:port"

\* A scenario with the fields that a protocol states; the others stay as they are.
Stating(protocol, s) == [f \in DOMAIN s |-> IF f \in DOMAIN protocol THEN protocol[f] ELSE s[f]]

\* scenario and push_unique: one row of a suite.
Row(name, category, interface, protocol, gateway, chain, size, connections, requires) ==
    Stating(protocol,
        [DefaultScenario EXCEPT !.name = name, !.category = category, !.interface = interface,
                                !.addr = SenderAddr(interface), !.gateway = gateway,
                                !.chain = chain, !.size = size, !.connections = connections,
                                !.requires = requires])

ProfileRow(name, category, p, interface, chain, size, connections) ==
    Row(name, category, interface, p.protocol, TRUE, chain, size, connections, p.requires)

(***************************************************************************)
(* Sizes and connection ladders.                                           *)
(***************************************************************************)
\* The largest datagram there is, and the largest encrypted one a blast still measures.
UDP_PAYLOAD_MAX        == 65507
ENCRYPTED_DATAGRAM_MAX == 9000

DatagramSizeCap(protocol) ==
    IF protocol.kind = "none" THEN UDP_PAYLOAD_MAX ELSE ENCRYPTED_DATAGRAM_MAX

ProfileSizes(m, p) ==
    IF p.datagram
    THEN Passing(LAMBDA size : size <= DatagramSizeCap(p.protocol), m.dims.datagram_sizes)
    ELSE m.dims.stream_sizes

CanonicalSize(m, p) == IF p.datagram THEN m.dims.canonical_datagram ELSE m.dims.canonical_stream

\* The i-th count is the one that i - 1 others are below.
UnionConnections(left, right) ==
    LET counts == ToSet(left) \cup ToSet(right)
    IN  [i \in 1..Cardinality(counts) |->
            CHOOSE c \in counts : Cardinality({d \in counts : d < c}) = i - 1]

Ladder(m, p, tier) ==
    CASE tier \in {"catalog", "everything"} -> m.dims.catalog_connections
      [] tier = "canonical"                 -> m.dims.canonical_connections
      [] tier = "nightly" /\ p.scalability  ->
            UnionConnections(m.dims.nightly_connections, m.dims.scalability_connections)
      [] tier = "nightly" /\ ~p.scalability -> m.dims.nightly_connections

\* An empty list of connection counts pins nothing.
Allows(p, connections) == p.connections = {} \/ connections \in p.connections

\* Catalog and everything ignore the tiers a profile is tagged with.
InTier(p, tier) == tier \in {"catalog", "everything"} \/ tier \in p.tiers

(***************************************************************************)
(* expand_profiles: the grid of every profile, a ping-pong row per size of *)
(* the direct chain, then the cipher, handshake and blocked rows.          *)
(***************************************************************************)
GridRows(p, interface, chain, size, ladder) ==
    LET allowed == Passing(LAMBDA c : Allows(p, c), ladder)
    IN  [i \in DOMAIN allowed |->
            ProfileRow(<<"matrix", p.id, interface, size, chain, allowed[i]>>, "matrix",
                       p, interface, chain, size, allowed[i])]

LatencyRows(p, interface, chain, size, tier) ==
    IF tier # "catalog" /\ chain = "scg-direct" /\ Allows(p, 1)
    THEN <<[ProfileRow(<<"matrix_lat", p.id, interface, size>>, "matrix-latency",
                       p, interface, chain, size, 1) EXCEPT !.mode = "pingpong"]>>
    ELSE <<>>

ProfileRows(m, p, tier) ==
    LET sizes == IF tier = "canonical" THEN <<CanonicalSize(m, p)>> ELSE ProfileSizes(m, p)
        At(interface, chain) ==
            FlatMap(LAMBDA size : GridRows(p, interface, chain, size, Ladder(m, p, tier))
                                    \o LatencyRows(p, interface, chain, size, tier), sizes)
    IN  FlatMap(LAMBDA interface :
                    FlatMap(LAMBDA chain : At(interface, chain), p.chains), p.interfaces)

\* cipher_size_grid.
CipherSizes(tier, canonical, sizes, preferred) ==
    LET grid == Passing(LAMBDA size : size \in preferred, sizes)
    IN  IF tier = "canonical" \/ grid = <<>> THEN <<canonical>> ELSE grid

CipherRow(prefix, engine, interface, protocol, suite, requires, size) ==
    [Row(<<prefix, engine, protocol.version, suite, size>>, "cipher-matrix", interface, protocol,
         TRUE, "scg-direct", size, 1, requires) EXCEPT !.cipher = suite]

StreamCipherRows(prefix, version, suite, size) ==
    << CipherRow(prefix, "tls", "tcp", Tls(version), suite, {"openssl"}, size),
       CipherRow(prefix, "ktls", "tcp", KernelTls(version), suite, {"openssl", "ktls"}, size) >>

DatagramCipherRow(prefix, suite, size) ==
    CipherRow(prefix, "dtls", "udp", [kind |-> "dtls", version |-> "1.2"], suite, {"openssl"}, size)

\* The first suite alone, if there is one.
FirstOf(suites) == IF suites = <<>> THEN <<>> ELSE <<suites[1]>>

SuitesOf(tier, suites) == IF tier = "canonical" THEN FirstOf(suites) ELSE suites

CipherRows(m, tier) ==
    LET stream == CipherSizes(tier, m.dims.canonical_stream, m.dims.stream_sizes,
                              {1024, m.dims.canonical_stream, 16384})
        dgram  == CipherSizes(tier, m.dims.canonical_datagram, m.dims.datagram_sizes,
                              {256, m.dims.canonical_datagram, 1400})
        Streams(version, suite) ==
            FlatMap(LAMBDA size : StreamCipherRows("cipher", version, suite, size), stream)
        Datagrams(suite) == [i \in DOMAIN dgram |-> DatagramCipherRow("cipher", suite, dgram[i])]
    IN  FlatMap(LAMBDA suite : Streams("1.2", suite), SuitesOf(tier, m.tls12))
          \o FlatMap(LAMBDA suite : Streams("1.3", suite), SuitesOf(tier, m.tls13))
          \o FlatMap(Datagrams, SuitesOf(tier, m.tls12))

\* push_connrate_handshake: the certificate and the key exchange are data.
HandshakeRow(prefix, axis, c) ==
    [Row(<<prefix, axis, c>>, "handshake-auth", "tcp", Tls("1.3"), TRUE, "scg-direct", 64, c,
         {"openssl"}) EXCEPT !.mode = "connrate"]

HandshakeAxes == <<"ecdsa", "rsa", "kex-x25519", "kex-p256">>

HandshakeRows(tier) ==
    LET widths == IF tier = "canonical" THEN <<4>> ELSE <<1, 4>>
    IN  FlatMap(LAMBDA axis :
                  [i \in DOMAIN widths |-> HandshakeRow("handshake", axis, widths[i])],
                HandshakeAxes)

\* append_blocked_rows: disabled, so only their names are validated.
BlockedRows(m) ==
    [i \in DOMAIN m.limitations |->
        LET l == m.limitations[i] IN
        [Row(<<"blocked", l.name>>, "unsupported", l.interface, l.protocol, TRUE, l.chain, 1024, 1, {})
            EXCEPT !.enabled = FALSE]]

ExpandProfiles(m, tier) ==
    FlatMap(LAMBDA p : IF InTier(p, tier) THEN ProfileRows(m, p, tier) ELSE <<>>, m.profiles)
      \o CipherRows(m, tier) \o HandshakeRows(tier) \o BlockedRows(m)

(***************************************************************************)
(* expand_hotreload: profiles whose only interface is TCP.                 *)
(***************************************************************************)
\* Regression: the interfaces of a profile are not looked at.
Reloadable_AnyInterface(m, p) == p.id \in m.hot_reload

Reloadable(m, p) ==
    p.id \in m.hot_reload /\ p.interfaces = <<"tcp">> /\ "scg-direct" \in ToSet(p.chains)

ReloadActionsOf(protocol) ==
    <<"add_connection", "remove_connection", "invalid_config">>
      \o IF protocol.kind = "tls" THEN <<"rotate_cert">> ELSE <<>>

ReloadRow(name, category, protocol, requires, size, connections, action, limited) ==
    [Row(name, category, "tcp", protocol, TRUE, "scg-direct", size, connections, requires)
        EXCEPT !.reload = action, !.pacing = IF limited THEN {"rate_limit_mbps"} ELSE {}]

ExpandHotreload(m) ==
    LET Of(p) ==
          FlatMap(LAMBDA c :
            FlatMap(LAMBDA load :
              LET actions == ReloadActionsOf(p.protocol) IN
              [i \in DOMAIN actions |->
                 ReloadRow(<<"hotreload", p.id, actions[i], load, c>>, "hotreload", p.protocol,
                           p.requires, m.dims.canonical_stream, c, actions[i],
                           load = "sub-saturation")],
              <<"sub-saturation", "saturation">>), <<1, 4, 16, 64>>)
    IN  FlatMap(LAMBDA p : IF Reloadable(m, p) THEN Of(p) ELSE <<>>, m.profiles)

(***************************************************************************)
(* expand_smoke: every path once.                                          *)
(***************************************************************************)
SmokeProfileRows(m, p) ==
    FlatMap(LAMBDA interface :
        [i \in DOMAIN p.chains |->
            ProfileRow(<<"smoke", p.id, interface, p.chains[i]>>, "smoke", p, interface,
                       p.chains[i], CanonicalSize(m, p), 1)], p.interfaces)

LatencyProfiles ==
    <<"routing_tcp", "routing_udp", "routing_uds", "routing_shm", "routing_shmslot",
      "routing_tproxy">>

SmokeLatencyRows(m) ==
    LET Of(p) == [ProfileRow(<<"smoke_lat", p.id>>, "smoke-latency", p, p.interfaces[1],
                             "scg-direct", CanonicalSize(m, p), 1) EXCEPT !.mode = "pingpong"]
        Named(id) == Passing(LAMBDA p : p.id = id, m.profiles)
    IN  FlatMap(LAMBDA id : IF Named(id) = <<>> THEN <<>> ELSE <<Of(Named(id)[1])>>,
                LatencyProfiles)

SmokeCipherRows(m) ==
    FlatMap(LAMBDA suite : StreamCipherRows("smoke_cipher", "1.2", suite, m.dims.canonical_stream)
                \o <<DatagramCipherRow("smoke_cipher", suite, m.dims.canonical_datagram)>>,
            FirstOf(m.tls12))
      \o FlatMap(LAMBDA suite :
                StreamCipherRows("smoke_cipher", "1.3", suite, m.dims.canonical_stream),
                FirstOf(m.tls13))

SmokeResumptionRow(m) ==
    [Row(<<"smoke_resumption">>, "smoke-resumption", "tcp", Tls("1.3"), TRUE, "scg-direct",
         m.dims.canonical_stream, 1, {"openssl"}) EXCEPT !.resumption = TRUE, !.mode = "connrate"]

SmokeReloadRows(m) ==
    LET actions == ReloadActionsOf(Tls("1.3"))
    IN  [i \in DOMAIN actions |->
            ReloadRow(<<"smoke_hotreload", actions[i]>>, "smoke-hotreload", Tls("1.3"), {"openssl"},
                      m.dims.canonical_stream, 1, actions[i], TRUE)]

SmokeLoopbackRow(interface, size) ==
    Row(<<"smoke_loopback", interface>>, "smoke-baseline", interface, [kind |-> "none"], FALSE,
        "scg-direct", size, 1, {})

SmokeStreamsRow ==
    [Row(<<"smoke_multistream">>, "smoke-scheduling", "tcp", [kind |-> "none"], TRUE, "scg-direct",
         1024, 1, {}) EXCEPT !.streams =
            <<[DefaultStream EXCEPT !.size = 256, !.pattern = "periodic", !.interval = TRUE,
                                    !.class = "safety"],
              [DefaultStream EXCEPT !.size = 4096]>>]

ExpandSmoke(m) ==
    FlatMap(LAMBDA p : SmokeProfileRows(m, p), m.profiles)
      \o SmokeLatencyRows(m)
      \o SmokeCipherRows(m)
      \o [i \in DOMAIN HandshakeAxes |-> HandshakeRow("smoke_handshake", HandshakeAxes[i], 4)]
      \o <<SmokeResumptionRow(m)>>
      \o SmokeReloadRows(m)
      \o <<SmokeLoopbackRow("tcp", m.dims.canonical_stream),
           SmokeLoopbackRow("udp", m.dims.canonical_datagram), SmokeStreamsRow>>
      \o BlockedRows(m)

(***************************************************************************)
(* expand_interface_comparison: all throughput groups, then the latency    *)
(* rows that are paced off them.  It needs a direct and a gateway TCP path. *)
(***************************************************************************)
HasReferences(m) ==
    /\ \E i \in DOMAIN m.paths : ~m.paths[i].gateway /\ m.paths[i].interface = "tcp"
    /\ \E i \in DOMAIN m.paths : m.paths[i].gateway /\ m.paths[i].interface = "tcp"

ComparisonRow(path, kind, size, connections) ==
    [Row(<<"iface", path.id, kind, size, connections>>, kind,
         path.interface, Plain, path.gateway, "scg-direct", size, connections, path.requires)
        EXCEPT !.mode = IF kind = "latency" THEN "pingpong" ELSE "throughput",
               !.comparison =
                  [group |-> <<kind, size, connections>>,
                   calibration |-> IF kind = "latency" THEN <<"throughput", size, connections>>
                                   ELSE <<>>]]

ComparisonRows(m, kind, sizes, ladder) ==
    FlatMap(LAMBDA size :
        FlatMap(LAMBDA c :
            LET paths == Passing(LAMBDA path : Allows(path, c), m.paths)
            IN  [i \in DOMAIN paths |-> ComparisonRow(paths[i], kind, size, c)], ladder), sizes)

ExpandInterfaceComparison(m) ==
    ComparisonRows(m, "throughput", m.dims.comparison_sizes, m.dims.comparison_connections)
      \o ComparisonRows(m, "latency", m.dims.latency_sizes, m.dims.latency_connections)

(***************************************************************************)
(* What a matrix must say for its rows to be measurable: the protocol of a *)
(* profile fits its interfaces, and the profile states the features that   *)
(* its protocol and its interfaces take.  validate_spec checks none of it. *)
(***************************************************************************)
ProtocolFields == {"kind", "version", "protection", "kernel", "mutual", "app", "profile"}

ProtocolFits(t, interface) ==
    /\ t.kind \in {"none", "tls", "dtls"} /\ t.version \in TlsVersions
    /\ t.protection \in ProtectionModes /\ t.app \in AppProtocols
    /\ t.kernel \in BOOLEAN /\ t.mutual \in BOOLEAN
    /\ t.kernel => t.kind = "tls"
    /\ t.kind = "tls"  => t.version # "1.0" /\ (interface = "udp" <=> t.app # "none")
    /\ t.kind = "dtls" => t.version # "1.3" /\ interface = "udp"
    /\ t.kind # "tls"  => t.app = "none"

\* The features of the host that traffic over an interface takes.
Takes(kind, interface) ==
    (IF kind = "none" THEN {} ELSE {"openssl"})
      \cup (IF interface = "tproxy" THEN {"cap_net_admin"} ELSE {})

CoherentProfile(p) ==
    LET t == Stating(p.protocol, DefaultScenario) IN
    /\ DOMAIN p.protocol \subseteq ProtocolFields
    /\ p.interfaces \in Seq(Interfaces) /\ p.chains \in Seq({"scg-direct", "scg-scg"})
    /\ \A i \in ToSet(p.interfaces) : ProtocolFits(t, i) /\ Takes(t.kind, i) \subseteq p.requires

CoherentPath(path) ==
    /\ path.interface \in Interfaces /\ path.gateway \in BOOLEAN
    /\ ~path.gateway => path.interface \in {"tcp", "udp"}
    /\ Takes("none", path.interface) \subseteq path.requires

\* A blocked row is never run, but it is read.
CoherentLimitation(l) ==
    LET t == Stating(l.protocol, DefaultScenario) IN
    /\ DOMAIN l.protocol \subseteq ProtocolFields /\ l.interface \in Interfaces
    /\ t.kind \in ProtocolTypes /\ t.version \in TlsVersions
    /\ t.protection \in ProtectionModes /\ t.app \in AppProtocols

Coherent(m) ==
    /\ IsList(m.profiles) /\ \A p \in ToSet(m.profiles) : CoherentProfile(p)
    /\ IsList(m.paths) /\ \A path \in ToSet(m.paths) : CoherentPath(path)
    /\ IsList(m.limitations) /\ \A l \in ToSet(m.limitations) : CoherentLimitation(l)
    /\ IsList(m.tls12) /\ IsList(m.tls13)
    /\ IsList(m.dims.stream_sizes) /\ IsList(m.dims.datagram_sizes)
    /\ IsList(m.dims.canonical_connections) /\ IsList(m.dims.catalog_connections)
    /\ IsList(m.dims.nightly_connections) /\ IsList(m.dims.scalability_connections)
    /\ IsList(m.dims.comparison_sizes) /\ IsList(m.dims.comparison_connections)
    /\ IsList(m.dims.latency_sizes) /\ IsList(m.dims.latency_connections)

(***************************************************************************)
(* generate: the documents, or nothing when the matrix is refused or two   *)
(* rows of a document have one name.                                       *)
(***************************************************************************)
ValidMatrix(m) ==
    /\ m.profiles # <<>> /\ m.paths # <<>> /\ HasReferences(m)
    /\ \A i \in DOMAIN m.profiles : m.profiles[i].interfaces # <<>> /\ m.profiles[i].chains # <<>>

Documents(m) ==
    [ catalog      |-> ExpandProfiles(m, "catalog"),
      nightly      |-> ExpandProfiles(m, "nightly"),
      canonical    |-> ExpandProfiles(m, "canonical"),
      everything   |-> ExpandProfiles(m, "everything"),
      comparison   |-> ExpandInterfaceComparison(m),
      hotreload    |-> ExpandHotreload(m),
      smoke        |-> ExpandSmoke(m) ]

Generated(m) ==
    LET documents == Documents(m)
    IN  IF ValidMatrix(m) /\ \A d \in DOMAIN documents : ~DuplicateNames(documents[d])
        THEN {documents[d] : d \in DOMAIN documents} ELSE {}
=============================================================================
