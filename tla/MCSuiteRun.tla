----------------------------- MODULE MCSuiteRun -----------------------------
(***************************************************************************)
(* Cases for TLC.  Written suites hold one scenario per question, or two   *)
(* that share the ceiling cache or the host's network; they meet two       *)
(* disturbances.  Generated suites are the documents of a matrix with one  *)
(* profile of every kind that matrix_spec.json has, on hosts that lack     *)
(* each feature in turn.                                                   *)
(***************************************************************************)
EXTENDS SuiteRun, ScenarioMatrix

Item(s, cores) == [scenario |-> s, cores |-> cores]
Pool1 == "pool 1"
Pool2 == "pool 2"

Defaults == [runs |-> 1, sample_rate |-> 1]

Written(items) == [generated |-> FALSE, defaults |-> Defaults, items |-> items]

Document(rows) ==
    [generated |-> TRUE, defaults |-> Defaults,
     items |-> [i \in DOMAIN rows |-> Item(rows[i], Pool1)]]

Host(features, faults) == [features |-> features, binary |-> TRUE, faults |-> faults]

D == DefaultScenario
G == [D EXCEPT !.gateway = TRUE]

Secured ==
    {[G EXCEPT !.kind = "tls", !.kernel = k, !.mutual = m, !.protection = p, !.chain = c] :
        k \in BOOLEAN, m \in BOOLEAN, p \in ProtectionModes, c \in {"scg-direct", "scg-scg"}}

Datagrams ==
    {[G EXCEPT !.interface = "udp", !.kind = k, !.version = v, !.app = a] :
        k \in {"none", "tls", "dtls"}, v \in {"1.2", "1.3"}, a \in AppProtocols}

Local ==
    {[G EXCEPT !.interface = i, !.addr = SenderAddr(i), !.runs = r, !.mode = m,
               !.sweep = IF w THEN [start |-> 1, step |-> 1, max |-> 2, given |-> TRUE] ELSE NoSweep] :
        i \in {"unix", "shm"}, r \in 1..2, m \in Modes, w \in BOOLEAN}

Hosted ==
    {[G EXCEPT !.interface = i, !.topology = t, !.impaired = n] :
        i \in {"tcp", "tproxy"}, t \in TopologyModes, n \in BOOLEAN}

Played ==
    {[s EXCEPT !.mode = m] : s \in {G, D, [D EXCEPT !.interface = "udp"]}, m \in Modes}

Streamed ==
    {[G EXCEPT !.interface = i, !.kind = k, !.provider = "p", !.protection = p,
               !.streams = <<[DefaultStream EXCEPT !.class = "bulk"],
                             [DefaultStream EXCEPT !.class = "safety-critical", !.interface = j]>>] :
        i \in {"tcp", "udp", Absent}, j \in {"tcp", "udp"}, k \in {"none", "tls", "custom"},
        p \in {"full", "routing"}}

Reloaded ==
    {[G EXCEPT !.reload = a, !.interface = i, !.kind = k, !.app = f, !.chain = c] :
        a \in ReloadActions, i \in {"tcp", "udp"}, k \in {"none", "tls"}, f \in {"none", "ale"},
        c \in {"scg-direct", "scg-scg"}}

\* Nothing of a scenario is below one connection, one run and one header.
Tiny(s) == [s EXCEPT !.connections = 0, !.runs = 0, !.size = 8]

Singles ==
    Secured \cup Datagrams \cup Local \cup Hosted \cup Played \cup Streamed \cup Reloaded
      \cup {[G EXCEPT !.requires = {"ebpf"}], [D EXCEPT !.interface = "unix"]}
      \cup {Tiny(s) : s \in {t \in Local : t.runs = 1}}

Pairs ==
    {<<Item([s EXCEPT !.name = <<"a">>], Pool1), Item([t EXCEPT !.name = <<"b">>], c)>> :
        s \in {G, D, [G EXCEPT !.topology = "netns"], [G EXCEPT !.interface = "tproxy"]},
        t \in {G, Tiny(G), [G EXCEPT !.size = 128], [G EXCEPT !.interface = "tproxy"],
               [G EXCEPT !.topology = "veth", !.impaired = TRUE]},
        c \in {Pool1, Pool2}}

Rings ==
    {<<Item([s EXCEPT !.name = <<"a">>, !.ring = 1024], Pool1),
       Item([s EXCEPT !.name = <<"b">>, !.ring = r], Pool1)>> :
        s \in {[G EXCEPT !.interface = "shm", !.addr = SenderAddr("shm")]}, r \in {4096, 8192}}

\* Every profile is of one kind of matrix_spec.json; "scg-scg" where it has it.
Profile(id, protocol, interface, requires) ==
    [ id |-> id, protocol |-> protocol, interfaces |-> <<interface>>,
      chains |-> <<"scg-direct", "scg-scg">>, datagram |-> interface = "udp",
      tiers |-> {"canonical", "nightly"}, requires |-> requires,
      connections |-> IF interface = "udp" THEN {1} ELSE {}, scalability |-> interface = "tcp" ]

Matrix ==
    [ profiles |->
        << Profile("routing_tcp", Plain, "tcp", {}),
           Profile("tls13_tcp", Tls("1.3"), "tcp", {"openssl"}),
           Profile("ktls_mtls12_tcp", [kernel |-> TRUE, mutual |-> TRUE] @@ Tls("1.2"), "tcp",
                   {"openssl", "ktls"}),
           [Profile("subset146_pki", [mutual |-> TRUE, profile |-> "subset146-pki"] @@ Tls("1.2"),
                    "tcp", {"openssl"}) EXCEPT !.tiers = {}],
           Profile("routing_udp", Plain, "udp", {}),
           Profile("dtls12_udp", [kind |-> "dtls", version |-> "1.2"], "udp", {"openssl"}),
           Profile("ale_tls13_udp", [app |-> "ale"] @@ Tls("1.3"), "udp", {"openssl"}),
           Profile("routing_uds", Plain, "unix", {}),
           Profile("integrity_tls12_shm", [protection |-> "integrity"] @@ Tls("1.2"), "shm",
                   {"openssl"}),
           Profile("tls13_tproxy", Tls("1.3"), "tproxy", {"cap_net_admin", "openssl"}) >>,
      dims |->
        [ stream_sizes |-> <<64, 4096>>, datagram_sizes |-> <<1200, 65507>>,
          canonical_stream |-> 4096, canonical_datagram |-> 1200,
          canonical_connections |-> <<1>>, nightly_connections |-> <<1>>,
          scalability_connections |-> <<4>>, catalog_connections |-> <<2>>,
          comparison_sizes |-> <<64>>, comparison_connections |-> <<1, 4>>,
          latency_sizes |-> <<64>>, latency_connections |-> <<1>> ],
      tls12 |-> <<"AES128", "CHACHA20">>, tls13 |-> <<"AES256">>,
      hot_reload |-> {"routing_tcp", "tls13_tcp", "dtls12_udp", "ale_tls13_udp"},
      paths |->
        << [id |-> "loopback", interface |-> "tcp", gateway |-> FALSE, requires |-> {},
            connections |-> {}],
           [id |-> "tcp", interface |-> "tcp", gateway |-> TRUE, requires |-> {}, connections |-> {}],
           [id |-> "tproxy", interface |-> "tproxy", gateway |-> TRUE,
            requires |-> {"cap_net_admin"}, connections |-> {1}],
           [id |-> "uds", interface |-> "unix", gateway |-> TRUE, requires |-> {},
            connections |-> {1}] >>,
      limitations |->
        << [name |-> "wireguard", interface |-> "udp", chain |-> "scg-direct",
            protocol |-> [kind |-> "wireguard"]],
           [name |-> "dtls_multi", interface |-> "tcp", chain |-> "scg-direct",
            protocol |-> [kind |-> "dtls"]] >> ]

\* The matrix is one the theorem about generated suites speaks of.
ASSUME MatrixCoherent == Coherent(Matrix)

WrittenSuites == {Written(<<Item(s, Pool1)>>) : s \in Singles} \cup {Written(p) : p \in Pairs \cup Rings}

Able == Features \ {"ebpf"}

MCCases ==
    {[suite |-> s, host |-> Host(Able, 2)] : s \in WrittenSuites}
      \cup {[suite |-> Written(<<Item(s, Pool1)>>), host |-> Host(Able \ {f}, 1)] :
               s \in Hosted \cup Streamed, f \in {"cap_net_admin", "openssl"}}
      \cup {[suite |-> Document(rows), host |-> Host(Able \ {f}, 0)] :
               rows \in Generated(Matrix),
               f \in {"ebpf", "openssl", "ktls", "cap_net_admin", "cipher-suite"}}
      \cup {[suite |-> Document(rows), host |-> [Host(Able, 0) EXCEPT !.binary = FALSE]] :
               rows \in Generated(Matrix)}
=============================================================================
