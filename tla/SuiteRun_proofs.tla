--------------------------- MODULE SuiteRun_proofs ---------------------------
(***************************************************************************)
(* What holds of a suite run with any suites on any hosts: HostRestored,   *)
(* CeilingComparable, FullProtectionLabelled, AbortsExplained and          *)
(* PathCoherent; and, with the suites of any coherent matrix, that they    *)
(* validate and GeneratedRowsMeasured.                                     *)
(***************************************************************************)
EXTENDS SuiteRun, ScenarioMatrix, SequenceTheorems, FiniteSetTheorems, WellFoundedInduction, TLAPS

(***************************************************************************)
(* The host's network.  What a complete installation owns does not depend  *)
(* on the kernel, unlike what its removal takes away.                      *)
(***************************************************************************)
Owned(what) ==
    IF what = "veth" THEN Ends
    ELSE IF what = "netns" THEN Namespaces \cup Moved
    ELSE IF what = "netem" THEN {"netem"}
    ELSE Transparent

Held == UNION {Owned(g) : g \in guards}

\* Whether o is among what the first k commands of an installation create, less what
\* they move.  The chain of the transparent proxy may be there before: it is left out.
MadeVeth(k, o) == o \in Ends /\ k >= 1

MadeNetns(k, o) ==
    \/ o = "scg_left" /\ k >= 1
    \/ o = "scg_right" /\ k >= 2
    \/ o = "seshat-a" /\ k = 3
    \/ o = "seshat-b" /\ (k = 3 \/ k = 4)
    \/ o = "seshat-a@scg_left" /\ k >= 4
    \/ o = "seshat-b@scg_right" /\ k >= 5

MadeNetem(k, o) == o = "netem" /\ k >= 1

MadeTproxy(k, o) ==
    \/ o = "rule" /\ k >= 2
    \/ o = "route" /\ k >= 3
    \/ o = "divert-jump" /\ k >= 7
    \/ o = "redirect" /\ k >= 8

Made(what, k, o) ==
    \/ what = "veth" /\ MadeVeth(k, o)
    \/ what = "netns" /\ MadeNetns(k, o)
    \/ what = "netem" /\ MadeNetem(k, o)
    \/ what = "tproxy" /\ MadeTproxy(k, o)

\* k commands of the running setup have been executed.
At(k) ==
    /\ k \in 0..Len(Commands(installing))
    /\ pending = SubSeq(Commands(installing), k + 1, Len(Commands(installing)))
    /\ \A o \in KernelObjects \ {"DIVERT"} : o \in created <=> Made(installing, k, o)
    /\ "DIVERT" \in created => installing = "tproxy"
    /\ installing = "tproxy" /\ k >= 1 => "DIVERT" \in kernel

Setup ==
    IF installing = "nothing" THEN created = {} /\ pending = <<>>
    ELSE \E k \in Nat : At(k)

\* Everything in the kernel has one owner.
OneOwner ==
    /\ kernel = operator \cup leaked \cup created \cup Held
    /\ created \cap (operator \cup leaked \cup Held) = {}
    /\ Held \cap (operator \cup leaked) = {}

HostInv ==
    /\ HostTypeOK
    /\ Setup
    /\ OneOwner
    /\ operator \cap Transparent = {}

\* The driver holds nothing between two scenarios.
Outside == {"idle", "refused", "next", "done", "aborted", "dead"}

HoldsNothing ==
    /\ pc # "installing" <=> installing = "nothing"
    /\ pc \in Outside => guards = {}

-----------------------------------------------------------------------------
(***************************************************************************)
(* Commands and what they do.                                              *)
(***************************************************************************)
Cmds == [needs : SUBSET KernelObjects, creates : SUBSET KernelObjects,
         removes : SUBSET KernelObjects, strict : BOOLEAN]

\* What command c does to the setup of what after k commands.
Effect(what, k, c) ==
    /\ c \in Cmds
    /\ \A o \in c.removes : Made(what, k, o) /\ o # "DIVERT" /\ o \notin c.creates
    /\ \A o \in KernelObjects \ {"DIVERT"} :
          Made(what, k + 1, o) <=> o \in c.creates \/ (Made(what, k, o) /\ o \notin c.removes)
    /\ IF what = "tproxy" /\ k = 0 THEN ~c.strict /\ c.needs = {} /\ c.creates = {"DIVERT"}
       ELSE c.strict /\ "DIVERT" \notin c.creates

\* A command that creates and removes nothing.
LEMMA ConfigureCmd ==
    ASSUME NEW o \in KernelObjects
    PROVE  /\ Configure(o) \in Cmds /\ Configure(o).strict
           /\ Configure(o).creates = {} /\ Configure(o).removes = {}
BY DEF Configure, Command, Cmds

\* A command that creates.
LEMMA CreateCmd ==
    ASSUME NEW O \in SUBSET KernelObjects
    PROVE  /\ Create(O) \in Cmds /\ Create(O).strict
           /\ Create(O).creates = O /\ Create(O).removes = {}
BY DEF Create, Command, Cmds

\* The objects named in the commands.
LEMMA Objects ==
    /\ Ends \subseteq KernelObjects /\ Namespaces \subseteq KernelObjects
    /\ Moved \subseteq KernelObjects /\ Transparent \subseteq KernelObjects
    /\ Ends = {"seshat-a", "seshat-b"} /\ Namespaces = {"scg_left", "scg_right"}
    /\ Moved = {"seshat-a@scg_left", "seshat-b@scg_right"}
    /\ Transparent = {"rule", "route", "DIVERT", "divert-jump", "redirect"}
    /\ "netem" \in KernelObjects
BY DEF KernelObjects, Ends, Namespaces, Moved, Transparent

\* The commands of the veth topology.
LEMMA VethEffect ==
    /\ Len(VethCommands) = 5 /\ VethCommands \in Seq(Cmds)
    /\ \A k \in 0..4 : Effect("veth", k, VethCommands[k + 1])
<1> DEFINE S == VethCommands
           Confs == {Configure("seshat-a"), Configure("seshat-b")}
<1>1. /\ Create(Ends) \in Cmds /\ Create(Ends).strict
      /\ Create(Ends).creates = Ends /\ Create(Ends).removes = {}
  BY CreateCmd, Objects
<1>2. \A c \in Confs : c \in Cmds /\ c.strict /\ c.creates = {} /\ c.removes = {}
  BY ConfigureCmd, Objects
<1>3. /\ Len(S) = 5 /\ S \in Seq(Cmds)
      /\ S[1] = Create(Ends)
      /\ S[2] \in Confs /\ S[3] \in Confs /\ S[4] \in Confs /\ S[5] \in Confs
  BY <1>1, <1>2 DEF VethCommands
<1> HIDE DEF S, Confs
<1>4. ASSUME NEW k \in 0..4 PROVE Effect("veth", k, S[k + 1])
  <2>1. CASE k = 0
    BY <2>1, <1>1, <1>3, Objects DEF Effect, Made, MadeVeth
  <2>2. CASE k # 0
    <3>1. S[k + 1] \in Confs
      <4>1. k = 1 \/ k = 2 \/ k = 3 \/ k = 4
        BY <2>2
      <4> QED
        BY <4>1, <1>3
    <3> QED
      BY <3>1, <2>2, <1>2 DEF Effect, Made, MadeVeth
  <2> QED
    BY <2>1, <2>2
<1> QED
  BY <1>3, <1>4 DEF S

\* The commands of the namespace topology.
LEMMA NetnsEffect ==
    /\ Len(NetnsCommands) = 11 /\ NetnsCommands \in Seq(Cmds)
    /\ \A k \in 0..10 : Effect("netns", k, NetnsCommands[k + 1])
<1> DEFINE S == NetnsCommands
           Left == Create({"scg_left"})
           Right == Create({"scg_right"})
           Pair == Create(Ends)
           MoveA == MoveEnd("seshat-a", "scg_left", "seshat-a@scg_left")
           MoveB == MoveEnd("seshat-b", "scg_right", "seshat-b@scg_right")
           Confs == {Configure("seshat-a@scg_left"), Configure("seshat-b@scg_right"),
                     Configure("scg_left"), Configure("scg_right")}
<1>1. /\ Left \in Cmds /\ Left.strict /\ Left.creates = {"scg_left"} /\ Left.removes = {}
      /\ Right \in Cmds /\ Right.strict /\ Right.creates = {"scg_right"} /\ Right.removes = {}
      /\ Pair \in Cmds /\ Pair.strict /\ Pair.creates = Ends /\ Pair.removes = {}
  BY CreateCmd, Objects
<1>2. /\ MoveA \in Cmds /\ MoveA.strict
      /\ MoveA.creates = {"seshat-a@scg_left"} /\ MoveA.removes = {"seshat-a"}
  BY Objects DEF MoveEnd, Command, Cmds
<1>3. /\ MoveB \in Cmds /\ MoveB.strict
      /\ MoveB.creates = {"seshat-b@scg_right"} /\ MoveB.removes = {"seshat-b"}
  BY Objects DEF MoveEnd, Command, Cmds
<1>4. \A c \in Confs : c \in Cmds /\ c.strict /\ c.creates = {} /\ c.removes = {}
  BY ConfigureCmd, Objects
<1>5. S = << Left, Right, Pair, MoveA, MoveB,
             Configure("seshat-a@scg_left"), Configure("seshat-b@scg_right"),
             Configure("seshat-a@scg_left"), Configure("scg_left"),
             Configure("seshat-b@scg_right"), Configure("scg_right") >>
  BY DEF NetnsCommands
<1> HIDE DEF Left, Right, Pair, MoveA, MoveB, S
<1>6. /\ Len(S) = 11 /\ S \in Seq(Cmds)
      /\ S[1] = Left /\ S[2] = Right /\ S[3] = Pair /\ S[4] = MoveA /\ S[5] = MoveB
      /\ S[6] \in Confs /\ S[7] \in Confs /\ S[8] \in Confs /\ S[9] \in Confs
      /\ S[10] \in Confs /\ S[11] \in Confs
  BY <1>1, <1>2, <1>3, <1>4, <1>5
<1> HIDE DEF Confs
<1>7. ASSUME NEW k \in 0..10 PROVE Effect("netns", k, S[k + 1])
  <2>1. CASE k = 0
    BY <2>1, <1>1, <1>6, Objects DEF Effect, Made, MadeNetns
  <2>2. CASE k = 1
    BY <2>2, <1>1, <1>6, Objects DEF Effect, Made, MadeNetns
  <2>3. CASE k = 2
    BY <2>3, <1>1, <1>6, Objects DEF Effect, Made, MadeNetns
  <2>4. CASE k = 3
    BY <2>4, <1>2, <1>6, Objects DEF Effect, Made, MadeNetns
  <2>5. CASE k = 4
    BY <2>5, <1>3, <1>6, Objects DEF Effect, Made, MadeNetns
  <2>6. CASE k > 4
    <3>1. S[k + 1] \in Confs
      <4>1. k = 5 \/ k = 6 \/ k = 7 \/ k = 8 \/ k = 9 \/ k = 10
        BY <2>6
      <4> QED
        BY <4>1, <1>6
    <3> QED
      BY <3>1, <2>6, <1>4 DEF Effect, Made, MadeNetns
  <2> QED
    BY <2>1, <2>2, <2>3, <2>4, <2>5, <2>6
<1> QED
  BY <1>6, <1>7 DEF S

\* The one command of the impairment.
LEMMA NetemEffect ==
    /\ Len(NetemCommands) = 1 /\ NetemCommands \in Seq(Cmds)
    /\ \A k \in 0..0 : Effect("netem", k, NetemCommands[k + 1])
<1> DEFINE c == Create({"netem"})
<1>1. c \in Cmds /\ c.strict /\ c.creates = {"netem"} /\ c.removes = {}
  BY CreateCmd, Objects
<1> HIDE DEF c
<1>2. Len(NetemCommands) = 1 /\ NetemCommands \in Seq(Cmds) /\ NetemCommands[1] = c
  BY <1>1 DEF NetemCommands, c
<1>3. Effect("netem", 0, NetemCommands[1])
  BY <1>1, <1>2, Objects DEF Effect, Made, MadeNetem
<1> QED
  BY <1>2, <1>3

\* The commands of the transparent proxy; the first is best effort.
LEMMA TproxyEffect ==
    /\ Len(TproxyCommands) = 8 /\ TproxyCommands \in Seq(Cmds)
    /\ \A k \in 0..7 : Effect("tproxy", k, TproxyCommands[k + 1])
<1> DEFINE S == TproxyCommands
           First == [Create({"DIVERT"}) EXCEPT !.strict = FALSE]
           RuleC == Create({"rule"})
           RouteC == Create({"route"})
           Conf == Configure("DIVERT")
           Jump == Command({"DIVERT"}, {"divert-jump"}, {})
           Redirect == Create({"redirect"})
<1>1. /\ RuleC \in Cmds /\ RuleC.strict /\ RuleC.creates = {"rule"} /\ RuleC.removes = {}
      /\ RouteC \in Cmds /\ RouteC.strict /\ RouteC.creates = {"route"} /\ RouteC.removes = {}
      /\ Redirect \in Cmds /\ Redirect.strict
      /\ Redirect.creates = {"redirect"} /\ Redirect.removes = {}
  BY CreateCmd, Objects
<1>2. /\ First \in Cmds /\ First.needs = {} /\ First.creates = {"DIVERT"}
      /\ First.removes = {} /\ ~First.strict
  BY Objects DEF Create, Command, Cmds
<1>3. Jump \in Cmds /\ Jump.creates = {"divert-jump"} /\ Jump.removes = {} /\ Jump.strict
  BY Objects DEF Command, Cmds
<1>4. Conf \in Cmds /\ Conf.creates = {} /\ Conf.removes = {} /\ Conf.strict
  BY ConfigureCmd, Objects
<1>5. S = << First, RuleC, RouteC, Conf, Conf, Conf, Jump, Redirect >>
  BY DEF TproxyCommands
<1> HIDE DEF First, RuleC, RouteC, Conf, Jump, Redirect, S
<1>6. /\ Len(S) = 8 /\ S \in Seq(Cmds)
      /\ S[1] = First /\ S[2] = RuleC /\ S[3] = RouteC
      /\ S[4] = Conf /\ S[5] = Conf /\ S[6] = Conf
      /\ S[7] = Jump /\ S[8] = Redirect
  BY <1>1, <1>2, <1>3, <1>4, <1>5
<1>7. ASSUME NEW k \in 0..7 PROVE Effect("tproxy", k, S[k + 1])
  <2>1. CASE k = 0
    BY <2>1, <1>2, <1>6, Objects DEF Effect, Made, MadeTproxy
  <2>2. CASE k = 1
    BY <2>2, <1>1, <1>6, Objects DEF Effect, Made, MadeTproxy
  <2>3. CASE k = 2
    BY <2>3, <1>1, <1>6, Objects DEF Effect, Made, MadeTproxy
  <2>4. CASE k \in 3..5
    <3>1. S[k + 1] = Conf
      <4>1. k = 3 \/ k = 4 \/ k = 5
        BY <2>4
      <4> QED
        BY <4>1, <1>6
    <3> QED
      BY <3>1, <2>4, <1>4 DEF Effect, Made, MadeTproxy
  <2>5. CASE k = 6
    BY <2>5, <1>3, <1>6, Objects DEF Effect, Made, MadeTproxy
  <2>6. CASE k = 7
    BY <2>6, <1>1, <1>6, Objects DEF Effect, Made, MadeTproxy
  <2> QED
    BY <2>1, <2>2, <2>3, <2>4, <2>5, <2>6
<1> QED
  BY <1>6, <1>7 DEF S

\* Each installation.
LEMMA CommandsOf ==
    ASSUME NEW what \in Installations
    PROVE  /\ Commands(what) \in Seq(Cmds)
           /\ Len(Commands(what)) \in Nat \ {0}
           /\ \A k \in 0..(Len(Commands(what)) - 1) : Effect(what, k, Commands(what)[k + 1])
           /\ \A o \in KernelObjects \ {"DIVERT"} :
                 Made(what, Len(Commands(what)), o) <=> o \in Owned(what)
<1>1. CASE what = "veth"
  <2>1. Commands(what) = VethCommands
    BY <1>1 DEF Commands
  <2>2. \A o \in KernelObjects \ {"DIVERT"} : Made("veth", 5, o) <=> o \in Owned("veth")
    BY Objects DEF Made, MadeVeth, Owned
  <2>3. Len(VethCommands) = 5 /\ 5 - 1 = 4
    BY VethEffect
  <2>4. VethCommands \in Seq(Cmds)
    BY VethEffect
  <2>5. \A k \in 0..(Len(VethCommands) - 1) : Effect("veth", k, VethCommands[k + 1])
    <3>1. 0..(Len(VethCommands) - 1) = 0..4
      BY <2>3
    <3> QED
      BY <3>1, VethEffect
  <2>6. Len(VethCommands) \in Nat \ {0}
    BY <2>3
  <2> QED
    BY <1>1, <2>1, <2>2, <2>3, <2>4, <2>5, <2>6
<1>2. CASE what = "netns"
  <2>1. Commands(what) = NetnsCommands
    BY <1>2 DEF Commands
  <2>2. \A o \in KernelObjects \ {"DIVERT"} : Made("netns", 11, o) <=> o \in Owned("netns")
    BY Objects DEF Made, MadeNetns, Owned
  <2>3. Len(NetnsCommands) = 11 /\ 11 - 1 = 10
    BY NetnsEffect
  <2>4. NetnsCommands \in Seq(Cmds)
    BY NetnsEffect
  <2>5. \A k \in 0..(Len(NetnsCommands) - 1) : Effect("netns", k, NetnsCommands[k + 1])
    <3>1. 0..(Len(NetnsCommands) - 1) = 0..10
      BY <2>3
    <3> QED
      BY <3>1, NetnsEffect
  <2>6. Len(NetnsCommands) \in Nat \ {0}
    BY <2>3
  <2> QED
    BY <1>2, <2>1, <2>2, <2>3, <2>4, <2>5, <2>6
<1>3. CASE what = "netem"
  <2>1. Commands(what) = NetemCommands
    BY <1>3 DEF Commands
  <2>2. \A o \in KernelObjects \ {"DIVERT"} : Made("netem", 1, o) <=> o \in Owned("netem")
    BY Objects DEF Made, MadeNetem, Owned
  <2>3. Len(NetemCommands) = 1 /\ 1 - 1 = 0
    BY NetemEffect
  <2>4. NetemCommands \in Seq(Cmds)
    BY NetemEffect
  <2>5. \A k \in 0..(Len(NetemCommands) - 1) : Effect("netem", k, NetemCommands[k + 1])
    <3>1. 0..(Len(NetemCommands) - 1) = 0..0
      BY <2>3
    <3> QED
      BY <3>1, NetemEffect
  <2>6. Len(NetemCommands) \in Nat \ {0}
    BY <2>3
  <2> QED
    BY <1>3, <2>1, <2>2, <2>3, <2>4, <2>5, <2>6
<1>4. CASE what = "tproxy"
  <2>1. Commands(what) = TproxyCommands
    BY <1>4 DEF Commands
  <2>2. \A o \in KernelObjects \ {"DIVERT"} : Made("tproxy", 8, o) <=> o \in Owned("tproxy")
    BY Objects DEF Made, MadeTproxy, Owned
  <2>3. Len(TproxyCommands) = 8 /\ 8 - 1 = 7
    BY TproxyEffect
  <2>4. TproxyCommands \in Seq(Cmds)
    BY TproxyEffect
  <2>5. \A k \in 0..(Len(TproxyCommands) - 1) : Effect("tproxy", k, TproxyCommands[k + 1])
    <3>1. 0..(Len(TproxyCommands) - 1) = 0..7
      BY <2>3
    <3> QED
      BY <3>1, TproxyEffect
  <2>6. Len(TproxyCommands) \in Nat \ {0}
    BY <2>3
  <2> QED
    BY <1>4, <2>1, <2>2, <2>3, <2>4, <2>5, <2>6
<1> QED
  BY <1>1, <1>2, <1>3, <1>4 DEF Installations

\* Dropping a guard removes what it owns: both ends of a complete pair are in their
\* namespaces, so none is left outside.
LEMMA RemovedIsOwned ==
    ASSUME NEW what \in Installations, what = "netns" => Moved \subseteq kernel
    PROVE  Removed(what) = Owned(what)
<1>1. CASE what = "veth"
  <2>1. Removed("veth") = RemovedByTopology("veth")
    BY DEF Removed
  <2> QED
    BY <1>1, <2>1 DEF RemovedByTopology, Owned
<1>2. CASE what = "netns"
  <2>1. Removed("netns") = RemovedByTopology("netns")
    BY DEF Removed
  <2>2. kernel \cap Moved = {"seshat-a@scg_left", "seshat-b@scg_right"}
    BY <1>2, Objects
  <2>3. Cardinality(kernel \cap Moved) = 2
    <3>1. kernel \cap Moved = {"seshat-a@scg_left"} \cup {"seshat-b@scg_right"}
      BY <2>2
    <3>2. IsFiniteSet({"seshat-a@scg_left"}) /\ Cardinality({"seshat-a@scg_left"}) = 1
      BY FS_Singleton
    <3>3. "seshat-b@scg_right" \notin {"seshat-a@scg_left"}
      OBVIOUS
    <3>4. Cardinality({"seshat-a@scg_left"} \cup {"seshat-b@scg_right"}) = 1 + 1
      BY <3>2, <3>3, FS_AddElement
    <3> QED
      BY <3>1, <3>4
  <2> QED
    BY <1>2, <2>1, <2>3 DEF RemovedByTopology, Owned
<1>3. CASE what = "netem"
  <2>1. Removed("netem") = RemovedByImpairment
    BY DEF Removed
  <2> QED
    BY <1>3, <2>1 DEF RemovedByImpairment, Owned
<1>4. CASE what = "tproxy"
  <2>1. Removed("tproxy") = RemovedByTproxy
    BY DEF Removed
  <2> QED
    BY <1>4, <2>1 DEF RemovedByTproxy, Owned
<1> QED
  BY <1>1, <1>2, <1>3, <1>4 DEF Installations

\* The guards the process holds own what they would remove.
LEMMA HeldIsRemoved ==
    ASSUME HostInv
    PROVE  UNION {Removed(g) : g \in guards} = Held
<1>1. \A g \in guards : Owned(g) \subseteq kernel
  BY DEF HostInv, OneOwner, Held
<1>2. \A g \in guards : Removed(g) = Owned(g)
  <2> SUFFICES ASSUME NEW g \in guards PROVE Removed(g) = Owned(g)
    OBVIOUS
  <2>1. g \in Installations
    BY DEF HostInv, HostTypeOK
  <2>2. g = "netns" => Moved \subseteq kernel
    BY <1>1 DEF Owned
  <2> QED
    BY <2>1, <2>2, RemovedIsOwned
<1> QED
  BY <1>2 DEF Held

\* The head and the tail of what is left of a sequence.
LEMMA SuffixHeadTail ==
    ASSUME NEW T, NEW q \in Seq(T), NEW k \in 0..Len(q)
    PROVE  LET rest == SubSeq(q, k + 1, Len(q)) IN
           /\ rest = <<>> <=> k = Len(q)
           /\ k < Len(q) => /\ Head(rest) = q[k + 1]
                            /\ Tail(rest) = SubSeq(q, k + 2, Len(q))
<1> DEFINE rest == SubSeq(q, k + 1, Len(q))
<1>1. Len(q) \in Nat
  OBVIOUS
<1>2. CASE k = Len(q)
  <2>1. rest = <<>>
    BY <1>1, <1>2, SubSeqEmpty
  <2> QED
    BY <1>1, <1>2, <2>1
<1>3. CASE k < Len(q)
  <2>1. k + 1 \in 1..Len(q) /\ Len(q) \in (k + 1)..Len(q) /\ (k + 1) + 1 = k + 2
    BY <1>1, <1>3
  <2>2. Head(rest) = q[k + 1] /\ Tail(rest) = SubSeq(q, k + 2, Len(q))
    BY <2>1, HeadTailOfSubSeq
  <2>3. rest # <<>>
    <3>1. \A i \in (k + 1)..Len(q) : q[i] \in T
      BY <2>1
    <3>2. k + 1 \in Int /\ Len(q) \in Int /\ k + 1 <= Len(q)
      BY <1>1, <1>3
    <3>3. Len(rest) = Len(q) - (k + 1) + 1
      BY <3>1, <3>2, SubSeqProperties
    <3> QED
      <4>1. Len(rest) # 0
        BY <1>1, <1>3, <3>3
      <4> HIDE DEF rest
      <4> QED
        BY <4>1
  <2> QED
    BY <1>1, <1>3, <2>2, <2>3
<1> QED
  BY <1>1, <1>2, <1>3

\* The setup that is running has executed some of its commands.
LEMMA PickAt ==
    ASSUME HostInv, installing # "nothing"
    PROVE  /\ installing \in Installations
           /\ \E k \in Nat : At(k)
BY DEF HostInv, HostTypeOK, Setup

\* A command is executed, or a best-effort one fails without consequence.
LEMMA HostCommandRuns ==
    ASSUME HostInv, CommandRuns
    PROVE  HostInv'
<1>0. installing # "nothing" /\ pending # <<>>
  BY DEF CommandRuns
<1>1. installing \in Installations
  BY <1>0, PickAt
<1>2. PICK k \in Nat : At(k)
  BY <1>0, PickAt
<1> DEFINE q == Commands(installing)
           n == Len(q)
           c == q[k + 1]
<1>3. q \in Seq(Cmds) /\ n \in Nat
  BY <1>1, CommandsOf
<1>4. k \in 0..n /\ pending = SubSeq(q, k + 1, n)
  BY <1>2 DEF At
<1>5. k < n /\ Head(pending) = c /\ Tail(pending) = SubSeq(q, k + 2, n)
  BY <1>0, <1>3, <1>4, SuffixHeadTail
<1>6. Effect(installing, k, c)
  <2>1. k \in 0..(n - 1)
    BY <1>3, <1>5
  <2> QED
    BY <1>1, <2>1, CommandsOf
<1> DEFINE ok == Succeeds(c)
           done == IF ok THEN c.creates ELSE {}
           gone == IF ok THEN c.removes ELSE {}
<1>7. /\ ok \/ ~c.strict
      /\ kernel' = (kernel \ gone) \cup done
      /\ created' = (created \ gone) \cup done
      /\ pending' = SubSeq(q, k + 2, n)
      /\ UNCHANGED <<installing, guards, operator, leaked, stale>>
  BY <1>5 DEF CommandRuns
<1>8. c \in Cmds /\ c.removes \subseteq created
  BY <1>2, <1>6 DEF Effect, At, Cmds
<1>9. ok => c.creates \cap kernel = {}
  BY DEF Succeeds
<1>10. done \subseteq KernelObjects /\ gone \subseteq created /\ done \cap kernel = {}
  BY <1>8, <1>9 DEF Cmds
<1>11. Held' = Held
  BY <1>7 DEF Held
<1>12. OneOwner'
  BY <1>7, <1>10, <1>11 DEF HostInv, OneOwner
<1>13. HostTypeOK'
  BY <1>7, <1>10 DEF HostInv, HostTypeOK
<1>14. At(k + 1)'
  <2>1. ~ok => installing = "tproxy" /\ k = 0 /\ "DIVERT" \in kernel /\ done = {} /\ gone = {}
    BY <1>6, <1>7 DEF Effect, Succeeds
  <2>2. k + 1 \in 0..n /\ (k + 1) + 1 = k + 2
    BY <1>3, <1>4, <1>5
  <2>3. \A o \in KernelObjects \ {"DIVERT"} : o \in created' <=> Made(installing, k + 1, o)
    <3> SUFFICES ASSUME NEW o \in KernelObjects \ {"DIVERT"}
                 PROVE  o \in created' <=> Made(installing, k + 1, o)
      OBVIOUS
    <3>1. o \in created <=> Made(installing, k, o)
      BY <1>2 DEF At
    <3>2. Made(installing, k + 1, o) <=> o \in c.creates \/ (Made(installing, k, o) /\ o \notin c.removes)
      BY <1>6 DEF Effect
    <3>3. CASE ok
      BY <3>1, <3>2, <3>3, <1>7
    <3>4. CASE ~ok
      <4>1. c.creates = {"DIVERT"} /\ c.removes \subseteq {x \in created : Made("tproxy", 0, x)}
        BY <2>1, <3>4, <1>6, <1>8 DEF Effect
      <4>2. \A x : ~Made("tproxy", 0, x)
        BY DEF Made, MadeTproxy
      <4> QED
        BY <2>1, <3>1, <3>2, <3>4, <4>1, <4>2, <1>7
    <3> QED
      BY <3>3, <3>4
  <2>4. "DIVERT" \in created' => installing = "tproxy"
    BY <1>2, <1>6, <1>7 DEF At, Effect
  <2>5. installing = "tproxy" => "DIVERT" \in kernel'
    <3>1. CASE k = 0
      BY <3>1, <2>1, <1>6, <1>7 DEF Effect
    <3>2. CASE k # 0
      BY <3>2, <1>2, <1>6, <1>7 DEF At, Effect
    <3> QED
      BY <3>1, <3>2
  <2> QED
    BY <1>7, <2>2, <2>3, <2>4, <2>5 DEF At
<1>15. Setup'
  BY <1>0, <1>7, <1>14 DEF Setup
<1> QED
  BY <1>7, <1>12, <1>13, <1>15 DEF HostInv

\* The setup is complete: the guard takes over what it created, and what was left
\* of an earlier one.
LEMMA HostInstalled ==
    ASSUME HostInv, Installed
    PROVE  HostInv' /\ installing' = "nothing"
<1>0. installing # "nothing" /\ pending = <<>>
  BY DEF Installed
<1>1. installing \in Installations
  BY <1>0, PickAt
<1>2. PICK k \in Nat : At(k)
  BY <1>0, PickAt
<1> DEFINE q == Commands(installing)
           own == Owned(installing)
<1>3. k = Len(q)
  BY <1>0, <1>1, <1>2, CommandsOf, SuffixHeadTail DEF At
<1>4. \A o \in KernelObjects \ {"DIVERT"} : o \in created <=> o \in own
  BY <1>1, <1>2, <1>3, CommandsOf DEF At
<1>5. "DIVERT" \in own <=> installing = "tproxy"
  BY <1>1, Objects DEF Owned, Installations
<1>6. "DIVERT" \in own => "DIVERT" \in kernel
  BY <1>1, <1>2, <1>3, <1>5, CommandsOf DEF At
<1>7. own \subseteq KernelObjects
  BY Objects DEF Owned
<1>8. created \subseteq own
  BY <1>2, <1>4, <1>5 DEF At, HostInv, HostTypeOK
<1>9. own \subseteq kernel
  BY <1>4, <1>6, <1>7 DEF HostInv, OneOwner
<1>10. own \cap operator = {}
  <2>1. \A o \in own : o # "DIVERT" => o \in created
    BY <1>4, <1>7
  <2>2. "DIVERT" \in Transparent
    BY Objects
  <2> QED
    BY <2>1, <2>2 DEF HostInv, OneOwner
<1>12. Removed(installing) = own
  <2>1. installing = "netns" => Moved \subseteq own
    BY DEF Owned
  <2> QED
    BY <1>1, <1>9, <2>1, RemovedIsOwned
<1>13. /\ guards' = guards \cup {installing} /\ leaked' = leaked \ own
       /\ installing' = "nothing" /\ created' = {} /\ pending' = <<>>
       /\ UNCHANGED <<kernel, operator, stale>>
  BY <1>0, <1>12 DEF Installed
<1>14. Held' = Held \cup own
  BY <1>13 DEF Held
<1>15. OneOwner'
  BY <1>8, <1>9, <1>10, <1>13, <1>14 DEF HostInv, OneOwner
<1>16. HostTypeOK'
  BY <1>1, <1>13 DEF HostInv, HostTypeOK
<1>17. Setup'
  BY <1>13 DEF Setup
<1> QED
  BY <1>13, <1>15, <1>16, <1>17 DEF HostInv

\* A setup fails: what it created is left behind.
LEMMA HostCommandFails ==
    ASSUME HostInv, NEW refused, CommandFails(refused)
    PROVE  HostInv' /\ installing' = "nothing"
<1>1. installing \in Installations
  BY PickAt DEF CommandFails
<1>2. /\ leaked' = leaked \cup created
      /\ created' = {} /\ installing' = "nothing" /\ pending' = <<>>
      /\ UNCHANGED <<kernel, guards, operator>>
  BY DEF CommandFails
<1>3. stale' \subseteq Installations
  BY <1>1 DEF CommandFails, HostInv, HostTypeOK
<1>4. Held' = Held
  BY <1>2 DEF Held
<1>5. OneOwner'
  BY <1>2, <1>4 DEF HostInv, OneOwner
<1>6. HostTypeOK'
  BY <1>2, <1>3 DEF HostInv, HostTypeOK
<1>7. Setup'
  BY <1>2 DEF Setup
<1> QED
  BY <1>2, <1>5, <1>6, <1>7 DEF HostInv

\* A setup begins.
LEMMA HostStart ==
    ASSUME HostInv, NEW what \in Installations, StartInstalling(what)
    PROVE  HostInv' /\ installing' # "nothing"
<1>1. /\ installing = "nothing" /\ installing' = what /\ pending' = Commands(what)
      /\ UNCHANGED <<kernel, created, guards, operator, leaked, stale>>
  BY DEF StartInstalling
<1>2. created = {}
  BY <1>1 DEF HostInv, Setup
<1>3. At(0)'
  <2>1. Commands(what) \in Seq(Cmds) /\ Len(Commands(what)) \in Nat
    BY CommandsOf
  <2>2. Commands(what) = SubSeq(Commands(what), 0 + 1, Len(Commands(what)))
    BY <2>1, SubSeqFull
  <2>3. \A o : ~Made(what, 0, o)
    BY DEF Made, MadeVeth, MadeNetns, MadeNetem, MadeTproxy
  <2> QED
    BY <1>1, <1>2, <2>1, <2>2, <2>3 DEF At
<1>4. what # "nothing"
  BY DEF Installations
<1>5. Setup'
  BY <1>1, <1>3, <1>4 DEF Setup
<1>6. Held' = Held
  BY <1>1 DEF Held
<1> QED
  BY <1>1, <1>4, <1>5, <1>6 DEF HostInv, HostTypeOK, OneOwner

\* The guards are dropped, and with them what they own.
LEMMA HostDrop ==
    ASSUME HostInv, installing = "nothing", DropGuards(Installations)
    PROVE  HostInv' /\ guards' = {} /\ installing' = "nothing"
<1>1. guards \cap Installations = guards
  BY DEF HostInv, HostTypeOK
<1>2. kernel' = kernel \ Held
  BY <1>1, HeldIsRemoved DEF DropGuards
<1>3. guards' = {} /\ UNCHANGED <<pending, installing, created, operator, leaked, stale>>
  BY DEF DropGuards, HostInv, HostTypeOK
<1>4. Held' = {}
  BY <1>3 DEF Held
<1>5. OneOwner'
  BY <1>2, <1>3, <1>4 DEF HostInv, OneOwner
<1>6. HostTypeOK'
  BY <1>2, <1>3 DEF HostInv, HostTypeOK
<1> QED
  BY <1>3, <1>5, <1>6 DEF HostInv, Setup

\* A killed process leaves what it held.
LEMMA HostDies ==
    ASSUME HostInv, ProcessDies
    PROVE  HostInv' /\ guards' = {} /\ installing' = "nothing"
<1>1. /\ leaked' = leaked \cup created \cup (Held \cap kernel)
      /\ guards' = {} /\ installing' = "nothing" /\ pending' = <<>> /\ created' = {}
      /\ UNCHANGED <<kernel, operator, stale>>
  BY HeldIsRemoved DEF ProcessDies
<1>2. Held' = {}
  BY <1>1 DEF Held
<1>3. OneOwner'
  BY <1>1, <1>2 DEF HostInv, OneOwner
<1>4. HostTypeOK'
  BY <1>1 DEF HostInv, HostTypeOK
<1>5. Setup'
  BY <1>1 DEF Setup
<1> QED
  BY <1>1, <1>3, <1>4, <1>5 DEF HostInv

\* The operator's subcommands run while no scenario does.
LEMMA HostOperator ==
    ASSUME HostInv,
           \/ \E what \in {"veth", "netns", "netem"} : OperatorSetup(what)
           \/ \E mode \in {"veth", "netns"} : OperatorTeardown(mode)
    PROVE  HostInv' /\ UNCHANGED <<guards, installing>>
<1>1. ASSUME NEW what \in {"veth", "netns", "netem"}, OperatorSetup(what)
      PROVE  HostInv' /\ UNCHANGED <<guards, installing>>
  <2>1. what \in Installations
    BY DEF Installations
  <2> DEFINE q == Commands(what)
             made(n) == (UNION {SubSeq(q, 1, n)[i].creates : i \in 1..n})
                          \ (UNION {SubSeq(q, 1, n)[i].removes : i \in 1..n})
  <2>2. PICK n \in 1..Len(q) :
           /\ kernel' = kernel \cup made(n) /\ operator' = operator \cup made(n)
    BY <1>1 DEF OperatorSetup
  <2>3. q \in Seq(Cmds) /\ Len(q) \in Nat
    BY <2>1, CommandsOf
  <2>4. \A i \in 1..n : SubSeq(q, 1, n)[i] = q[i]
    <3>1. \A i \in 1..n : q[i] \in Cmds
      BY <2>3
    <3>2. n \in Int /\ 1 \in Int /\ n - 1 + 1 = n
      BY <2>3
    <3>3. \A i \in 1..(n - 1 + 1) : SubSeq(q, 1, n)[i] = q[1 + i - 1]
      BY <3>1, <3>2, SubSeqProperties
    <3>4. \A i \in 1..n : 1 + i - 1 = i
      BY <2>3
    <3> QED
      BY <3>2, <3>3, <3>4
  <2>5. \A i \in 1..n : q[i].creates \subseteq KernelObjects /\ q[i].creates \cap Transparent = {}
    <3> SUFFICES ASSUME NEW i \in 1..n
                 PROVE  q[i].creates \subseteq KernelObjects /\ q[i].creates \cap Transparent = {}
      OBVIOUS
    <3>1. PICK k \in 0..(Len(q) - 1) : i = k + 1
      <4>1. i - 1 \in 0..(Len(q) - 1) /\ i = (i - 1) + 1
        BY <2>3
      <4> QED
        BY <4>1
    <3>2. Effect(what, k, q[i])
      BY <2>1, <3>1, CommandsOf
    <3>3. q[i].creates \subseteq KernelObjects /\ "DIVERT" \notin q[i].creates
      BY <3>2 DEF Effect, Cmds
    <3>4. \A o \in q[i].creates : Made(what, k + 1, o)
      BY <3>2, <3>3 DEF Effect
    <3>5. \A o \in Transparent : ~Made(what, k + 1, o)
      BY Objects DEF Made, MadeVeth, MadeNetns, MadeNetem
    <3> QED
      BY <3>3, <3>4, <3>5
  <2>6. made(n) \subseteq KernelObjects /\ made(n) \cap Transparent = {}
    BY <2>4, <2>5
  <2> HIDE DEF made
  <2>7. /\ installing = "nothing" /\ guards = {}
        /\ UNCHANGED <<pending, installing, created, guards, leaked, stale>>
    BY <1>1 DEF OperatorSetup
  <2>8. Held = {} /\ Held' = {} /\ created = {}
    BY <2>7 DEF Held, HostInv, Setup
  <2>9. OneOwner' /\ (operator \cap Transparent = {})'
    BY <2>2, <2>6, <2>7, <2>8 DEF HostInv, OneOwner
  <2>10. HostTypeOK'
    BY <2>2, <2>6, <2>7 DEF HostInv, HostTypeOK
  <2> QED
    BY <2>7, <2>9, <2>10 DEF HostInv, Setup
<1>2. ASSUME NEW mode \in {"veth", "netns"}, OperatorTeardown(mode)
      PROVE  HostInv' /\ UNCHANGED <<guards, installing>>
  <2>1. /\ installing = "nothing" /\ guards = {}
        /\ kernel' \subseteq kernel
        /\ operator' = operator \cap kernel' /\ leaked' = leaked \cap kernel'
        /\ UNCHANGED <<pending, installing, created, guards, stale>>
    BY <1>2 DEF OperatorTeardown
  <2>2. Held = {} /\ Held' = {} /\ created = {}
    BY <2>1 DEF Held, HostInv, Setup
  <2>3. OneOwner' /\ (operator \cap Transparent = {})'
    BY <2>1, <2>2 DEF HostInv, OneOwner
  <2>4. HostTypeOK'
    BY <2>1 DEF HostInv, HostTypeOK
  <2> QED
    BY <2>1, <2>3, <2>4 DEF HostInv, Setup
<1> QED
  BY <1>1, <1>2

-----------------------------------------------------------------------------
(***************************************************************************)
(* The driver and the host's network.                                      *)
(***************************************************************************)
\* A step that leaves the network alone.
LEMMA QuietStep ==
    ASSUME HostInv, HoldsNothing, UNCHANGED hostVars,
           pc # "installing", pc' # "installing", pc' \in Outside => pc \in Outside
    PROVE  HostInv' /\ HoldsNothing'
<1>1. HostInv'
  BY DEF hostVars, HostInv, HostTypeOK, Setup, At, OneOwner, Held
<1>2. HoldsNothing'
  BY DEF hostVars, HoldsNothing
<1> QED
  BY <1>1, <1>2

\* A step that begins an installation.
LEMMA InstallStarts ==
    ASSUME HostInv, HoldsNothing, NEW what \in Installations, Install(what)
    PROVE  HostInv' /\ HoldsNothing'
<1>1. StartInstalling(what) /\ pc' = "installing"
  BY DEF Install, Goto
<1>2. HostInv' /\ installing' # "nothing"
  BY <1>1, HostStart
<1> QED
  BY <1>1, <1>2 DEF HoldsNothing, Outside

\* Steps of the driver and of its environment keep the network's invariant.
LEMMA HostSteps ==
    ASSUME HostInv, HoldsNothing, [Next]_vars
    PROVE  HostInv' /\ HoldsNothing'
<1> USE DEF Outside
<1>1. CASE Launch
  <2>1. pc = "idle" /\ pc' \in {"next", "refused"} /\ UNCHANGED hostVars
    BY <1>1 DEF Launch, Goto, Calm
  <2> QED
    BY <2>1, QuietStep
<1>2. CASE FinishSuite
  BY <1>2, QuietStep DEF FinishSuite, Goto, Calm
<1>3. CASE PassOver
  BY <1>3, QuietStep DEF PassOver, Calm
<1>4. CASE Dispatch
  <2>1. pc = "next" /\ pc' \in {"leave", "run", "spec", "topology"} /\ UNCHANGED hostVars
    BY <1>4 DEF Dispatch, Enter, Leave, Calm
  <2> QED
    BY <2>1, QuietStep
<1>5. CASE ProvisionTopology
  <2>1. CASE \E what \in {"veth", "netns"} : Install(what)
    BY <2>1, InstallStarts DEF Installations
  <2>2. CASE pc' \in {"impair", "leave"} /\ UNCHANGED hostVars
    BY <1>5, <2>2, QuietStep DEF ProvisionTopology
  <2> QED
    BY <1>5, <2>1, <2>2 DEF ProvisionTopology, Goto, Leave, Calm
<1>6. CASE Impair
  <2>1. CASE Install("netem")
    BY <2>1, InstallStarts DEF Installations
  <2>2. CASE pc' = "spec" /\ UNCHANGED hostVars
    BY <1>6, <2>2, QuietStep DEF Impair
  <2> QED
    BY <1>6, <2>1, <2>2 DEF Impair, Goto, Calm
<1>7. CASE InstallStep
  <2>1. CASE CommandRuns /\ UNCHANGED driverVars
    <3>1. HostInv' /\ UNCHANGED <<installing, guards>>
      BY <2>1, HostCommandRuns DEF CommandRuns
    <3> QED
      BY <2>1, <3>1 DEF HoldsNothing, driverVars
  <2>2. CASE Installed /\ Goto(After(installing))
    <3>1. HostInv' /\ installing' = "nothing"
      BY <2>2, HostInstalled
    <3>2. installing \in Installations
      BY <2>2, PickAt DEF Installed
    <3>3. After(installing) \in {"impair", "spec", "start"}
      BY <3>2 DEF After, Installations
    <3> QED
      BY <2>2, <3>1, <3>3 DEF HoldsNothing, Goto
  <2>3. CASE CommandFails(~Has("cap_net_admin")) /\ Leave("setup-failed")
    BY <2>3, HostCommandFails DEF HoldsNothing, Leave
  <2> QED
    BY <1>7, <2>1, <2>2, <2>3 DEF InstallStep
<1>8. CASE BuildSpec
  <2>1. CASE Install("tproxy")
    BY <2>1, InstallStarts DEF Installations
  <2>2. CASE pc' \in {"start", "leave"} /\ UNCHANGED hostVars
    BY <1>8, <2>2, QuietStep DEF BuildSpec
  <2> QED
    BY <1>8, <2>1, <2>2 DEF BuildSpec, Goto, Leave, Calm
<1>9. CASE StartGateway
  <2>1. pc = "start" /\ pc' \in {"run", "leave"} /\ UNCHANGED hostVars
    BY <1>9 DEF StartGateway, Leave, Calm
  <2> QED
    BY <2>1, QuietStep
<1>10. CASE RunTraffic
  <2>1. pc = "run" /\ pc' \in {"calibrate", "record", "leave"} /\ UNCHANGED hostVars
    BY <1>10 DEF RunTraffic, EngineError, Leave, Calm
  <2> QED
    BY <2>1, QuietStep
<1>11. CASE Calibrate
  BY <1>11, QuietStep DEF Calibrate, CalibrateWith, Calm
<1>12. CASE Sweep
  <2>1. pc = "sweep" /\ pc' \in {"record", "leave"} /\ UNCHANGED hostVars
    BY <1>12 DEF Sweep, Goto, Leave, Calm
  <2> QED
    BY <2>1, QuietStep
<1>13. CASE EndScenario
  <2>1. HostInv' /\ guards' = {} /\ installing' = "nothing"
    BY <1>13, HostDrop DEF EndScenario, HoldsNothing
  <2> QED
    BY <1>13, <2>1 DEF EndScenario, HoldsNothing
<1>14. CASE \E fell_back \in BOOLEAN : Record(fell_back)
  <2>1. pc = "record" /\ pc' = "leave" /\ UNCHANGED hostVars
    BY <1>14 DEF Record, Calm
  <2> QED
    BY <2>1, QuietStep
<1>15. CASE InstallRefused
  BY <1>15, HostCommandFails DEF InstallRefused, HoldsNothing, Leave
<1>16. CASE StartFails
  BY <1>16, QuietStep DEF StartFails, Leave
<1>17. CASE RunFails
  BY <1>17, QuietStep DEF RunFails, EngineError, Leave
<1>18. CASE RunEmpty
  BY <1>18, QuietStep DEF RunEmpty, Leave
<1>19. CASE ProbeFails
  <2>1. pc = "calibrate" /\ pc' \in {"sweep", "leave"} /\ UNCHANGED hostVars
    BY <1>19 DEF ProbeFails, CalibrateWith, Leave
  <2> QED
    BY <2>1, QuietStep
<1>20. CASE Killed
  BY <1>20, HostDies DEF Killed, HoldsNothing
<1>21. CASE Resume
  BY <1>21, QuietStep DEF Resume
<1>22. CASE OperatorCommand
  <2>1. HostInv' /\ UNCHANGED <<guards, installing, pc>>
    BY <1>22, HostOperator DEF OperatorCommand
  <2> QED
    BY <2>1 DEF HoldsNothing
<1>23. CASE UNCHANGED vars
  <2>1. UNCHANGED hostVars /\ UNCHANGED pc
    BY <1>23 DEF vars, driverVars
  <2>2. HostInv'
    BY <2>1 DEF hostVars, HostInv, HostTypeOK, Setup, At, OneOwner, Held
  <2> QED
    BY <2>1, <2>2 DEF HoldsNothing, hostVars
<1> QED
  BY <1>1, <1>2, <1>3, <1>4, <1>5, <1>6, <1>7, <1>8, <1>9, <1>10, <1>11, <1>12, <1>13, <1>14,
     <1>15, <1>16, <1>17, <1>18, <1>19, <1>20, <1>21, <1>22, <1>23 DEF Next, Progress, Disturbance

\* The network's invariant holds throughout.
LEMMA HostAlways == Spec => [](HostInv /\ HoldsNothing)
<1>1. Init => HostInv /\ HoldsNothing
  BY DEF Init, HostInit, HostInv, HostTypeOK, Setup, OneOwner, Held, HoldsNothing, Outside,
         KernelObjects, Installations
<1>2. HostInv /\ HoldsNothing /\ [Next]_vars => (HostInv /\ HoldsNothing)'
  BY HostSteps
<1> QED
  BY <1>1, <1>2, PTL DEF Spec

\* Between two scenarios the kernel holds what the operator installed and what a failed
\* setup or a killed process left, and nothing else: for any suites, any hosts and any
\* number of refused commands, kills, resumes and operator commands.
THEOREM HostIsRestored == Spec => []HostRestored
<1>1. HostInv /\ HoldsNothing => HostRestored
  <2> SUFFICES ASSUME HostInv, HoldsNothing,
                      pc \in {"next", "done", "aborted", "idle", "dead"}
               PROVE  kernel = operator \cup leaked
    BY DEF HostRestored
  <2>1. guards = {} /\ installing = "nothing"
    BY DEF HoldsNothing, Outside
  <2>2. created = {} /\ Held = {}
    BY <2>1 DEF HostInv, Setup, Held
  <2> QED
    BY <2>2 DEF HostInv, OneOwner
<1> QED
  BY HostAlways, <1>1, PTL

-----------------------------------------------------------------------------
(***************************************************************************)
(* What a row records.                                                     *)
(***************************************************************************)
\* A suite that was launched has been validated.
ValidItems ==
    /\ IsList(suite.items)
    /\ \A item \in ToSet(suite.items) :
          /\ IsList(item.scenario.streams)
          /\ pc \notin {"idle", "refused"} => Deserializes(item.scenario)

\* The items still to run are items of the suite, the current one among them.
TodoItems ==
    /\ todo \in Seq(ToSet(suite.items))
    /\ pc \notin Outside => todo # <<>>

\* The places where the gateway runs.
Carrying == {"run", "calibrate", "sweep", "record"}

Preparing == {"topology", "impair", "installing", "spec", "start"}

\* What carries the traffic is what the scenario asks for.
CarrierFits ==
    /\ pc \in {"calibrate", "sweep"} => path \in {"loopback", "gateway"}
    /\ pc \in Carrying => path \in {"loopback", "gateway", "streams", "reload"}
    /\ pc \in Preparing => path \in {"gateway", "streams", "reload"}
    /\ path = "loopback" /\ pc \in Carrying =>
          /\ LoopbackTransport(Scn) # Absent
          /\ dut = LoopbackDut(LoopbackTransport(Scn))
    /\ path \in {"gateway", "streams", "reload"} =>
          /\ Plan1 # NoPlan
          /\ path = "streams" <=> HasStreams(Scn)
          /\ pc \in Carrying => dut.gateway /\ dut.kind = CarrierKind /\ dut.rules = Rules
    /\ pc \in Outside => path = "none"

\* The transports a ceiling may have been probed over.
Probed(driver, interface) ==
    IF driver = "loopback" THEN {interface}
    ELSE IF interface = "unix" THEN {"uds-null", "tcp"}
    ELSE IF interface = "shm" THEN {"shm-null", "tcp"}
    ELSE IF interface = "udp" THEN {"udp"}
    ELSE {"tcp"}

Comparable(c, s, cores, driver) ==
    /\ c.size = RunParams(s).size /\ c.connections = RunParams(s).connections /\ c.cores = cores
    /\ c.transport = "shm-null" => c.ring = NullRing(s.ring)
    /\ c.transport \in Probed(driver, s.interface)
    /\ driver \in {"loopback", "gateway"}

\* Every entry of the cache was probed under the conditions its key names.
CacheHonest ==
    \A key \in DOMAIN ceilings :
        /\ ceilings[key].size = key.size /\ ceilings[key].connections = key.connections
        /\ ceilings[key].cores = key.cores
        /\ key.transport = IF ceilings[key].transport = "shm-null"
                           THEN <<"shm-null", ceilings[key].ring>>
                           ELSE <<ceilings[key].transport>>

\* The ceiling of the current scenario.
CeilingFits ==
    \/ ceiling = NoCeiling
    \/ pc \in {"sweep", "record", "leave"} /\ Comparable(ceiling, Scn, Cores, path)

RowInv == ValidItems /\ TodoItems /\ CarrierFits /\ CacheHonest /\ CeilingFits

\* resolve_security, kind by kind, where the protection is full.
LEMMA ResolvedFull ==
    ASSUME NEW s, Deserializes(s), s.protection = "full"
    PROVE  /\ s.kind = "tls" => ResolveSecurity(s) = TlsSecurity(s)
           /\ s.kind = "dtls" => ResolveSecurity(s) = DtlsSecurity(s)
           /\ s.kind = "custom" => ResolveSecurity(s) = CustomSecurity
           /\ s.kind \in {"none", "wireguard", "ipsec"} => ResolveSecurity(s) = Routing
<1>1. s.kind = "tls" => ResolveSecurity(s) = TlsSecurity(s)
  BY DEF ResolveSecurity, PlainRouting
<1>2. s.kind = "dtls" => ResolveSecurity(s) = DtlsSecurity(s)
  BY DEF ResolveSecurity, PlainRouting
<1>3. s.kind = "custom" => ResolveSecurity(s) = CustomSecurity
  BY DEF ResolveSecurity, PlainRouting
<1>4. s.kind \in {"none", "wireguard", "ipsec"} => ResolveSecurity(s) = Routing
  BY DEF ResolveSecurity, PlainRouting
<1> QED
  BY <1>1, <1>2, <1>3, <1>4

\* gateway_plan on its way through the interfaces.
LEMMA PlanCases ==
    ASSUME NEW s, Deserializes(s), PlanFor(s) # NoPlan
    PROVE  \/ HasStreams(s) /\ PlanFor(s) = Plan(ResolveSecurity(s), "scg-multistream")
           \/ /\ ~HasStreams(s) /\ s.kind = "dtls" /\ s.interface = "udp"
              /\ \E t : PlanFor(s) = Plan(DtlsSecurity(s), t)
                          /\ t \in {"scg-dtls-mtls", "scg-dtls"}
           \/ /\ ~HasStreams(s) /\ s.kind # "dtls"
              /\ \/ s.interface = "unix" /\ PlanFor(s) = Plan(ResolveSecurity(s), "scg-uds")
                 \/ s.interface = "shm" /\ PlanFor(s) = Plan(ResolveSecurity(s), "scg-shm")
                 \/ s.interface = "tproxy" /\ PlanFor(s) = Plan(ResolveSecurity(s), "scg-tproxy")
                 \/ s.interface = "udp" /\ PlanFor(s) = UdpPlan(s)
                 \/ s.interface = "tcp" /\ PlanFor(s) = TcpPlan(s)
<1>1. s.gateway
  BY DEF PlanFor
<1>2. CASE HasStreams(s)
  BY <1>1, <1>2 DEF PlanFor
<1>3. CASE ~HasStreams(s)
  <2>1. HasSender(s)
    BY <1>1, <1>3 DEF PlanFor
  <2>2. s.interface \in Interfaces
    BY <2>1 DEF HasSender, Deserializes
  <2>3. CASE s.kind = "dtls"
    BY <1>1, <1>3, <2>1, <2>3 DEF PlanFor
  <2>4. CASE s.kind # "dtls"
    <3> DEFINE P == CASE s.interface = "unix"   -> Plan(ResolveSecurity(s), "scg-uds")
                      [] s.interface = "shm"    -> Plan(ResolveSecurity(s), "scg-shm")
                      [] s.interface = "tproxy" -> Plan(ResolveSecurity(s), "scg-tproxy")
                      [] s.interface = "udp"    -> UdpPlan(s)
                      [] s.interface = "tcp"    -> TcpPlan(s)
    <3>1. PlanFor(s) = P
      BY <1>1, <1>3, <2>1, <2>4 DEF PlanFor
    <3>2. s.interface = "unix" => P = Plan(ResolveSecurity(s), "scg-uds")
      OBVIOUS
    <3>3. s.interface = "shm" => P = Plan(ResolveSecurity(s), "scg-shm")
      OBVIOUS
    <3>4. s.interface = "tproxy" => P = Plan(ResolveSecurity(s), "scg-tproxy")
      OBVIOUS
    <3>5. s.interface = "udp" => P = UdpPlan(s)
      OBVIOUS
    <3>6. s.interface = "tcp" => P = TcpPlan(s)
      OBVIOUS
    <3> HIDE DEF P
    <3> QED
      BY <1>3, <2>2, <2>4, <3>1, <3>2, <3>3, <3>4, <3>5, <3>6 DEF Interfaces
  <2> QED
    BY <2>3, <2>4
<1> QED
  BY <1>2, <1>3

\* The plans over TCP.
LEMMA TcpPlans ==
    ASSUME NEW s, Deserializes(s), TcpPlan(s) # NoPlan
    PROVE  \/ PlainRouting(s) /\ TcpPlan(s) = Plan(Routing, "scg-tcp")
           \/ /\ s.kind = "tls" /\ s.protection = "integrity"
              /\ TcpPlan(s) = Plan(IntegrityOnly(s), "scg-tls-integrity")
           \/ /\ s.kind = "tls" /\ s.protection = "full"
              /\ \E t \in {"scg-ktls-mtls", "scg-ktls", "scg-mtls", "scg-tls"} :
                    TcpPlan(s) = Plan(TlsSecurity(s), t)
           \/ /\ s.kind = "custom" /\ TcpPlan(s) = Plan(CustomSecurity, "scg-custom")
<1>1. CASE PlainRouting(s)
  BY <1>1 DEF TcpPlan, PlainRouting
<1>2. CASE ~PlainRouting(s) /\ s.kind = "tls" /\ s.protection = "integrity"
  BY <1>2 DEF TcpPlan
<1>3. CASE ~PlainRouting(s) /\ s.kind = "tls" /\ s.protection = "full"
  <2> DEFINE t == CASE s.kernel /\ s.mutual   -> "scg-ktls-mtls"
                    [] s.kernel /\ ~s.mutual  -> "scg-ktls"
                    [] ~s.kernel /\ s.mutual  -> "scg-mtls"
                    [] ~s.kernel /\ ~s.mutual -> "scg-tls"
  <2>1. t \in {"scg-ktls-mtls", "scg-ktls", "scg-mtls", "scg-tls"}
    OBVIOUS
  <2>2. TcpPlan(s) = Plan(TlsSecurity(s), t)
    BY <1>3 DEF TcpPlan
  <2> HIDE DEF t
  <2> QED
    BY <1>3, <2>1, <2>2
<1>4. CASE ~PlainRouting(s) /\ s.kind = "custom"
  BY <1>4 DEF TcpPlan
<1>5. CASE ~PlainRouting(s) /\ s.kind \notin {"tls", "custom"}
  BY <1>5 DEF TcpPlan
<1> QED
  BY <1>1, <1>2, <1>3, <1>4, <1>5 DEF Deserializes, PlainRouting, ProtectionModes

\* The plans over UDP.
LEMMA UdpPlans ==
    ASSUME NEW s, Deserializes(s), UdpPlan(s) # NoPlan
    PROVE  \/ s.kind = "tls" /\ \E t \in {"scg-udp-ale", "scg-udp-raw"} :
                                   UdpPlan(s) = Plan(TlsSecurity(s), t)
           \/ s.kind # "tls" /\ PlainRouting(s) /\ UdpPlan(s) = Plan(RoutingUdp, "scg-udp-routing")
           \/ s.kind = "custom" /\ UdpPlan(s) = Plan(CustomSecurity, "scg-custom-udp")
<1>1. CASE s.kind = "tls" /\ s.app = "none"
  BY <1>1 DEF UdpPlan
<1>2. CASE s.kind = "tls" /\ s.app # "none"
  <2>1. UdpPlan(s) = Plan(TlsSecurity(s), IF s.app = "ale" THEN "scg-udp-ale" ELSE "scg-udp-raw")
    BY <1>2 DEF UdpPlan
  <2> QED
    BY <1>2, <2>1
<1>3. CASE s.kind # "tls" /\ PlainRouting(s)
  BY <1>3 DEF UdpPlan
<1>4. CASE s.kind = "custom" /\ ~PlainRouting(s)
  BY <1>4 DEF UdpPlan
<1>5. CASE s.kind \notin {"tls", "custom"} /\ ~PlainRouting(s)
  BY <1>5 DEF UdpPlan
<1> QED
  BY <1>1, <1>2, <1>3, <1>4, <1>5

\* A single-stream plan opens the sockets of the scenario's interface.
LEMMA KindOfPlan ==
    ASSUME NEW s, Deserializes(s), PlanFor(s) # NoPlan, ~HasStreams(s)
    PROVE  /\ s.interface \in Interfaces
           /\ DutKind(PlanFor(s)) = IF s.interface = "unix" THEN "uds" ELSE s.interface
<1> DEFINE P == PlanFor(s)
<1>1. CASE s.kind = "dtls" /\ s.interface = "udp" /\ \E t : P = Plan(DtlsSecurity(s), t)
                                  /\ t \in {"scg-dtls-mtls", "scg-dtls"}
  <2>1. P.transport \in {"scg-dtls-mtls", "scg-dtls"} /\ P.security.mode = "dtls"
    BY <1>1 DEF Plan, DtlsSecurity, Security
  <2> HIDE DEF P
  <2>2. DutKind(P) = "udp"
    BY <2>1 DEF DutKind, IsUdp
  <2> QED
    BY <1>1, <2>2 DEF Interfaces, P
<1>2. CASE s.interface = "unix" /\ P = Plan(ResolveSecurity(s), "scg-uds")
  <2>1. P.transport = "scg-uds"
    BY <1>2 DEF Plan
  <2> QED
    BY <1>2, <2>1 DEF DutKind, Interfaces
<1>3. CASE s.interface = "shm" /\ P = Plan(ResolveSecurity(s), "scg-shm")
  <2>1. P.transport = "scg-shm"
    BY <1>3 DEF Plan
  <2> QED
    BY <1>3, <2>1 DEF DutKind, Interfaces
<1>4. CASE s.interface = "tproxy" /\ P = Plan(ResolveSecurity(s), "scg-tproxy")
  <2>1. P.transport = "scg-tproxy"
    BY <1>4 DEF Plan
  <2> QED
    BY <1>4, <2>1 DEF DutKind, Interfaces
<1>5. CASE s.interface = "udp" /\ P = UdpPlan(s)
  <2>1. P.transport \in {"scg-udp-ale", "scg-udp-raw", "scg-udp-routing", "scg-custom-udp"}
    BY <1>5, UdpPlans DEF Plan
  <2> HIDE DEF P
  <2>2. DutKind(P) = "udp"
    BY <2>1 DEF DutKind, IsUdp, IsFramed
  <2> QED
    BY <1>5, <2>2 DEF Interfaces, P
<1>6. CASE s.interface = "tcp" /\ P = TcpPlan(s)
  <2>1. /\ P.transport \in {"scg-tcp", "scg-tls-integrity", "scg-ktls-mtls", "scg-ktls", "scg-mtls",
                            "scg-tls", "scg-custom"}
        /\ P.security \in {Routing, IntegrityOnly(s), TlsSecurity(s), CustomSecurity}
    BY <1>6, TcpPlans DEF Plan
  <2>2. P.security.mode # "dtls"
    BY <2>1 DEF Routing, IntegrityOnly, TlsSecurity, CustomSecurity, Security
  <2> HIDE DEF P
  <2>3. DutKind(P) = "tcp"
    BY <2>1, <2>2 DEF DutKind, IsUdp, IsFramed
  <2> QED
    BY <1>6, <2>3 DEF Interfaces, P
<1> QED
  BY <1>1, <1>2, <1>3, <1>4, <1>5, <1>6, PlanCases

\* The security of a plan where the protection is full.
LEMMA FullSecurity ==
    ASSUME NEW s, Deserializes(s), PlanFor(s) # NoPlan, s.protection = "full"
    PROVE  /\ s.kind = "tls" => PlanFor(s).security = TlsSecurity(s)
           /\ s.kind = "dtls" => PlanFor(s).security = DtlsSecurity(s)
           /\ s.kind = "custom" => PlanFor(s).security = CustomSecurity
           /\ s.kind \in {"none", "wireguard", "ipsec"} =>
                 PlanFor(s).security \in {Routing, RoutingUdp}
<1> DEFINE P == PlanFor(s)
<1>0. s.kind \in ProtocolTypes
  BY DEF Deserializes
<1>1. CASE P.security = ResolveSecurity(s)
  BY <1>1, ResolvedFull
<1>2. CASE ~HasStreams(s) /\ s.kind = "dtls" /\ \E t : P = Plan(DtlsSecurity(s), t)
  BY <1>2 DEF Plan
<1>3. CASE s.kind # "dtls" /\ P = UdpPlan(s)
  BY <1>3, UdpPlans DEF Plan, PlainRouting
<1>4. CASE s.kind # "dtls" /\ P = TcpPlan(s)
  BY <1>4, TcpPlans DEF Plan, PlainRouting
<1>5. \A t : Plan(ResolveSecurity(s), t).security = ResolveSecurity(s)
  BY DEF Plan
<1> HIDE DEF P
<1>6. \/ P.security = ResolveSecurity(s)
      \/ ~HasStreams(s) /\ s.kind = "dtls" /\ \E t : P = Plan(DtlsSecurity(s), t)
      \/ s.kind # "dtls" /\ P = UdpPlan(s)
      \/ s.kind # "dtls" /\ P = TcpPlan(s)
  BY <1>5, PlanCases DEF P
<1> QED
  BY <1>1, <1>2, <1>3, <1>4, <1>6 DEF P

\* The provider of a spec is decided by the security alone.
LEMMA DecidedProvider ==
    ASSUME NEW s, NEW sec
    PROVE  /\ sec \in {Routing, RoutingUdp} => SecuritySpec(s, sec).provider = "routing"
           /\ sec = CustomSecurity => SecuritySpec(s, sec).provider = s.provider
           /\ sec = TlsSecurity(s) =>
                 SecuritySpec(s, sec).provider = IF s.kernel THEN "ktls" ELSE "tls"
           /\ sec = DtlsSecurity(s) => SecuritySpec(s, sec).provider = "dtls"
<1>1. SecuritySpec(s, sec).provider = DecidedSpec(s, sec).provider
  BY DEF SecuritySpec, Overridden
<1>2. Spec0.provider = "routing" /\ "provider" \in DOMAIN Spec0
  BY DEF Spec0
<1>3. RoutingUdpSpec.provider = "routing"
  BY <1>2 DEF RoutingUdpSpec
<1>4. \A p, proto : CustomSpec(p, proto).provider = p
  BY <1>2 DEF CustomSpec
<1>5. \A p, proto, v : ServerSpec(p, proto, v).provider = p
  BY <1>2 DEF ServerSpec
<1>6. \A p, proto, v : MutualSpec(p, proto, v).provider = p
  BY <1>2 DEF MutualSpec
<1>7. ASSUME sec \in {Routing, RoutingUdp} PROVE DecidedSpec(s, sec).provider = "routing"
  <2>1. CASE sec.mode = "routing"
    BY <2>1, <1>2 DEF DecidedSpec
  <2>2. CASE sec.mode = "routing-udp"
    BY <2>2, <1>3 DEF DecidedSpec
  <2> QED
    BY <1>7, <2>1, <2>2 DEF Routing, RoutingUdp, Security
<1>8. ASSUME sec = CustomSecurity PROVE DecidedSpec(s, sec).provider = s.provider
  <2>1. sec.mode = "custom"
    BY <1>8 DEF CustomSecurity, Security
  <2> QED
    BY <2>1, <1>4 DEF DecidedSpec
<1>9. ASSUME sec = TlsSecurity(s)
      PROVE  DecidedSpec(s, sec).provider = IF s.kernel THEN "ktls" ELSE "tls"
  <2>1. sec.mode = "tls" /\ (sec.kernel <=> s.kernel)
    BY <1>9 DEF TlsSecurity, Security
  <2>2. DecidedSpec(s, sec) =
           LET provider == IF sec.kernel THEN "ktls" ELSE "tls"
           IN  IF sec.mutual THEN MutualSpec(provider, "tcp", sec.version)
                             ELSE ServerSpec(provider, "tcp", sec.version)
    BY <2>1 DEF DecidedSpec
  <2> QED
    BY <2>1, <2>2, <1>5, <1>6
<1>10. ASSUME sec = DtlsSecurity(s) PROVE DecidedSpec(s, sec).provider = "dtls"
  <2>1. sec.mode = "dtls"
    BY <1>10 DEF DtlsSecurity, Security
  <2> QED
    BY <2>1, <1>5, <1>6 DEF DecidedSpec
<1> QED
  BY <1>1, <1>7, <1>8, <1>9, <1>10

\* The label and the provider of a gateway row agree on kernel TLS.
LEMMA LabelMatchesProvider ==
    ASSUME NEW s, Deserializes(s), PlanFor(s) # NoPlan, s.protection = "full"
    PROVE  LET sec == PlanFor(s).security IN
           /\ ProtocolLabel(s).base = "ktls" <=> SecuritySpec(s, sec).provider = "ktls"
           /\ KernelRequested(sec) => s.kind = "tls"
<1> DEFINE sec == PlanFor(s).security
           base == CASE s.kind = "tls" /\ s.kernel -> "ktls"
                     [] s.kind = "custom"          -> s.provider
                     [] OTHER                      -> s.kind
<1>0. s.kind \in ProtocolTypes
  BY DEF Deserializes
<1>1. ProtocolLabel(s).base = base
  BY DEF ProtocolLabel
<1>2. CASE s.kind = "tls"
  <2>1. base = IF s.kernel THEN "ktls" ELSE "tls"
    BY <1>2
  <2>2. SecuritySpec(s, sec).provider = IF s.kernel THEN "ktls" ELSE "tls"
    BY <1>2, FullSecurity, DecidedProvider
  <2> HIDE DEF base, sec
  <2> QED
    BY <1>1, <1>2, <2>1, <2>2 DEF sec
<1>3. CASE s.kind = "custom"
  <2>1. base = s.provider
    BY <1>3
  <2>2. sec = CustomSecurity
    BY <1>3, FullSecurity
  <2>3. SecuritySpec(s, sec).provider = s.provider /\ ~KernelRequested(sec)
    BY <2>2, DecidedProvider DEF KernelRequested, CustomSecurity, Security
  <2> HIDE DEF base, sec
  <2> QED
    BY <1>1, <2>1, <2>3 DEF sec
<1>4. CASE s.kind = "dtls"
  <2>1. base = "dtls"
    BY <1>4
  <2>2. sec = DtlsSecurity(s)
    BY <1>4, FullSecurity
  <2>3. SecuritySpec(s, sec).provider = "dtls" /\ ~KernelRequested(sec)
    BY <2>2, DecidedProvider DEF KernelRequested, DtlsSecurity, Security
  <2> HIDE DEF base, sec
  <2> QED
    BY <1>1, <2>1, <2>3 DEF sec
<1>5. CASE s.kind \in {"none", "wireguard", "ipsec"}
  <2>1. base = s.kind
    BY <1>5
  <2>2. sec \in {Routing, RoutingUdp}
    BY <1>5, FullSecurity
  <2>3. SecuritySpec(s, sec).provider = "routing" /\ ~KernelRequested(sec)
    BY <2>2, DecidedProvider DEF KernelRequested, Routing, RoutingUdp, Security
  <2> HIDE DEF base, sec
  <2> QED
    BY <1>1, <1>5, <2>1, <2>3 DEF sec
<1> QED
  BY <1>0, <1>2, <1>3, <1>4, <1>5 DEF ProtocolTypes

\* A finite set that is not empty is listed by a sequence that is not empty.
LEMMA ListOfSet ==
    ASSUME NEW S, IsFiniteSet(S), S # {}
    PROVE  /\ Cardinality(S) \in Nat \ {0}
           /\ SetToSeq(S) \in [1..Cardinality(S) -> S]
<1>1. Cardinality(S) \in Nat /\ ExistsBijection(1..Cardinality(S), S)
  BY FS_CardinalityType
<1>2. Cardinality(S) # 0
  BY FS_EmptySet
<1>3. PICK f : f \in Injection(1..Cardinality(S), S)
  BY <1>1 DEF ExistsBijection, Bijection
<1>4. \E g \in [1..Cardinality(S) -> S] : IsInjective(g)
  BY <1>3 DEF Injection
<1> QED
  BY <1>1, <1>2, <1>4 DEF SetToSeq

\* A rule carries the provider of its spec.
LEMMA PairProvider ==
    ASSUME NEW spec
    PROVE  RulePair(spec)[1].provider = spec.provider
BY DEF RulePair, EncryptRule, Rule

\* The first rule of the first gateway is the encrypting rule of the first pair.
LEMMA FirstRule ==
    ASSUME NEW s, NEW pairs, NEW n \in Nat \ {0}, DOMAIN pairs = 1..n
    PROVE  SplitRules(s, pairs)[1][1] = pairs[1][1]
<1> DEFINE encrypts == [i \in 1..n |-> pairs[i][1]]
           decrypts == [i \in 1..n |-> pairs[i][2]]
           T == {pairs[i][1] : i \in 1..n} \cup {pairs[i][2] : i \in 1..n}
<1>1. encrypts \in Seq(T) /\ decrypts \in Seq(T) /\ Len(encrypts) = n
  OBVIOUS
<1>2. encrypts[1] = pairs[1][1]
  OBVIOUS
<1>3. SplitRules(s, pairs) =
         IF s.chain = "scg-scg" THEN <<encrypts, decrypts>> ELSE <<encrypts \o decrypts>>
  BY DEF SplitRules
<1> HIDE DEF encrypts, decrypts, T
<1>4. (encrypts \o decrypts)[1] = encrypts[1]
  BY <1>1, ConcatProperties
<1>5. CASE s.chain = "scg-scg"
  <2>1. SplitRules(s, pairs)[1] = encrypts
    BY <1>3, <1>5
  <2> QED
    BY <1>2, <2>1
<1>6. CASE s.chain # "scg-scg"
  <2>1. SplitRules(s, pairs)[1] = encrypts \o decrypts
    BY <1>3, <1>6
  <2> QED
    BY <1>2, <1>4, <2>1
<1> QED
  BY <1>5, <1>6

\* A multi-stream gateway has a pair of rules for every traffic class, one at least.
LEMMA StreamPairs ==
    ASSUME path = "streams", HasStreams(Scn), IsList(Scn.streams)
    PROVE  \E n \in Nat \ {0} :
              /\ DOMAIN RulePairs = 1..n
              /\ \A i \in 1..n : \E class : RulePairs[i] = RulePair(WithTrafficClass(BaseSpec, class))
<1> DEFINE S == StreamClasses(Scn)
           classes == SetToSeq(S)
           pairs == [i \in DOMAIN classes |-> RulePair(WithTrafficClass(BaseSpec, classes[i]))]
<1>1. IsFiniteSet(S)
  <2>1. \A raw : CanonicalClass(raw) \in {"safety", "normal", "unknown"}
    BY DEF CanonicalClass
  <2>2. S \subseteq {"safety"} \cup {"normal"} \cup {"unknown"}
    BY <2>1 DEF StreamClasses
  <2>3. IsFiniteSet({"safety"} \cup {"normal"} \cup {"unknown"})
    BY FS_Singleton, FS_Union
  <2> QED
    BY <2>2, <2>3, FS_Subset
<1>2. S # {}
  <2>1. 1 \in DOMAIN Scn.streams
    BY DEF HasStreams, IsList
  <2> QED
    BY <2>1 DEF StreamClasses
<1>3. Cardinality(S) \in Nat \ {0} /\ classes \in [1..Cardinality(S) -> S]
  BY <1>1, <1>2, ListOfSet
<1>4. RulePairs = pairs
  BY DEF RulePairs
<1> HIDE DEF S, classes
<1>5. DOMAIN pairs = 1..Cardinality(S)
  BY <1>3
<1>6. \A i \in 1..Cardinality(S) : pairs[i] = RulePair(WithTrafficClass(BaseSpec, classes[i]))
  BY <1>3
<1> QED
  BY <1>3, <1>4, <1>5, <1>6

\* The provider of the rules is the provider of the spec, in every driver.
LEMMA RulesProvider ==
    ASSUME path \in {"gateway", "streams", "reload"},
           path = "streams" => HasStreams(Scn), IsList(Scn.streams)
    PROVE  Rules[1][1].provider = BaseSpec.provider
<1>1. FullSpec.provider = BaseSpec.provider
  BY DEF FullSpec, WithOptimizations, WithFraming
<1>2. /\ \E n \in Nat \ {0} : DOMAIN RulePairs = 1..n
      /\ RulePairs[1][1].provider = BaseSpec.provider
  <2>1. CASE path = "streams"
    <3>1. PICK n \in Nat \ {0} :
             /\ DOMAIN RulePairs = 1..n
             /\ \A i \in 1..n : \E class : RulePairs[i] = RulePair(WithTrafficClass(BaseSpec, class))
      BY <2>1, StreamPairs
    <3>2. PICK class : RulePairs[1] = RulePair(WithTrafficClass(BaseSpec, class))
      BY <3>1
    <3>3. WithTrafficClass(BaseSpec, class).provider = BaseSpec.provider
      BY DEF WithTrafficClass
    <3> QED
      BY <3>1, <3>2, <3>3, PairProvider
  <2>2. CASE path = "reload"
    <3>1. RulePairs = <<RulePair(BaseSpec)>>
      BY <2>2 DEF RulePairs
    <3> QED
      BY <3>1, PairProvider
  <2>3. CASE path = "gateway"
    <3> DEFINE pair == RulePair(FullSpec)
    <3>1. PICK one : RulePairs = <<one>> /\ one \in {LocalPair(pair, DutKind(Plan1)), TransparentPair(pair), pair}
      BY <2>3 DEF RulePairs
    <3>2. pair[1].provider = BaseSpec.provider
      BY <1>1, PairProvider
    <3> HIDE DEF pair
    <3>3. one[1].provider = BaseSpec.provider
      <4>1. \A r, proto : /\ [r EXCEPT !.listen = proto].provider = r.provider
                         /\ [r EXCEPT !.transparent = TRUE].provider = r.provider
        OBVIOUS
      <4>2. \A proto : LocalPair(pair, proto)[1] = [pair[1] EXCEPT !.listen = proto]
        BY DEF LocalPair
      <4>3. TransparentPair(pair)[1] = [pair[1] EXCEPT !.transparent = TRUE]
        BY DEF TransparentPair
      <4>4. CASE one = LocalPair(pair, DutKind(Plan1))
        <5>1. one[1] = [pair[1] EXCEPT !.listen = DutKind(Plan1)]
          BY <4>2, <4>4
        <5> QED
          BY <3>2, <4>1, <5>1
      <4>5. CASE one = TransparentPair(pair)
        <5>1. one[1] = [pair[1] EXCEPT !.transparent = TRUE]
          BY <4>3, <4>5
        <5> QED
          BY <3>2, <4>1, <5>1
      <4> QED
        BY <3>1, <3>2, <4>4, <4>5
    <3> QED
      BY <3>1, <3>3
  <2> QED
    BY <2>1, <2>2, <2>3
<1>3. CASE path = "gateway" /\ SingleHop
  BY <1>2, <1>3 DEF Rules
<1>4. CASE ~(path = "gateway" /\ SingleHop)
  BY <1>2, <1>4, FirstRule DEF Rules
<1> QED
  BY <1>3, <1>4

-----------------------------------------------------------------------------
(***************************************************************************)
(* The driver and what it carries.                                         *)
(***************************************************************************)
\* The current item is a validated one.
LEMMA CurrentItem ==
    ASSUME ValidItems, todo \in Seq(ToSet(suite.items)), todo # <<>>,
           pc \notin {"idle", "refused"}
    PROVE  Deserializes(Scn) /\ IsList(Scn.streams)
<1>1. Head(todo) \in ToSet(suite.items)
  BY HeadTailProperties
<1> QED
  BY <1>1 DEF ValidItems, Scn

\* What a scenario asks for depends on the item and the driver alone.
LEMMA SameRules ==
    ASSUME UNCHANGED <<todo, path>>
    PROVE  UNCHANGED <<Scn, Cores, Plan1, CarrierKind, Rules>>
<1>1. Scn' = Scn /\ Cores' = Cores
  BY DEF Scn, Cores
<1>2. Plan1' = Plan1
  BY <1>1 DEF Plan1
<1>3. CarrierKind' = CarrierKind
  BY <1>2 DEF CarrierKind
<1>4. BaseSpec' = BaseSpec /\ FullSpec' = FullSpec
  BY <1>1, <1>2 DEF BaseSpec, FullSpec
<1>5. RulePairs' = RulePairs
  BY <1>1, <1>2, <1>4 DEF RulePairs
<1>6. SingleHop' = SingleHop
  BY <1>1, <1>2, <1>4 DEF SingleHop
<1>7. Rules' = Rules
  BY <1>1, <1>5, <1>6 DEF Rules
<1> QED
  BY <1>1, <1>2, <1>3, <1>7

\* A step within a scenario, or outside one, that changes only the driver's place.
LEMMA PlaceStep ==
    ASSUME RowInv, UNCHANGED <<suite, todo, path, dut, ceilings, ceiling>>,
           pc' \notin {"idle", "refused"} => pc \notin {"idle", "refused"},
           pc' \notin Outside => todo # <<>>,
           pc' \in {"calibrate", "sweep"} => path \in {"loopback", "gateway"},
           pc' \in Preparing => path \in {"gateway", "streams", "reload"},
           pc' \in Carrying => pc \in Carrying,
           pc' \in Outside => path = "none",
           ceiling = NoCeiling \/ pc' \in {"sweep", "record", "leave"}
    PROVE  RowInv'
<1>1. UNCHANGED <<Scn, Cores, Plan1, CarrierKind, Rules>>
  BY SameRules
<1>2. ValidItems'
  BY DEF RowInv, ValidItems
<1>3. TodoItems'
  BY DEF RowInv, TodoItems
<1>4. CarrierFits'
  BY <1>1 DEF RowInv, CarrierFits, Carrying
<1>5. CacheHonest'
  BY DEF RowInv, CacheHonest
<1>6. CeilingFits'
  BY <1>1 DEF RowInv, CeilingFits, NoCeiling
<1> QED
  BY <1>2, <1>3, <1>4, <1>5, <1>6 DEF RowInv

\* The driver turns to another item, with nothing of the last one left.
LEMMA TurnStep ==
    ASSUME RowInv, UNCHANGED suite, pc \notin {"idle", "refused"}, pc' \in Outside,
           todo' \in Seq(ToSet(suite.items)), path' = "none", ceiling' = NoCeiling,
           ceilings' = ceilings \/ ceilings' = <<>>
    PROVE  RowInv'
<1>1. ValidItems'
  BY DEF RowInv, ValidItems
<1>2. TodoItems'
  BY DEF TodoItems
<1>3. CarrierFits'
  BY DEF CarrierFits, Outside, Carrying, Preparing
<1>4. CacheHonest'
  <2>1. DOMAIN <<>> = {}
    OBVIOUS
  <2> QED
    BY <2>1 DEF RowInv, CacheHonest
<1>5. CeilingFits'
  BY DEF CeilingFits, NoCeiling
<1> QED
  BY <1>1, <1>2, <1>3, <1>4, <1>5 DEF RowInv

\* The rest of the items are items of the suite.
LEMMA TailItems ==
    ASSUME RowInv, todo # <<>>
    PROVE  Tail(todo) \in Seq(ToSet(suite.items))
BY HeadTailProperties DEF RowInv, TodoItems

\* run validates the suite.
LEMMA RowLaunch == RowInv /\ Launch => RowInv'
<1> SUFFICES ASSUME RowInv, Launch PROVE RowInv'
  OBVIOUS
<1> DEFINE scenarios == [i \in DOMAIN suite.items |-> suite.items[i].scenario]
<1>1. /\ pc = "idle" /\ pc' = (IF Validates(suite.defaults, scenarios) THEN "next" ELSE "refused")
      /\ UNCHANGED <<suite, todo, path, dut, ceilings, ceiling>>
  BY DEF Launch, Goto
<1>2. pc' = "next" => \A item \in ToSet(suite.items) : Deserializes(item.scenario)
  <2> SUFFICES ASSUME pc' = "next", NEW i \in DOMAIN suite.items
               PROVE  Deserializes(suite.items[i].scenario)
    BY DEF ToSet
  <2>1. Validates(suite.defaults, scenarios)
    BY <1>1
  <2>2. Deserializes(scenarios[i])
    BY <2>1 DEF Validates
  <2> QED
    BY <2>2
<1> HIDE DEF scenarios
<1>3. ValidItems'
  BY <1>1, <1>2 DEF RowInv, ValidItems
<1>4. TodoItems'
  BY <1>1 DEF RowInv, TodoItems, Outside
<1>5. CarrierFits'
  BY <1>1 DEF RowInv, CarrierFits, Outside, Carrying, Preparing
<1>6. CacheHonest'
  BY <1>1 DEF RowInv, CacheHonest
<1>7. CeilingFits'
  BY <1>1 DEF RowInv, CeilingFits, NoCeiling
<1> QED
  BY <1>3, <1>4, <1>5, <1>6, <1>7 DEF RowInv

\* A scenario begins: on the loopback at once, through a gateway after preparations.
Entering(driver, carrier, next) ==
    /\ Enter(driver, carrier, next)
    /\ \/ /\ driver = "loopback" /\ next = "run" /\ LoopbackTransport(Scn) # Absent
          /\ carrier = LoopbackDut(LoopbackTransport(Scn))
       \/ /\ driver \in {"gateway", "streams", "reload"} /\ next \in {"spec", "topology"}
          /\ Plan1 # NoPlan /\ (driver = "streams" <=> HasStreams(Scn))
          /\ carrier = NoDut /\ (next = "topology" => driver = "gateway")

\* The driver of a scenario is chosen.
LEMMA RowDispatch == RowInv /\ Dispatch => RowInv'
<1> SUFFICES ASSUME RowInv, Dispatch PROVE RowInv'
  OBVIOUS
<1>1. pc = "next" /\ todo # <<>> /\ path = "none" /\ ceiling = NoCeiling
  BY DEF Dispatch, RowInv, CarrierFits, CeilingFits, Outside
<1>2. CASE \E how \in SkipReasons : Leave(how)
  BY <1>1, <1>2, PlaceStep DEF Leave, Outside, Carrying, Preparing
<1>3. CASE \E driver, carrier, next : Entering(driver, carrier, next)
  <2>1. PICK driver, carrier, next : Entering(driver, carrier, next)
    BY <1>3
  <2>2. /\ path' = driver /\ dut' = carrier /\ pc' = next /\ ceiling' = NoCeiling
        /\ UNCHANGED <<suite, todo, ceilings>>
    BY <2>1 DEF Entering, Enter
  <2>3. Scn' = Scn /\ Plan1' = Plan1
    BY <2>2 DEF Scn, Plan1
  <2>4. ValidItems' /\ TodoItems'
    BY <1>1, <2>2 DEF RowInv, ValidItems, TodoItems
  <2>5. CarrierFits'
    BY <2>1, <2>2, <2>3 DEF Entering, CarrierFits, Outside, Carrying, Preparing
  <2>6. CacheHonest' /\ CeilingFits'
    BY <2>2 DEF RowInv, CacheHonest, CeilingFits, NoCeiling
  <2> QED
    BY <2>4, <2>5, <2>6 DEF RowInv
<1>4. ASSUME ~\E how \in SkipReasons : Leave(how)
      PROVE  \E driver, carrier, next : Entering(driver, carrier, next)
  BY <1>4 DEF Entering, Dispatch, SkipReasons
<1> QED
  BY <1>2, <1>3, <1>4

\* Before the traffic only the driver's place changes.
LEMMA PreparingStep ==
    ASSUME HostTypeOK, ProvisionTopology \/ Impair \/ InstallStep \/ InstallRefused \/ BuildSpec
    PROVE  /\ pc \in Preparing /\ pc' \in Preparing \cup {"leave"}
           /\ UNCHANGED <<suite, todo, path, dut, ceilings, ceiling>>
<1>1. pc \in Preparing /\ UNCHANGED <<suite, todo, path, dut, ceilings, ceiling>>
  BY DEF Preparing, ProvisionTopology, Impair, InstallStep, InstallRefused, BuildSpec, Install,
         Goto, Leave, driverVars
<1>2. pc' \in Preparing \cup {"leave"}
  <2>1. CASE ProvisionTopology \/ Impair \/ BuildSpec \/ InstallRefused
    BY <2>1 DEF Preparing, ProvisionTopology, Impair, InstallRefused, BuildSpec, Install, Goto, Leave
  <2>2. CASE InstallStep
    <3>1. \A what \in Installations : After(what) \in Preparing
      BY DEF After, Preparing, Installations
    <3>2. Installed => After(installing) \in Preparing
      BY <3>1 DEF Installed, HostTypeOK
    <3> QED
      BY <1>1, <2>2, <3>2 DEF InstallStep, Goto, Leave, driverVars
  <2> QED
    BY <2>1, <2>2
<1> QED
  BY <1>1, <1>2

\* Before the traffic: topology, impairment, installation and the security spec.
LEMMA RowPrepare ==
    /\ HostTypeOK /\ RowInv
    /\ ProvisionTopology \/ Impair \/ InstallStep \/ InstallRefused \/ BuildSpec
    => RowInv'
<1> SUFFICES ASSUME HostTypeOK, RowInv,
                    ProvisionTopology \/ Impair \/ InstallStep \/ InstallRefused \/ BuildSpec
             PROVE  RowInv'
  OBVIOUS
<1>1. /\ pc \in Preparing /\ pc' \in Preparing \cup {"leave"}
      /\ UNCHANGED <<suite, todo, path, dut, ceilings, ceiling>>
  BY PreparingStep
<1>2. ceiling = NoCeiling /\ path \in {"gateway", "streams", "reload"} /\ todo # <<>>
  BY <1>1 DEF RowInv, CeilingFits, CarrierFits, TodoItems, Preparing, Outside
<1> QED
  BY <1>1, <1>2, PlaceStep DEF Preparing, Outside, Carrying

\* The gateway is started.
LEMMA RowStart == RowInv /\ (StartGateway \/ StartFails) => RowInv'
<1> SUFFICES ASSUME RowInv, StartGateway \/ StartFails PROVE RowInv'
  OBVIOUS
<1>1. /\ pc = "start" /\ ceiling = NoCeiling /\ path \in {"gateway", "streams", "reload"}
      /\ todo # <<>> /\ Plan1 # NoPlan /\ (path = "streams" <=> HasStreams(Scn))
  BY DEF StartGateway, StartFails, RowInv, CeilingFits, CarrierFits, TodoItems, Preparing, Outside
<1>2. CASE \E how : Leave(how)
  BY <1>1, <1>2, PlaceStep DEF Leave, Outside, Carrying, Preparing
<1>3. CASE /\ dut' = [ kind |-> CarrierKind, gateway |-> TRUE, rules |-> Rules,
                       pipelines |-> ProvisionedPipelines(Params.connections, Params.runs) ]
           /\ pc' = "run"
           /\ UNCHANGED <<suite, todo, path, ceilings, ceiling>>
  <2>1. UNCHANGED <<Scn, Cores, Plan1, CarrierKind, Rules>>
    BY <1>3, SameRules
  <2>2. dut'.gateway /\ dut'.kind = CarrierKind' /\ dut'.rules = Rules'
    BY <1>3, <2>1
  <2>3. ValidItems' /\ TodoItems'
    BY <1>1, <1>3 DEF RowInv, ValidItems, TodoItems
  <2>4. CarrierFits'
    BY <1>1, <1>3, <2>1, <2>2 DEF CarrierFits, Outside, Carrying, Preparing
  <2>5. CacheHonest' /\ CeilingFits'
    BY <1>1, <1>3 DEF RowInv, CacheHonest, CeilingFits, NoCeiling
  <2> QED
    BY <2>3, <2>4, <2>5 DEF RowInv
<1> QED
  BY <1>2, <1>3 DEF StartGateway, StartFails

\* The traffic, and the end of a sweep.
LEMMA RowTraffic == RowInv /\ (RunTraffic \/ RunFails \/ RunEmpty \/ Sweep) => RowInv'
<1> SUFFICES ASSUME RowInv, RunTraffic \/ RunFails \/ RunEmpty \/ Sweep PROVE RowInv'
  OBVIOUS
<1>1. /\ pc \in {"run", "sweep"} /\ pc' \in {"calibrate", "record", "leave"}
      /\ UNCHANGED <<suite, todo, path, dut, ceilings, ceiling>>
      /\ pc' = "calibrate" => pc = "run" /\ path \in {"loopback", "gateway"}
  BY DEF RunTraffic, RunFails, RunEmpty, Sweep, EngineError, Leave, Goto
<1>2. todo # <<>> /\ (pc = "run" => ceiling = NoCeiling)
  BY <1>1 DEF RowInv, TodoItems, CeilingFits, Outside
<1> QED
  BY <1>1, <1>2, PlaceStep DEF Outside, Carrying, Preparing

\* The end of a scenario, of a process, and what follows.
LEMMA RowTurns ==
    RowInv /\ (FinishSuite \/ PassOver \/ EndScenario \/ Killed \/ Resume \/ OperatorCommand) => RowInv'
<1> SUFFICES ASSUME RowInv,
                    FinishSuite \/ PassOver \/ EndScenario \/ Killed \/ Resume \/ OperatorCommand
             PROVE  RowInv'
  OBVIOUS
<1>0. todo \in Seq(ToSet(suite.items)) /\ suite.items \in Seq(ToSet(suite.items))
  BY DEF RowInv, TodoItems, ValidItems, IsList
<1>1. CASE FinishSuite
  BY <1>0, <1>1, TurnStep DEF FinishSuite, Goto, Outside, RowInv, CarrierFits, CeilingFits
<1>2. CASE PassOver
  <2>1. todo' \in Seq(ToSet(suite.items))
    BY <1>2, TailItems DEF PassOver
  <2> QED
    BY <1>2, <2>1, TurnStep DEF PassOver, Outside, RowInv, CarrierFits, CeilingFits
<1>3. CASE EndScenario
  <2>1. todo' \in Seq(ToSet(suite.items))
    BY <1>3, TailItems DEF EndScenario, RowInv, TodoItems, Outside
  <2> QED
    BY <1>3, <2>1, TurnStep DEF EndScenario, Outside
<1>4. CASE Killed
  BY <1>0, <1>4, TurnStep DEF Killed, Outside
<1>5. CASE Resume
  BY <1>0, <1>5, TurnStep DEF Resume, Outside, RowInv, CarrierFits, CeilingFits
<1>6. CASE OperatorCommand
  BY <1>6, PlaceStep DEF OperatorCommand, Outside, Carrying, Preparing, RowInv, CarrierFits, CeilingFits
<1> QED
  BY <1>1, <1>2, <1>3, <1>4, <1>5, <1>6

\* The ceiling of the carrier is one its scenario may use.
LEMMA CarrierCeiling ==
    ASSUME RowInv, pc = "calibrate"
    PROVE  /\ path \in {"loopback", "gateway"}
           /\ CeilingTransport \in Probed(path, Scn.interface)
           /\ CeilingTransport \notin {"tcp", "udp"} => "tcp" \in Probed(path, Scn.interface)
<1>1. path \in {"loopback", "gateway"} /\ todo # <<>>
  BY DEF RowInv, CarrierFits, TodoItems, Outside
<1>2. Deserializes(Scn)
  BY <1>1, CurrentItem DEF RowInv, TodoItems
<1>3. CASE path = "loopback"
  <2>1. dut = LoopbackDut(LoopbackTransport(Scn)) /\ LoopbackTransport(Scn) # Absent
    BY <1>3 DEF RowInv, CarrierFits, Carrying
  <2>2. LoopbackTransport(Scn) = Scn.interface /\ Scn.interface \in {"tcp", "udp"}
    BY <2>1 DEF LoopbackTransport
  <2>3. dut.kind = Scn.interface
    BY <2>1, <2>2 DEF LoopbackDut
  <2>4. CeilingTransport = Scn.interface
    BY <2>2, <2>3 DEF CeilingTransport
  <2> QED
    BY <1>3, <2>2, <2>4 DEF Probed
<1>4. CASE path = "gateway"
  <2>1. Plan1 # NoPlan /\ ~HasStreams(Scn) /\ dut.kind = CarrierKind
    BY <1>4 DEF RowInv, CarrierFits, Carrying
  <2>2. dut.kind = DutKind(PlanFor(Scn))
    BY <1>4, <2>1 DEF CarrierKind, Plan1
  <2>3. /\ Scn.interface \in Interfaces
        /\ dut.kind = IF Scn.interface = "unix" THEN "uds" ELSE Scn.interface
    BY <1>2, <2>1, <2>2, KindOfPlan DEF Plan1
  <2>4. CASE Scn.interface = "unix"
    <3>1. CeilingTransport = "uds-null"
      BY <2>3, <2>4 DEF CeilingTransport
    <3> QED
      BY <1>4, <2>4, <3>1 DEF Probed
  <2>5. CASE Scn.interface = "shm"
    <3>1. CeilingTransport = "shm-null"
      BY <2>3, <2>5 DEF CeilingTransport
    <3> QED
      BY <1>4, <2>5, <3>1 DEF Probed
  <2>6. CASE Scn.interface = "udp"
    <3>1. CeilingTransport = "udp"
      BY <2>3, <2>6 DEF CeilingTransport
    <3> QED
      BY <1>4, <2>6, <3>1 DEF Probed
  <2>7. CASE Scn.interface \in {"tcp", "tproxy"}
    <3>1. CeilingTransport = "tcp"
      BY <2>3, <2>7 DEF CeilingTransport
    <3> QED
      BY <1>4, <2>7, <3>1 DEF Probed
  <2> QED
    BY <1>4, <2>3, <2>4, <2>5, <2>6, <2>7 DEF Interfaces
<1> QED
  BY <1>1, <1>3, <1>4

\* A key tells the transport, and the ring where it matters.
LEMMA KeyTransport ==
    ASSUME NEW t, NEW u, NEW r, NEW q,
           (IF t = "shm-null" THEN <<t, r>> ELSE <<t>>) = (IF u = "shm-null" THEN <<"shm-null", q>> ELSE <<u>>)
    PROVE  u = t /\ (t = "shm-null" => q = r)
<1>1. \A a, b, c : <<a, b>> # <<c>>
  <2> SUFFICES ASSUME NEW a, NEW b, NEW c, <<a, b>> = <<c>> PROVE FALSE
    OBVIOUS
  <2>1. Len(<<a, b>>) = 2 /\ Len(<<c>>) = 1
    OBVIOUS
  <2> QED
    BY <2>1
<1>2. \A a, b : <<a>> = <<b>> => a = b
  OBVIOUS
<1>3. \A a, b, c, d : <<a, b>> = <<c, d>> => a = c /\ b = d
  OBVIOUS
<1> QED
  BY <1>1, <1>2, <1>3

\* A ceiling that is probed, or found in the cache, is comparable and keeps the cache honest.
LEMMA RowCalibrateWith ==
    ASSUME RowInv, pc = "calibrate", NEW t \in Probed(path, Scn.interface), CalibrateWith(t)
    PROVE  RowInv'
<1> DEFINE key == CeilingKey(t)
           probe == IF key \in DOMAIN ceilings THEN ceilings[key] ELSE Conditions(t)
<1>1. /\ pc' = "sweep" /\ UNCHANGED <<suite, todo, path, dut>>
      /\ ceiling' = probe
      /\ ceilings' = [k \in DOMAIN ceilings \cup {key} |-> IF k = key THEN probe ELSE ceilings[k]]
  BY DEF CalibrateWith, UseCeiling
<1>2. path \in {"loopback", "gateway"} /\ todo # <<>>
  BY CarrierCeiling DEF RowInv, TodoItems, Outside
<1>3. UNCHANGED <<Scn, Cores, Plan1, CarrierKind, Rules>>
  BY <1>1, SameRules
<1>4. /\ key.size = Params.size /\ key.connections = Params.connections /\ key.cores = Cores
      /\ key.transport = IF t = "shm-null" THEN <<t, NullRing(Scn.ring)>> ELSE <<t>>
  BY DEF CeilingKey, CacheKey
<1>5. /\ probe.size = Params.size /\ probe.connections = Params.connections /\ probe.cores = Cores
      /\ probe.transport = t /\ (t = "shm-null" => probe.ring = NullRing(Scn.ring))
  <2>1. CASE key \in DOMAIN ceilings
    <3>1. probe = ceilings[key]
      BY <2>1
    <3>2. /\ probe.size = key.size /\ probe.connections = key.connections /\ probe.cores = key.cores
          /\ key.transport = IF probe.transport = "shm-null" THEN <<"shm-null", probe.ring>>
                             ELSE <<probe.transport>>
      BY <2>1, <3>1 DEF RowInv, CacheHonest
    <3> HIDE DEF probe, key
    <3>3. probe.transport = t /\ (t = "shm-null" => probe.ring = NullRing(Scn.ring))
      BY <1>4, <3>2, KeyTransport
    <3> QED
      BY <1>4, <3>2, <3>3
  <2>2. CASE key \notin DOMAIN ceilings
    <3>1. probe = Conditions(t)
      BY <2>2
    <3> HIDE DEF probe, key
    <3> QED
      BY <3>1 DEF Conditions
  <2> QED
    BY <2>1, <2>2
<1> HIDE DEF probe, key
<1>6. ValidItems' /\ TodoItems'
  BY <1>1, <1>2 DEF RowInv, ValidItems, TodoItems
<1>7. CarrierFits'
  BY <1>1, <1>2, <1>3 DEF RowInv, CarrierFits, Outside, Carrying, Preparing
<1>8. CacheHonest'
  <2>1. key.transport = IF probe.transport = "shm-null" THEN <<"shm-null", probe.ring>>
                        ELSE <<probe.transport>>
    BY <1>4, <1>5
  <2> QED
    BY <1>1, <1>4, <1>5, <2>1 DEF RowInv, CacheHonest
<1>9. CeilingFits'
  <2>1. Comparable(probe, Scn, Cores, path)
    BY <1>2, <1>5 DEF Comparable, Params
  <2> QED
    BY <1>1, <1>3, <2>1 DEF CeilingFits
<1> QED
  BY <1>6, <1>7, <1>8, <1>9 DEF RowInv

\* Calibration, with its fallback.
LEMMA RowCalibrate == RowInv /\ (Calibrate \/ ProbeFails) => RowInv'
<1> SUFFICES ASSUME RowInv, Calibrate \/ ProbeFails PROVE RowInv'
  OBVIOUS
<1>1. pc = "calibrate" /\ ceiling = NoCeiling /\ todo # <<>>
  BY DEF Calibrate, ProbeFails, RowInv, CeilingFits, TodoItems, Outside
<1>2. CASE Leave("aborted")
  BY <1>1, <1>2, PlaceStep DEF Leave, Outside, Carrying, Preparing
<1>3. CASE CalibrateWith(CeilingTransport)
  BY <1>1, <1>3, CarrierCeiling, RowCalibrateWith
<1>4. CASE CeilingTransport \notin {"tcp", "udp"} /\ CalibrateWith("tcp")
  BY <1>1, <1>4, CarrierCeiling, RowCalibrateWith
<1> QED
  BY <1>2, <1>3, <1>4 DEF Calibrate, ProbeFails, NullCeiling

\* The row is written.
LEMMA RowRecord ==
    ASSUME RowInv, NEW fell_back \in BOOLEAN, Record(fell_back)
    PROVE  RowInv' /\ CeilingComparable' /\ FullProtectionLabelled'
<1>1. /\ pc = "record" /\ pc' = "leave" /\ UNCHANGED <<suite, todo, path, dut, ceilings, ceiling>>
      /\ fell_back => KernelRequested(Plan1.security)
      /\ row' = [ scenario |-> Scn, driver |-> path, cores |-> Cores,
                  label |-> IF path = "loopback" THEN ProtocolLabel(Scn)
                            ELSE EffectiveLabel(Scn, Plan1.security, fell_back),
                  provider |-> Provider, kernel |-> Provider = "ktls" /\ ~fell_back,
                  ceiling |-> ceiling, installed |-> guards ]
  BY DEF Record
<1>2. /\ row'.scenario = Scn /\ row'.driver = path /\ row'.cores = Cores
      /\ row'.ceiling = ceiling
      /\ row'.label = IF path = "loopback" THEN ProtocolLabel(Scn)
                      ELSE EffectiveLabel(Scn, Plan1.security, fell_back)
      /\ row'.kernel <=> (Provider = "ktls" /\ ~fell_back)
  BY <1>1
<1>3. /\ todo # <<>> /\ path \in {"loopback", "gateway", "streams", "reload"}
      /\ todo \in Seq(ToSet(suite.items)) /\ ValidItems
  BY <1>1 DEF RowInv, TodoItems, CarrierFits, Carrying, Outside
<1>4. RowInv'
  BY <1>1, <1>3, PlaceStep DEF Outside, Carrying, Preparing
<1>5. CeilingComparable'
  <2>1. CASE ceiling = NoCeiling
    BY <1>2, <2>1 DEF CeilingComparable, NoCeiling
  <2>2. CASE ceiling # NoCeiling
    <3>1. Comparable(ceiling, Scn, Cores, path)
      BY <2>2 DEF RowInv, CeilingFits
    <3> DEFINE own == CASE path = "loopback" -> {Scn.interface}
                        [] path = "gateway"  ->
                             CASE Scn.interface = "unix" -> {"uds-null", "tcp"}
                               [] Scn.interface = "shm"  -> {"shm-null", "tcp"}
                               [] Scn.interface = "udp"  -> {"udp"}
                               [] OTHER                  -> {"tcp"}
    <3>2. path \in {"loopback", "gateway"} => Probed(path, Scn.interface) = own
      BY DEF Probed
    <3>3. ceiling.transport \in own
      BY <3>1, <3>2 DEF Comparable
    <3> QED
      BY <1>2, <3>1, <3>3 DEF CeilingComparable, Comparable
  <2> QED
    BY <2>1, <2>2
<1>6. FullProtectionLabelled'
  <2> SUFFICES ASSUME Scn.protection = "full"
               PROVE  row'.label.base = "ktls" <=> row'.kernel
    BY <1>2 DEF FullProtectionLabelled
  <2>1. Deserializes(Scn) /\ IsList(Scn.streams)
    BY <1>1, <1>3, CurrentItem
  <2>2. CASE path = "loopback"
    <3>1. LoopbackTransport(Scn) # Absent /\ dut = LoopbackDut(LoopbackTransport(Scn))
      BY <1>1, <2>2 DEF RowInv, CarrierFits, Carrying
    <3>2. Provider = "none"
      BY <3>1 DEF Provider, LoopbackDut
    <3>3. Scn.kind = "none"
      BY <3>1 DEF LoopbackTransport
    <3>4. ProtocolLabel(Scn).base = "none"
      BY <3>3 DEF ProtocolLabel
    <3> QED
      BY <1>2, <2>2, <3>2, <3>4
  <2>3. CASE path \in {"gateway", "streams", "reload"}
    <3>1. /\ Plan1 # NoPlan /\ (path = "streams" <=> HasStreams(Scn))
          /\ dut.gateway /\ dut.rules = Rules
      BY <1>1, <2>3 DEF RowInv, CarrierFits, Carrying
    <3>2. Provider = BaseSpec.provider
      BY <2>1, <2>3, <3>1, RulesProvider DEF Provider
    <3>3. ProtocolLabel(Scn).base = "ktls" <=> Provider = "ktls"
      BY <2>1, <3>1, <3>2, LabelMatchesProvider DEF BaseSpec, Plan1
    <3>4. row'.label = EffectiveLabel(Scn, Plan1.security, fell_back)
      BY <1>2, <2>3
    <3>5. CASE fell_back
      <4>1. row'.label = [ProtocolLabel(Scn) EXCEPT !.base = IF @ = "ktls" THEN "tls" ELSE @]
        BY <1>1, <3>4, <3>5 DEF EffectiveLabel
      <4>2. "base" \in DOMAIN ProtocolLabel(Scn)
        BY DEF ProtocolLabel
      <4>3. row'.label.base # "ktls"
        BY <4>1, <4>2
      <4> QED
        BY <1>2, <3>5, <4>3
    <3>6. CASE ~fell_back
      BY <1>2, <3>3, <3>4, <3>6 DEF EffectiveLabel
    <3> QED
      BY <3>5, <3>6
  <2> QED
    BY <1>3, <2>2, <2>3
<1> QED
  BY <1>4, <1>5, <1>6

\* Every step keeps what the rows rest on.
LEMMA RowSteps ==
    ASSUME HostTypeOK, RowInv, CeilingComparable, FullProtectionLabelled, [Next]_vars
    PROVE  RowInv' /\ CeilingComparable' /\ FullProtectionLabelled'
<1>1. CASE \E fell_back \in BOOLEAN : Record(fell_back)
  BY <1>1, RowRecord
<1>2. CASE ~\E fell_back \in BOOLEAN : Record(fell_back)
  <2>1. row' = row
    BY <1>2 DEF Next, Progress, Disturbance, Launch, FinishSuite, PassOver, Dispatch,
         ProvisionTopology, Impair, InstallStep, BuildSpec, StartGateway, RunTraffic, Calibrate,
         Sweep, EndScenario, InstallRefused, StartFails, RunFails, RunEmpty, ProbeFails, Killed,
         Resume, OperatorCommand, Install, Goto, Leave, Enter, CalibrateWith, EngineError,
         driverVars, vars
  <2>2. CeilingComparable' /\ FullProtectionLabelled'
    BY <2>1 DEF CeilingComparable, FullProtectionLabelled, NoRow, NoCeiling
  <2>3. CASE UNCHANGED vars
    <3>1. pc \in Carrying => Carrying \cap Outside = {}
      BY DEF Carrying, Outside
    <3>2. UNCHANGED <<suite, todo, path, dut, ceilings, ceiling, pc>>
      BY <2>3 DEF vars, driverVars
    <3>3. UNCHANGED <<Scn, Cores, Plan1, CarrierKind, Rules>>
      BY <3>2, SameRules
    <3>4. RowInv'
      BY <3>2, <3>3 DEF RowInv, ValidItems, TodoItems, CarrierFits, CacheHonest, CeilingFits,
                        NoCeiling
    <3> QED
      BY <2>2, <3>4
  <2>4. CASE Next
    <3>1. RowInv'
      BY <1>2, <2>4, RowLaunch, RowDispatch, RowPrepare, RowStart, RowTraffic, RowTurns, RowCalibrate
         DEF Next, Progress, Disturbance
    <3> QED
      BY <2>2, <3>1
  <2> QED
    BY <2>3, <2>4
<1> QED
  BY <1>1, <1>2

\* Init begins with the suite and nothing else.
LEMMA RowInit == Init => RowInv /\ CeilingComparable /\ FullProtectionLabelled
<1> SUFFICES ASSUME Init PROVE RowInv /\ CeilingComparable /\ FullProtectionLabelled
  OBVIOUS
<1>1. PICK c \in Cases : suite = c.suite
  BY DEF Init
<1>2. IsList(suite.items) /\ \A item \in ToSet(suite.items) : IsList(item.scenario.streams)
  BY <1>1, CasesAssumption
<1>3. /\ todo = suite.items /\ pc = "idle" /\ path = "none" /\ ceilings = <<>>
      /\ ceiling = NoCeiling /\ row = NoRow
  BY DEF Init
<1>4. ValidItems
  BY <1>2, <1>3 DEF ValidItems
<1>5. TodoItems
  BY <1>2, <1>3 DEF TodoItems, IsList, Outside
<1>6. CarrierFits
  BY <1>3 DEF CarrierFits, Carrying, Preparing, Outside
<1>7. CacheHonest
  <2>1. DOMAIN <<>> = {}
    OBVIOUS
  <2> QED
    BY <1>3, <2>1 DEF CacheHonest
<1>8. CeilingFits
  BY <1>3 DEF CeilingFits
<1> QED
  BY <1>3, <1>4, <1>5, <1>6, <1>7, <1>8 DEF RowInv, CeilingComparable, FullProtectionLabelled

\* What the rows rest on holds throughout.
LEMMA RowAlways == Spec => [](RowInv /\ CeilingComparable /\ FullProtectionLabelled)
<1>1. HostInv => HostTypeOK
  BY DEF HostInv
<1>2. HostTypeOK /\ RowInv /\ CeilingComparable /\ FullProtectionLabelled /\ [Next]_vars =>
         (RowInv /\ CeilingComparable /\ FullProtectionLabelled)'
  BY RowSteps
<1> QED
  BY RowInit, HostAlways, <1>1, <1>2, PTL DEF Spec

\* A row's headroom compares like with like, whatever the cache holds from the other
\* scenarios of the suite and whichever probes failed.
THEOREM CeilingsCompare == Spec => []CeilingComparable
BY RowAlways, PTL

\* The label of a fully protected row says kernel TLS exactly when the kernel carried
\* it: through the plan, the spec, the rules of every driver and the fallback.
THEOREM LabelsAreTrue == Spec => []FullProtectionLabelled
BY RowAlways, PTL

-----------------------------------------------------------------------------
(***************************************************************************)
(* What ends a suite.                                                      *)
(***************************************************************************)
\* The connections and repetitions of an item are numbers.
ItemCounts ==
    \A item \in ToSet(suite.items) :
        item.scenario.connections \in Nat /\ item.scenario.runs \in Nat

\* What the way to the driver's place says of the scenario, as long as nothing was disturbed:
\* the carrier can play the mode of a scenario that has run, a scenario that has run has
\* used up the pipelines of its gateway, and a sweep over local pipelines is never recorded.
WayHere ==
    /\ pc \in Preparing => dut = NoDut
    /\ pc \in {"topology", "impair", "installing"} => path = "gateway"
    /\ pc \in {"calibrate", "sweep", "record"} => Supports(dut, EngineMode)
    /\ pc \in {"calibrate", "sweep"} => Scn.mode = "throughput"
    /\ pc \in {"calibrate", "sweep"} => opened = Params.connections * Params.runs
    /\ pc \in {"run", "calibrate", "sweep"} /\ path # "loopback" =>
          dut.pipelines = ProvisionedPipelines(Params.connections, Params.runs)
    /\ pc = "record" /\ path = "gateway" /\ dut.kind \in {"uds", "shm"} =>
          Scn.mode # "throughput" \/ ~Scn.sweep.given

AbortInv ==
    /\ ItemCounts /\ disturbances \in Nat
    /\ disturbances = 0 => WayHere
    /\ AbortsExplained

\* The three cases in which a scenario ends the suite.
Fatal ==
    \/ path = "loopback" /\ Scn.interface = "udp" /\ Scn.mode = "connrate"
    \/ /\ path = "gateway" /\ dut.kind \in {"uds", "shm"}
       /\ Scn.mode = "throughput" /\ Scn.sweep.given
    \/ path = "streams" /\ ~dut.gateway

\* What is derived from the item and the driver's choice stays with them.
LEMMA SameScenario ==
    ASSUME UNCHANGED <<todo, path, dut>>
    PROVE  /\ UNCHANGED <<Scn, Params, EngineMode, Fatal>>
           /\ Supports(dut, EngineMode)' = Supports(dut, EngineMode)
<1>1. Scn' = Scn
  BY DEF Scn
<1>2. Params' = Params /\ EngineMode' = EngineMode /\ Fatal' = Fatal
  BY <1>1 DEF Params, EngineMode, Fatal
<1> QED
  BY <1>1, <1>2 DEF Supports

\* A scenario that is left says why.
LEMMA LeftBecause ==
    ASSUME NEW how, Leave(how), how = "aborted" <=> Fatal
    PROVE  WayHere' /\ AbortsExplained'
<1>1. pc' = "leave" /\ outcome' = how /\ UNCHANGED <<todo, path, dut>>
  BY DEF Leave
<1>2. UNCHANGED <<Scn, Fatal>>
  BY <1>1, SameScenario
<1> QED
  BY <1>1, <1>2 DEF WayHere, AbortsExplained, Fatal, Preparing

\* The pipelines of a gateway are used up by the run itself.
LEMMA UsedUp ==
    ASSUME ItemCounts, todo \in Seq(ToSet(suite.items)), todo # <<>>
    PROVE  /\ Params.connections \in Nat \ {0}
           /\ Params.connections * Params.runs \in Nat
           /\ ProvisionedPipelines(Params.connections, Params.runs) =
                 Params.connections * Params.runs
<1>1. Head(todo) \in ToSet(suite.items)
  BY HeadTailProperties
<1>2. Scn.connections \in Nat /\ Scn.runs \in Nat
  BY <1>1 DEF ItemCounts, Scn
<1>3. Params.connections \in Nat \ {0} /\ Params.runs \in Nat \ {0}
  BY <1>2 DEF Params, RunParams, AtLeast
<1>4. Params.connections * Params.runs \in Nat
  BY <1>3
<1> QED
  BY <1>3, <1>4 DEF ProvisionedPipelines

\* Before the traffic only the security spec of a multi-stream scenario ends the suite.
LEMMA AbortPrepare ==
    ASSUME HostTypeOK, RowInv, WayHere,
           ProvisionTopology \/ Impair \/ InstallStep \/ BuildSpec
    PROVE  WayHere' /\ AbortsExplained'
<1>1. pc \in Preparing /\ UNCHANGED <<todo, path, dut>> /\ dut = NoDut
  BY DEF Preparing, ProvisionTopology, Impair, InstallStep, BuildSpec, Install,
         Goto, Leave, driverVars, WayHere
<1>2. ~dut.gateway /\ dut.kind = "none" /\ path \in {"gateway", "streams", "reload"}
  BY <1>1 DEF NoDut, RowInv, CarrierFits
<1>3. path = "streams" <=> Fatal
  BY <1>2 DEF Fatal
<1>4. \A where \in Preparing : (where \in {"topology", "impair", "installing"} => path = "gateway")
         /\ pc' = where => WayHere' /\ AbortsExplained'
  BY <1>1 DEF WayHere, AbortsExplained, Preparing
<1>5. CASE ProvisionTopology
  <2>1. path = "gateway"
    BY <1>5 DEF ProvisionTopology, WayHere
  <2>2. pc' \in {"impair", "installing"} \/ \E how \in SkipReasons : Leave(how)
    BY <1>5 DEF ProvisionTopology, Install, Goto, SkipReasons
  <2> QED
    BY <1>3, <1>4, <2>1, <2>2, LeftBecause DEF Preparing, SkipReasons
<1>6. CASE Impair
  <2>1. path = "gateway"
    BY <1>6 DEF Impair, WayHere
  <2>2. pc' \in {"spec", "installing"}
    BY <1>6 DEF Impair, Install, Goto
  <2> QED
    BY <1>4, <2>1, <2>2 DEF Preparing
<1>7. CASE InstallStep
  <2>1. path = "gateway"
    BY <1>7 DEF InstallStep, WayHere
  <2>2. \A what \in Installations : After(what) \in Preparing
    BY DEF After, Preparing, Installations
  <2>3. Installed => After(installing) \in Preparing
    BY <2>2 DEF Installed, HostTypeOK
  <2>4. pc' \in Preparing \/ Leave("setup-failed")
    BY <1>1, <1>7, <2>3 DEF InstallStep, Goto, driverVars
  <2> QED
    BY <1>3, <1>4, <2>1, <2>4, LeftBecause
<1>8. CASE BuildSpec
  <2>1. \/ pc' = "start" \/ (pc' = "installing" /\ path = "gateway")
        \/ Leave("no-capability") /\ path = "gateway"
        \/ Leave(IF path = "streams" THEN "aborted" ELSE "no-security-material")
    BY <1>8 DEF BuildSpec, Install, Goto
  <2> QED
    BY <1>3, <1>4, <2>1, LeftBecause DEF Preparing
<1> QED
  BY <1>5, <1>6, <1>7, <1>8

\* What the carrier cannot play.
LEMMA Unplayable ==
    ASSUME RowInv, WayHere, pc \in Carrying
    PROVE  /\ path = "loopback" /\ ~Supports(dut, EngineMode) =>
                 Scn.interface = "udp" /\ Scn.mode = "connrate"
           /\ path = "loopback" /\ Scn.interface = "udp" /\ Scn.mode = "connrate" =>
                 ~Supports(dut, EngineMode)
           /\ path = "streams" \/ Scn.mode = "throughput" => Supports(dut, EngineMode)
<1>1. todo # <<>> /\ pc \notin {"idle", "refused"}
  BY DEF RowInv, TodoItems, Carrying, Outside
<1>2. Scn.mode \in {"throughput", "pingpong", "connrate"}
  BY <1>1, CurrentItem DEF RowInv, TodoItems, Deserializes, Modes
<1>3. ASSUME path = "loopback"
      PROVE  /\ Scn.interface \in {"tcp", "udp"} /\ ~dut.gateway /\ dut.kind = Scn.interface
             /\ EngineMode = Scn.mode
  <2>1. dut = LoopbackDut(LoopbackTransport(Scn)) /\ LoopbackTransport(Scn) # Absent
    BY <1>3 DEF RowInv, CarrierFits
  <2>2. LoopbackTransport(Scn) = Scn.interface /\ Scn.interface \in {"tcp", "udp"}
    BY <2>1 DEF LoopbackTransport
  <2> QED
    BY <1>3, <2>1, <2>2 DEF LoopbackDut, EngineMode
<1>4. path = "loopback" => (Supports(dut, EngineMode) <=> ~(Scn.mode = "connrate" /\ Scn.interface = "udp"))
  BY <1>2, <1>3 DEF Supports
<1>5. path = "streams" \/ Scn.mode = "throughput" => EngineMode = "throughput"
  BY DEF EngineMode
<1>6. EngineMode = "throughput" => Supports(dut, EngineMode)
  BY DEF Supports
<1> QED
  BY <1>4, <1>5, <1>6

\* The start of the gateway and the traffic: what the loopback cannot play ends the suite.
LEMMA AbortTraffic ==
    ASSUME RowInv, WayHere, StartGateway \/ RunTraffic
    PROVE  WayHere' /\ AbortsExplained'
<1>1. CASE StartGateway
  <2>1. pc = "start" /\ dut = NoDut
    BY <1>1 DEF StartGateway, WayHere, Preparing
  <2>2. CASE path = "reload" /\ Leave("gateway-failed-to-start")
    BY <2>2, LeftBecause DEF Fatal
  <2>3. CASE /\ dut' = [ kind |-> CarrierKind, gateway |-> TRUE, rules |-> Rules,
                         pipelines |-> ProvisionedPipelines(Params.connections, Params.runs) ]
             /\ pc' = "run" /\ UNCHANGED todo
    <3>1. Params' = Params
      BY <2>3 DEF Params, Scn
    <3>2. dut'.pipelines = ProvisionedPipelines(Params.connections, Params.runs)
      BY <2>3
    <3> QED
      BY <2>3, <3>1, <3>2 DEF WayHere, AbortsExplained, Preparing
  <2> QED
    BY <1>1, <2>2, <2>3 DEF StartGateway
<1>2. CASE RunTraffic
  <2>1. pc = "run" /\ path \in {"loopback", "gateway", "streams", "reload"}
    BY <1>2 DEF RunTraffic, RowInv, CarrierFits, Carrying
  <2>2. path # "loopback" => dut.gateway
    BY <2>1 DEF RowInv, CarrierFits, Carrying
  <2>3. CASE Supports(dut, EngineMode)
    <3>1. /\ opened' = Params.connections * Params.runs
          /\ pc' = IF path \in {"loopback", "gateway"} /\ Scn.mode = "throughput"
                   THEN "calibrate" ELSE "record"
          /\ UNCHANGED <<todo, path, dut>>
      BY <1>2, <2>3 DEF RunTraffic
    <3>2. UNCHANGED <<Scn, Params, EngineMode>> /\ Supports(dut, EngineMode)'
      BY <2>3, <3>1, SameScenario
    <3> QED
      BY <2>1, <3>1, <3>2 DEF WayHere, AbortsExplained, Preparing
  <2>4. CASE ~Supports(dut, EngineMode)
    <3>1. Leave(IF path \in {"loopback", "streams"} THEN "aborted" ELSE "run-failed")
      BY <1>2, <2>4 DEF RunTraffic, EngineError
    <3>2. path # "streams" /\ Scn.mode # "throughput"
      BY <2>1, <2>4, Unplayable DEF Carrying
    <3>3. path = "loopback" <=> Fatal
      BY <2>1, <2>2, <2>4, <3>2, Unplayable DEF Carrying, Fatal
    <3> QED
      BY <3>1, <3>2, <3>3, LeftBecause
  <2> QED
    BY <2>3, <2>4
<1> QED
  BY <1>1, <1>2

\* The sweep: over local pipelines its first point already has none left.
LEMMA AbortSweep ==
    ASSUME RowInv, ItemCounts, WayHere, Calibrate \/ Sweep
    PROVE  WayHere' /\ AbortsExplained'
<1>1. pc \in {"calibrate", "sweep"} /\ todo # <<>> /\ path \in {"loopback", "gateway"}
  BY DEF Calibrate, Sweep, RowInv, TodoItems, CarrierFits, Outside
<1>2. /\ Supports(dut, EngineMode) /\ Scn.mode = "throughput"
      /\ opened = Params.connections * Params.runs
      /\ path # "loopback" => dut.pipelines = ProvisionedPipelines(Params.connections, Params.runs)
  BY <1>1 DEF WayHere
<1>3. CASE Calibrate
  <2>1. pc' = "sweep" /\ UNCHANGED <<todo, path, dut, opened>>
    BY <1>3 DEF Calibrate, CalibrateWith
  <2>2. UNCHANGED <<Scn, Params, EngineMode>> /\ Supports(dut, EngineMode)'
    BY <1>2, <2>1, SameScenario
  <2> QED
    BY <1>2, <2>1, <2>2 DEF WayHere, AbortsExplained, Preparing
<1>4. CASE Sweep
  <2>1. path = "loopback" => dut.kind \notin {"uds", "shm"}
    <3>1. path = "loopback" => /\ dut = LoopbackDut(LoopbackTransport(Scn))
                               /\ LoopbackTransport(Scn) # Absent
      BY <1>1 DEF RowInv, CarrierFits, Carrying
    <3>2. LoopbackTransport(Scn) # Absent => LoopbackTransport(Scn) \in {"tcp", "udp"}
      BY DEF LoopbackTransport
    <3> QED
      BY <3>1, <3>2 DEF LoopbackDut
  <2>2. Exhausted(Params.connections) <=> dut.kind \in {"uds", "shm"}
    <3> DEFINE used == Params.connections * Params.runs
    <3>1. /\ Params.connections \in Nat \ {0} /\ used \in Nat
          /\ ProvisionedPipelines(Params.connections, Params.runs) = used
      BY <1>1, UsedUp DEF RowInv, TodoItems
    <3>2. path # "loopback" => dut.pipelines = used /\ opened = used
      BY <1>2, <3>1
    <3> HIDE DEF used
    <3>3. path # "loopback" => opened + Params.connections > dut.pipelines
      BY <3>1, <3>2
    <3> QED
      BY <2>1, <3>3 DEF Exhausted
  <2>3. CASE Scn.sweep.given /\ Exhausted(Params.connections)
    <3>1. Leave("aborted")
      BY <1>4, <2>3 DEF Sweep
    <3>2. Fatal
      BY <1>1, <1>2, <2>1, <2>2, <2>3 DEF Fatal
    <3> QED
      BY <3>1, <3>2, LeftBecause
  <2>4. CASE ~(Scn.sweep.given /\ Exhausted(Params.connections))
    <3>1. pc' = "record" /\ UNCHANGED <<todo, path, dut>>
      BY <1>4, <2>4 DEF Sweep, Goto
    <3>2. UNCHANGED <<Scn, EngineMode>> /\ Supports(dut, EngineMode)'
      BY <1>2, <3>1, SameScenario
    <3>3. dut.kind \in {"uds", "shm"} => ~Scn.sweep.given
      BY <2>2, <2>4
    <3> QED
      BY <3>1, <3>2, <3>3 DEF WayHere, AbortsExplained, Preparing
  <2> QED
    BY <2>3, <2>4
<1> QED
  BY <1>3, <1>4

\* The steps that leave the scenario recorded, or are outside one.
LEMMA AbortRest ==
    ASSUME RowInv, WayHere,
           \/ Launch \/ FinishSuite \/ PassOver \/ Dispatch \/ EndScenario
           \/ \E fell_back \in BOOLEAN : Record(fell_back)
    PROVE  WayHere' /\ AbortsExplained'
<1>1. CASE Launch \/ FinishSuite \/ PassOver \/ EndScenario
  <2>1. pc' \in Outside
    BY <1>1 DEF Launch, FinishSuite, PassOver, EndScenario, Goto, Outside
  <2> QED
    BY <2>1 DEF Outside, WayHere, AbortsExplained, Preparing
<1>2. CASE Dispatch
  <2>1. path = "none"
    BY <1>2 DEF Dispatch, RowInv, CarrierFits, Outside
  <2>2. CASE \E how \in SkipReasons : Leave(how)
    BY <2>1, <2>2, LeftBecause DEF Fatal, SkipReasons
  <2>3. CASE \E driver, carrier, next : Entering(driver, carrier, next)
    <3>1. PICK driver, carrier, next : Entering(driver, carrier, next)
      BY <2>3
    <3>2. path' = driver /\ dut' = carrier /\ pc' = next
      BY <3>1 DEF Entering, Enter
    <3> QED
      BY <3>1, <3>2 DEF Entering, WayHere, AbortsExplained, Preparing
  <2>4. ASSUME ~\E how \in SkipReasons : Leave(how)
        PROVE  \E driver, carrier, next : Entering(driver, carrier, next)
    BY <1>2, <2>4 DEF Entering, Dispatch, SkipReasons
  <2> QED
    BY <2>2, <2>3, <2>4
<1>3. CASE \E fell_back \in BOOLEAN : Record(fell_back)
  <2>1. /\ pc = "record" /\ pc' = "leave" /\ outcome' = "recorded"
        /\ UNCHANGED <<todo, path, dut>>
    BY <1>3 DEF Record
  <2>2. ~(path = "loopback" /\ Scn.interface = "udp" /\ Scn.mode = "connrate")
    BY <2>1, Unplayable DEF Carrying, WayHere
  <2>3. path = "streams" => dut.gateway
    BY <2>1 DEF RowInv, CarrierFits, Carrying
  <2>4. ~Fatal
    BY <2>1, <2>2, <2>3 DEF WayHere, Fatal
  <2>5. UNCHANGED <<Scn, Fatal>>
    BY <2>1, SameScenario
  <2> QED
    BY <2>1, <2>4, <2>5 DEF WayHere, AbortsExplained, Fatal, Preparing
<1> QED
  BY <1>1, <1>2, <1>3

\* Every step keeps it; after a disturbance there is nothing left to keep.
LEMMA AbortSteps ==
    ASSUME HostTypeOK, RowInv, AbortInv, [Next]_vars
    PROVE  AbortInv'
<1>1. suite' = suite
  BY DEF Next, Progress, Disturbance, Launch, FinishSuite, PassOver, Dispatch,
         ProvisionTopology, Impair, InstallStep, BuildSpec, StartGateway, RunTraffic, Calibrate,
         Sweep, EndScenario, Record, InstallRefused, StartFails, RunFails, RunEmpty, ProbeFails,
         Killed, Resume, OperatorCommand, Install, Goto, Leave, Enter, CalibrateWith, EngineError,
         driverVars, vars
<1>2. ItemCounts'
  BY <1>1 DEF AbortInv, ItemCounts
<1>3. CASE Disturbance
  <2>1. disturbances' = disturbances + 1
    BY <1>3 DEF Disturbance, InstallRefused, StartFails, RunFails, RunEmpty, ProbeFails, Killed,
                Resume, OperatorCommand, Disturb
  <2>2. disturbances' \in Nat /\ disturbances' # 0
    BY <2>1 DEF AbortInv
  <2> QED
    BY <1>2, <2>2 DEF AbortInv, AbortsExplained
<1>4. CASE Progress
  <2>1. disturbances' = disturbances
    BY <1>4 DEF Progress, Launch, FinishSuite, PassOver, Dispatch, ProvisionTopology, Impair,
                InstallStep, BuildSpec, StartGateway, RunTraffic, Calibrate, Sweep, EndScenario,
                Record, Install, Calm, driverVars
  <2>2. disturbances = 0 => WayHere' /\ AbortsExplained'
    BY <1>4, AbortPrepare, AbortTraffic, AbortSweep, AbortRest DEF AbortInv, Progress
  <2> QED
    BY <1>2, <2>1, <2>2 DEF AbortInv, AbortsExplained
<1>5. CASE UNCHANGED vars
  <2>1. UNCHANGED <<todo, path, dut, pc, opened, outcome, disturbances>>
    BY <1>5 DEF vars, driverVars
  <2>2. /\ UNCHANGED <<Scn, Params, EngineMode, Fatal>>
        /\ Supports(dut, EngineMode)' = Supports(dut, EngineMode)
    BY <2>1, SameScenario
  <2>3. WayHere' = WayHere
    BY <2>1, <2>2 DEF WayHere
  <2>4. AbortsExplained' = AbortsExplained
    BY <2>1, <2>2 DEF AbortsExplained
  <2> QED
    BY <1>2, <2>1, <2>3, <2>4 DEF AbortInv
<1> QED
  BY <1>3, <1>4, <1>5 DEF Next

\* It holds throughout.
LEMMA AbortAlways == Spec => []AbortInv
<1>1. Init => AbortInv
  <2> SUFFICES ASSUME Init PROVE AbortInv
    OBVIOUS
  <2>1. PICK c \in Cases : suite = c.suite
    BY DEF Init
  <2>2. ItemCounts
    BY <2>1, CasesAssumption DEF ItemCounts
  <2>3. pc = "idle" /\ disturbances = 0
    BY DEF Init
  <2> QED
    BY <2>2, <2>3 DEF AbortInv, WayHere, AbortsExplained, Preparing
<1>2. HostTypeOK /\ RowInv /\ AbortInv /\ [Next]_vars => AbortInv'
  BY AbortSteps
<1>3. HostInv => HostTypeOK
  BY DEF HostInv
<1> QED
  BY <1>1, <1>2, <1>3, HostAlways, RowAlways, PTL DEF Spec

\* Without a disturbance a scenario ends the suite in the three named cases and in no
\* other: connection churn over loopback UDP, a sweep over local pipelines, and
\* multi-stream without certificates.
THEOREM AbortsAreExplained == Spec => []AbortsExplained
<1>1. AbortInv => AbortsExplained
  BY DEF AbortInv
<1> QED
  BY <1>1, AbortAlways, PTL

-----------------------------------------------------------------------------
(***************************************************************************)
(* The rules and the sockets.                                              *)
(***************************************************************************)
\* What validation says of the framing and of the streams.
LEMMA Validated ==
    ASSUME NEW s, s.enabled, ScenarioErrors(s) = {}
    PROVE  /\ HasSender(s) /\ s.app # "none" => s.interface = "udp" /\ s.kind = "tls"
           /\ HasStreams(s) => s.kind \notin {"dtls", "wireguard", "ipsec"}
<1>1. \A failed, e : Error(failed, e) = {} => ~failed
  BY DEF Error
<1>2. SenderErrors(s) = {} /\ StreamsErrors(s) = {}
  BY DEF ScenarioErrors
<1>3. ASSUME HasSender(s) PROVE s.app # "none" => s.interface = "udp" /\ s.kind = "tls"
  <2>1. ProtocolTransportErrors(s) = {}
    BY <1>2, <1>3 DEF SenderErrors
  <2>2. /\ Error(s.app # "none" /\ s.interface # "udp", "framing-needs-udp") = {}
        /\ Error(s.app # "none" /\ s.kind # "tls", "framing-needs-tls") = {}
    BY <2>1 DEF ProtocolTransportErrors
  <2>3. /\ ~(s.app # "none" /\ s.interface # "udp")
        /\ ~(s.app # "none" /\ s.kind # "tls")
    BY <2>2 DEF Error
  <2> QED
    BY <2>3
<1>4. ASSUME HasStreams(s) PROVE s.kind \notin {"dtls", "wireguard", "ipsec"}
  <2> DEFINE each == UNION {StreamErrors(s, t) : t \in ToSet(s.streams)}
             last == Error(s.kind \in {"dtls", "wireguard", "ipsec"}, "streams-need-tcp")
  <2>0. StreamsErrors(s) = each \cup Error(~s.gateway, "streams-need-the-gateway") \cup last
    BY <1>4 DEF StreamsErrors
  <2> HIDE DEF each
  <2>1. last = {}
    BY <1>2, <2>0
  <2> QED
    BY <2>1 DEF Error
<1> QED
  BY <1>3, <1>4

\* The protocol a security decision gives its rules, all four sides alike.
DecidedProto(s, sec) ==
    IF sec.mode \in {"routing-udp", "dtls"} \/ (sec.mode = "custom" /\ s.interface = "udp")
    THEN "udp" ELSE "tcp"

SecurityModes == {"routing", "routing-udp", "custom", "integrity", "tls", "dtls"}

\* No side of an unframed spec is set apart.
OneProto(spec, proto) ==
    /\ spec.proto = proto
    /\ spec.encrypt_listen = Absent /\ spec.encrypt_upstream = Absent
    /\ spec.decrypt_listen = Absent /\ spec.decrypt_upstream = Absent

\* A specification starts with one protocol for all four sides of its rule pair.
LEMMA DecidedSides ==
    ASSUME NEW s, NEW sec, sec.mode \in SecurityModes
    PROVE  OneProto(SecuritySpec(s, sec), DecidedProto(s, sec))
<1>1. \A spec, proto : OneProto(spec, proto) => OneProto(Overridden(s, spec), proto)
  BY DEF OneProto, Overridden
<1>2. OneProto(Spec0, "tcp") /\ "proto" \in DOMAIN Spec0
  BY DEF OneProto, Spec0
<1>3. OneProto(RoutingUdpSpec, "udp")
  BY <1>2 DEF OneProto, RoutingUdpSpec
<1>4. \A p, proto : OneProto(CustomSpec(p, proto), proto)
  BY <1>2 DEF OneProto, CustomSpec
<1>5. \A p, proto, v : OneProto(ServerSpec(p, proto, v), proto)
  BY <1>2 DEF OneProto, ServerSpec
<1>6. \A p, proto, v : OneProto(MutualSpec(p, proto, v), proto)
  BY <1>2 DEF OneProto, MutualSpec
<1>7. \A spec, proto, q : OneProto(spec, proto) => OneProto([spec EXCEPT !.profile = q], proto)
  BY DEF OneProto
<1>8. OneProto(DecidedSpec(s, sec), DecidedProto(s, sec))
  <2>1. CASE sec.mode = "routing"
    BY <2>1, <1>2 DEF DecidedSpec, DecidedProto
  <2>2. CASE sec.mode = "routing-udp"
    BY <2>2, <1>3 DEF DecidedSpec, DecidedProto
  <2>3. CASE sec.mode = "custom"
    BY <2>3, <1>4 DEF DecidedSpec, DecidedProto
  <2>4. CASE sec.mode = "integrity"
    <3>1. DecidedSpec(s, sec) = [ServerSpec("tls", "tcp", sec.version) EXCEPT !.profile = "integrity-only"]
      BY <2>4 DEF DecidedSpec
    <3> QED
      BY <2>4, <3>1, <1>5, <1>7 DEF DecidedProto
  <2>5. CASE sec.mode = "tls"
    <3>1. \E p : DecidedSpec(s, sec) \in {MutualSpec(p, "tcp", sec.version), ServerSpec(p, "tcp", sec.version)}
      BY <2>5 DEF DecidedSpec
    <3> QED
      BY <2>5, <3>1, <1>5, <1>6 DEF DecidedProto
  <2>6. CASE sec.mode = "dtls"
    BY <2>6, <1>5, <1>6 DEF DecidedSpec, DecidedProto
  <2> QED
    BY <2>1, <2>2, <2>3, <2>4, <2>5, <2>6 DEF SecurityModes
<1> QED
  BY <1>1, <1>8 DEF SecuritySpec

\* resolve_security gives datagrams to DTLS and to the custom providers only.
LEMMA ResolvedMode ==
    ASSUME NEW s, Deserializes(s)
    PROVE  /\ ResolveSecurity(s).mode \in {"routing", "integrity", "tls", "dtls", "custom"}
           /\ ResolveSecurity(s).mode = "dtls" => s.kind = "dtls"
           /\ ResolveSecurity(s).mode = "custom" <=> s.kind = "custom" /\ ~PlainRouting(s)
<1>0. s.kind \in ProtocolTypes /\ s.protection \in ProtectionModes
  BY DEF Deserializes
<1>1. CASE PlainRouting(s)
  <2>1. ResolveSecurity(s) = Routing
    BY <1>1 DEF ResolveSecurity, PlainRouting
  <2> QED
    BY <1>1, <2>1 DEF Routing, Security
<1>2. CASE ~PlainRouting(s) /\ s.kind = "tls"
  <2>1. ResolveSecurity(s) \in {IntegrityOnly(s), TlsSecurity(s)}
    BY <1>0, <1>2 DEF ResolveSecurity, PlainRouting, ProtectionModes
  <2> QED
    BY <1>2, <2>1 DEF IntegrityOnly, TlsSecurity, Security
<1>3. CASE ~PlainRouting(s) /\ s.kind = "dtls"
  <2>1. ResolveSecurity(s) = DtlsSecurity(s)
    BY <1>3 DEF ResolveSecurity, PlainRouting
  <2> QED
    BY <1>3, <2>1 DEF DtlsSecurity, Security
<1>4. CASE ~PlainRouting(s) /\ s.kind = "custom"
  <2>1. ResolveSecurity(s) = CustomSecurity
    BY <1>4 DEF ResolveSecurity, PlainRouting
  <2> QED
    BY <1>4, <2>1 DEF CustomSecurity, Security
<1>5. CASE ~PlainRouting(s) /\ s.kind \in {"wireguard", "ipsec"}
  <2>1. ResolveSecurity(s) = Routing
    BY <1>5 DEF ResolveSecurity, PlainRouting
  <2> QED
    BY <1>5, <2>1 DEF Routing, Security
<1> QED
  BY <1>0, <1>1, <1>2, <1>3, <1>4, <1>5 DEF ProtocolTypes, PlainRouting

\* The plan of a validated scenario and the protocol of its rules: datagrams where the
\* sender sends them unframed; among streams only for a custom provider.
Datagrams(s) ==
    /\ s.interface = "udp" /\ s.app = "none"
    /\ HasStreams(s) => s.kind = "custom" /\ ~PlainRouting(s)

\* A validated scenario is planned with the protocol its sender speaks.
LEMMA PlanProto ==
    ASSUME NEW s, Deserializes(s), s.enabled, ScenarioErrors(s) = {}, PlanFor(s) # NoPlan
    PROVE  /\ PlanFor(s).security.mode \in SecurityModes
           /\ DecidedProto(s, PlanFor(s).security) = IF Datagrams(s) THEN "udp" ELSE "tcp"
           /\ ~HasStreams(s) => HasSender(s)
<1> DEFINE P == PlanFor(s)
<1>0. /\ HasSender(s) /\ s.app # "none" => s.interface = "udp" /\ s.kind = "tls"
      /\ HasStreams(s) => s.kind \notin {"dtls", "wireguard", "ipsec"}
      /\ HasSender(s) <=> s.interface # Absent
  BY Validated DEF HasSender
<1>1. CASE HasStreams(s) /\ P = Plan(ResolveSecurity(s), "scg-multistream")
  <2>1. P.security = ResolveSecurity(s)
    BY <1>1 DEF Plan
  <2> HIDE DEF P
  <2>2. s.interface = "udp" /\ s.kind = "custom" => s.app = "none"
    BY <1>0 DEF Absent
  <2> QED
    BY <1>0, <1>1, <2>1, <2>2, ResolvedMode DEF SecurityModes, DecidedProto, Datagrams, P
<1>2. CASE ~HasStreams(s) /\ s.kind = "dtls" /\ s.interface = "udp" /\ \E t : P = Plan(DtlsSecurity(s), t)
  <2>1. P.security.mode = "dtls"
    BY <1>2 DEF Plan, DtlsSecurity, Security
  <2> HIDE DEF P
  <2> QED
    BY <1>0, <1>2, <2>1 DEF SecurityModes, DecidedProto, Datagrams, P, Absent
<1>3. CASE /\ ~HasStreams(s) /\ s.kind # "dtls" /\ s.interface \in {"unix", "shm", "tproxy"}
           /\ \E t : P = Plan(ResolveSecurity(s), t)
  <2>1. P.security = ResolveSecurity(s)
    BY <1>3 DEF Plan
  <2> HIDE DEF P
  <2> QED
    BY <1>0, <1>3, <2>1, ResolvedMode DEF SecurityModes, DecidedProto, Datagrams, P, Absent
<1>4. CASE ~HasStreams(s) /\ s.kind # "dtls" /\ s.interface = "udp" /\ P = UdpPlan(s)
  <2>1. s.kind = "tls" /\ s.app = "none" => UdpPlan(s) = NoPlan
    BY DEF UdpPlan
  <2>2. \/ s.kind = "tls" /\ P.security.mode = "tls"
        \/ s.kind # "tls" /\ P.security.mode = "routing-udp"
        \/ s.kind = "custom" /\ P.security.mode = "custom"
    BY <1>4, UdpPlans DEF Plan, TlsSecurity, RoutingUdp, CustomSecurity, Security
  <2>3. P # NoPlan
    OBVIOUS
  <2> HIDE DEF P
  <2> QED
    BY <1>0, <1>4, <2>1, <2>2, <2>3 DEF SecurityModes, DecidedProto, Datagrams, P, Absent
<1>5. CASE ~HasStreams(s) /\ s.kind # "dtls" /\ s.interface = "tcp" /\ P = TcpPlan(s)
  <2>1. P.security.mode \in {"routing", "integrity", "tls", "custom"}
    BY <1>5, TcpPlans DEF Plan, Routing, IntegrityOnly, TlsSecurity, CustomSecurity, Security
  <2> HIDE DEF P
  <2> QED
    BY <1>0, <1>5, <2>1 DEF SecurityModes, DecidedProto, Datagrams, P, Absent
<1> QED
  BY <1>1, <1>2, <1>3, <1>4, <1>5, PlanCases

\* A pair of rules by the protocols of its four sides.
Sides(pair, a, b, c, d) ==
    /\ pair[1].direction = "encrypt" /\ pair[1].listen = a /\ pair[1].upstream = b
    /\ pair[2].direction = "decrypt" /\ pair[2].listen = c /\ pair[2].upstream = d

AllSides(pairs, n, a, b, c, d) ==
    DOMAIN pairs = 1..n /\ \A i \in 1..n : Sides(pairs[i], a, b, c, d)

\* The rule pair of an unframed specification speaks one protocol.
LEMMA SpecSides ==
    ASSUME NEW spec, NEW proto, OneProto(spec, proto)
    PROVE  Sides(RulePair(spec), proto, proto, proto, proto)
BY DEF OneProto, Sides, RulePair, EncryptRule, DecryptRule, Rule, Given

\* The framing sets the sides apart: datagrams outside, a stream between the rules.
LEMMA FramedSides ==
    ASSUME NEW spec, NEW app, app # "none", "encrypt_listen" \in DOMAIN spec,
           "encrypt_upstream" \in DOMAIN spec, "decrypt_listen" \in DOMAIN spec,
           "decrypt_upstream" \in DOMAIN spec
    PROVE  LET framed == WithFraming(spec, app) IN
           /\ framed.encrypt_listen = "udp" /\ framed.encrypt_upstream = "tcp"
           /\ framed.decrypt_listen = "tcp" /\ framed.decrypt_upstream = "udp"
BY DEF WithFraming

\* The rules of the processes together are the rules of the pairs.
LEMMA SplitEnds ==
    ASSUME NEW s, NEW pairs, NEW n \in Nat \ {0}, NEW a, NEW b, NEW c, NEW d,
           AllSides(pairs, n, a, b, c, d)
    PROVE  /\ Ends2(SplitRules(s, pairs)).encrypt = {pairs[i][1] : i \in 1..n}
           /\ Ends2(SplitRules(s, pairs)).decrypt = {pairs[i][2] : i \in 1..n}
<1> DEFINE encrypts == [i \in 1..n |-> pairs[i][1]]
           decrypts == [i \in 1..n |-> pairs[i][2]]
           E == {pairs[i][1] : i \in 1..n}
           D == {pairs[i][2] : i \in 1..n}
           rules == SplitRules(s, pairs)
           all == UNION {ToSet(rules[i]) : i \in DOMAIN rules}
<1>1. rules = IF s.chain = "scg-scg" THEN <<encrypts, decrypts>> ELSE <<encrypts \o decrypts>>
  BY DEF SplitRules, AllSides
<1>2. /\ encrypts \in Seq(E \cup D) /\ decrypts \in Seq(E \cup D)
      /\ ToSet(encrypts) = E /\ ToSet(decrypts) = D /\ Len(encrypts) = n /\ Len(decrypts) = n
  BY DEF ToSet
<1>3. \A r \in E : r.direction = "encrypt"
  BY DEF AllSides, Sides
<1>4. \A r \in D : r.direction = "decrypt"
  BY DEF AllSides, Sides
<1> HIDE DEF encrypts, decrypts, E, D, rules
<1>5. all = E \cup D
  <2>1. CASE s.chain = "scg-scg"
    <3>1. rules = <<encrypts, decrypts>>
      BY <1>1, <2>1
    <3>2. DOMAIN rules = {1, 2} /\ rules[1] = encrypts /\ rules[2] = decrypts
      BY <3>1
    <3> QED
      BY <1>2, <3>2
  <2>2. CASE s.chain # "scg-scg"
    <3>1. rules = <<encrypts \o decrypts>>
      BY <1>1, <2>2
    <3>2. DOMAIN rules = {1} /\ rules[1] = encrypts \o decrypts
      BY <3>1
    <3>3. ToSet(encrypts \o decrypts) = ToSet(encrypts) \cup ToSet(decrypts)
      <4>1. /\ Len(encrypts \o decrypts) = n + n
            /\ encrypts \o decrypts \in Seq(E \cup D)
            /\ \A i \in 1..n + n : (encrypts \o decrypts)[i] =
                  IF i <= n THEN encrypts[i] ELSE decrypts[i - n]
        <5>1. encrypts \in Seq(E \cup D) /\ decrypts \in Seq(E \cup D)
          BY <1>2
        <5>2. /\ encrypts \o decrypts \in Seq(E \cup D)
              /\ Len(encrypts \o decrypts) = Len(encrypts) + Len(decrypts)
              /\ \A i \in 1..Len(encrypts) + Len(decrypts) : (encrypts \o decrypts)[i] =
                    IF i <= Len(encrypts) THEN encrypts[i] ELSE decrypts[i - Len(encrypts)]
          BY <5>1, ConcatProperties
        <5>3. Len(encrypts) = n /\ Len(decrypts) = n
          BY <1>2
        <5> QED
          BY <5>2, <5>3, Zenon
      <4>2. DOMAIN encrypts = 1..n /\ DOMAIN decrypts = 1..n /\ DOMAIN (encrypts \o decrypts) = 1..n + n
        BY <1>2, <4>1
      <4>3. ASSUME NEW x \in ToSet(encrypts \o decrypts) PROVE x \in ToSet(encrypts) \cup ToSet(decrypts)
        <5>1. PICK i \in 1..n + n : x = (encrypts \o decrypts)[i]
          BY <4>2 DEF ToSet
        <5>2. CASE i <= n
          BY <4>1, <4>2, <5>1, <5>2 DEF ToSet
        <5>3. CASE i > n
          <6>1. i - n \in 1..n /\ x = decrypts[i - n]
            BY <4>1, <5>1, <5>3
          <6> QED
            BY <4>2, <6>1 DEF ToSet
        <5> QED
          BY <5>2, <5>3
      <4>4. ASSUME NEW x \in ToSet(encrypts) PROVE x \in ToSet(encrypts \o decrypts)
        <5>1. PICK i \in 1..n : x = encrypts[i]
          BY <4>2 DEF ToSet
        <5>2. i \in 1..n + n /\ (encrypts \o decrypts)[i] = x
          BY <4>1, <5>1
        <5> QED
          BY <4>2, <5>2 DEF ToSet
      <4>5. ASSUME NEW x \in ToSet(decrypts) PROVE x \in ToSet(encrypts \o decrypts)
        <5>1. PICK i \in 1..n : x = decrypts[i]
          BY <4>2 DEF ToSet
        <5>2. i + n \in 1..n + n /\ (encrypts \o decrypts)[i + n] = x
          BY <4>1, <5>1
        <5> QED
          BY <4>2, <5>2 DEF ToSet
      <4> QED
        BY <4>3, <4>4, <4>5
    <3> QED
      BY <1>2, <3>2, <3>3
  <2> QED
    BY <2>1, <2>2
<1>6. /\ Ends2(rules).encrypt = {r \in all : r.direction = "encrypt"}
      /\ Ends2(rules).decrypt = {r \in all : r.direction = "decrypt"}
  BY DEF Ends2
<1> HIDE DEF all
<1>7. Ends2(rules).encrypt = E /\ Ends2(rules).decrypt = D
  BY <1>3, <1>4, <1>5, <1>6
<1> QED
  BY <1>7 DEF rules, E, D

\* Where every pair has the same sides, whether the rules fit is a question of those.
LEMMA PairsFit ==
    ASSUME NEW s, NEW pairs, NEW n \in Nat \ {0}, NEW a, NEW b, NEW c, NEW d,
           AllSides(pairs, n, a, b, c, d),
           dut.rules = SplitRules(s, pairs)
    PROVE  Fits <=> a = Sockets(dut.kind) /\ d = Sockets(dut.kind) /\ b = c
<1> DEFINE E == {pairs[i][1] : i \in 1..n}
           D == {pairs[i][2] : i \in 1..n}
           e == Ends2(dut.rules)
<1>1. e.encrypt = E /\ e.decrypt = D
  <2>1. /\ Ends2(SplitRules(s, pairs)).encrypt = E
        /\ Ends2(SplitRules(s, pairs)).decrypt = D
    BY SplitEnds
  <2> QED
    BY <2>1
<1>2. /\ pairs[1][1] \in E /\ pairs[1][2] \in D
      /\ \A r \in E : r.listen = a /\ r.upstream = b
      /\ \A r \in D : r.listen = c /\ r.upstream = d
  BY DEF AllSides, Sides
<1>3. Fits <=> /\ \A r \in e.encrypt : r.listen = Sockets(dut.kind)
               /\ \A r \in e.decrypt : r.upstream = Sockets(dut.kind)
               /\ \A r \in e.encrypt, q \in e.decrypt : r.upstream = q.listen
               /\ e.decrypt = {} => \A r \in e.encrypt : r.upstream = Sockets(dut.kind)
  BY DEF Fits
<1> HIDE DEF E, D, e
<1> QED
  BY <1>1, <1>2, <1>3

\* A single encrypting rule fits when both its sides do.
LEMMA HopFits ==
    ASSUME NEW rule, rule.direction = "encrypt", dut.rules = <<<<rule>>>>
    PROVE  Fits <=> rule.listen = Sockets(dut.kind) /\ rule.upstream = Sockets(dut.kind)
<1> DEFINE rules == <<<<rule>>>>
           all == UNION {ToSet(rules[i]) : i \in DOMAIN rules}
<1>1. DOMAIN rules = {1} /\ rules[1] = <<rule>> /\ ToSet(<<rule>>) = {rule}
  BY DEF ToSet
<1> HIDE DEF rules
<1>2. all = {rule}
  BY <1>1
<1>3. Ends2(rules).encrypt = {rule} /\ Ends2(rules).decrypt = {}
  BY <1>2 DEF Ends2
<1>4. dut.rules = rules
  BY DEF rules
<1> QED
  BY <1>3, <1>4 DEF Fits

\* The scenario at hand, validated, on its way through a gateway.
Planned ==
    /\ Deserializes(Scn) /\ IsList(Scn.streams) /\ Scn.enabled /\ ScenarioErrors(Scn) = {}
    /\ Plan1 # NoPlan /\ path \in {"gateway", "streams", "reload"}
    /\ path = "streams" <=> HasStreams(Scn)

Proto == IF Datagrams(Scn) THEN "udp" ELSE "tcp"

\* The same for the scenario in progress.
LEMMA PlannedProto ==
    ASSUME Planned
    PROVE  OneProto(BaseSpec, Proto)
<1>1. /\ Plan1.security.mode \in SecurityModes
      /\ DecidedProto(Scn, Plan1.security) = Proto
  BY PlanProto DEF Planned, Plan1, Proto
<1> QED
  BY <1>1, DecidedSides DEF BaseSpec

\* Multi-stream and hot-reload drive TCP sockets.
LEMMA TcpDriversFit ==
    ASSUME Planned, path \in {"streams", "reload"}, dut.kind = CarrierKind, dut.rules = Rules
    PROVE  Fits <=> ~Misfit
<1>1. OneProto(BaseSpec, Proto)
  BY PlannedProto
<1>2. PICK n \in Nat \ {0} : AllSides(RulePairs, n, Proto, Proto, Proto, Proto)
  <2>1. CASE path = "streams"
    <3>1. PICK n \in Nat \ {0} :
             /\ DOMAIN RulePairs = 1..n
             /\ \A i \in 1..n : \E class : RulePairs[i] = RulePair(WithTrafficClass(BaseSpec, class))
      BY <2>1, StreamPairs DEF Planned
    <3>2. \A class : OneProto(WithTrafficClass(BaseSpec, class), Proto)
      BY <1>1 DEF WithTrafficClass, OneProto
    <3> QED
      BY <3>1, <3>2, SpecSides DEF AllSides
  <2>2. CASE path = "reload"
    <3>1. RulePairs = <<RulePair(BaseSpec)>>
      BY <2>2 DEF RulePairs
    <3>2. Sides(RulePair(BaseSpec), Proto, Proto, Proto, Proto)
      BY <1>1, SpecSides
    <3>3. DOMAIN RulePairs = 1..1 /\ RulePairs[1] = RulePair(BaseSpec)
      BY <3>1
    <3> QED
      BY <3>2, <3>3 DEF AllSides
  <2> QED
    BY <2>1, <2>2
<1>3. dut.rules = SplitRules(Scn, RulePairs) /\ Sockets(dut.kind) = "tcp"
  BY DEF Rules, CarrierKind, Sockets
<1>4. Fits <=> Proto = "tcp"
  BY <1>2, <1>3, PairsFit
<1>5. HasSender(Scn) /\ Scn.app # "none" => Scn.interface = "udp" /\ Scn.kind = "tls"
  BY Validated DEF Planned
<1>6. Scn.interface = "udp" => HasSender(Scn)
  BY DEF HasSender, Absent
<1>7. Misfit <=> Datagrams(Scn)
  BY <1>5, <1>6 DEF Misfit, Datagrams, Planned
<1> QED
  BY <1>4, <1>7 DEF Proto

\* The fields of a spec stay those it was made with.
LEMMA BaseDomain ==
    ASSUME Planned
    PROVE  DOMAIN BaseSpec = DOMAIN Spec0
<1> DEFINE sec == Plan1.security
<1>1. sec.mode \in SecurityModes
  BY PlanProto DEF Planned, Plan1
<1>2. \A p, proto : DOMAIN CustomSpec(p, proto) = DOMAIN Spec0
  BY DEF CustomSpec
<1>3. \A p, proto, v : DOMAIN ServerSpec(p, proto, v) = DOMAIN Spec0
  BY DEF ServerSpec
<1>4. \A p, proto, v : DOMAIN MutualSpec(p, proto, v) = DOMAIN Spec0
  BY DEF MutualSpec
<1>5. DOMAIN RoutingUdpSpec = DOMAIN Spec0
  BY DEF RoutingUdpSpec
<1>6. \A spec, q : DOMAIN [spec EXCEPT !.profile = q] = DOMAIN spec
  OBVIOUS
<1> HIDE DEF sec
<1>7. DOMAIN DecidedSpec(Scn, sec) = DOMAIN Spec0
  <2>1. CASE sec.mode = "routing"
    BY <2>1 DEF DecidedSpec
  <2>2. CASE sec.mode = "routing-udp"
    BY <2>2, <1>5 DEF DecidedSpec
  <2>3. CASE sec.mode = "custom"
    BY <2>3, <1>2 DEF DecidedSpec
  <2>4. CASE sec.mode = "integrity"
    <3>1. DecidedSpec(Scn, sec) = [ServerSpec("tls", "tcp", sec.version) EXCEPT !.profile = "integrity-only"]
      BY <2>4 DEF DecidedSpec
    <3> QED
      BY <3>1, <1>3, <1>6
  <2>5. CASE sec.mode = "tls"
    <3>1. \E p : DecidedSpec(Scn, sec) \in {MutualSpec(p, "tcp", sec.version), ServerSpec(p, "tcp", sec.version)}
      BY <2>5 DEF DecidedSpec
    <3> QED
      BY <3>1, <1>3, <1>4
  <2>6. CASE sec.mode = "dtls"
    BY <2>6, <1>3, <1>4 DEF DecidedSpec
  <2> QED
    BY <1>1, <2>1, <2>2, <2>3, <2>4, <2>5, <2>6 DEF SecurityModes
<1>8. \A spec : DOMAIN Overridden(Scn, spec) = DOMAIN spec
  BY DEF Overridden
<1> QED
  BY <1>7, <1>8 DEF BaseSpec, SecuritySpec, sec

\* A local endpoint and a transparent listener change a pair where they must.
LEMMA LocalSides ==
    ASSUME NEW spec, NEW a, NEW b, NEW c, NEW d, Sides(RulePair(spec), a, b, c, d), NEW proto
    PROVE  Sides(LocalPair(RulePair(spec), proto), proto, b, c, proto)
BY DEF Sides, LocalPair, RulePair, EncryptRule, DecryptRule, Rule

\* A transparent listener changes no protocol.
LEMMA TransparentSides ==
    ASSUME NEW spec, NEW a, NEW b, NEW c, NEW d, Sides(RulePair(spec), a, b, c, d)
    PROVE  Sides(TransparentPair(RulePair(spec)), a, b, c, d)
BY DEF Sides, TransparentPair, RulePair, EncryptRule, DecryptRule, Rule

\* Where one rule pair carries the traffic, its four sides decide whether the path fits.
LEMMA OnePairFits ==
    ASSUME NEW s, NEW pair, NEW a, NEW b, NEW c, NEW d, Sides(pair, a, b, c, d),
           dut.rules = SplitRules(s, <<pair>>)
    PROVE  Fits <=> a = Sockets(dut.kind) /\ d = Sockets(dut.kind) /\ b = c
<1> DEFINE pairs == <<pair>>
<1>1. DOMAIN pairs = 1..1 /\ pairs[1] = pair
  OBVIOUS
<1>2. AllSides(pairs, 1, a, b, c, d)
  BY <1>1 DEF AllSides
<1>3. dut.rules = SplitRules(s, pairs)
  OBVIOUS
<1> HIDE DEF pairs
<1> QED
  BY <1>2, <1>3, PairsFit

\* A single-stream gateway offers the sockets of the scenario's interface, and its rules
\* speak the protocol of those sockets.
LEMMA GatewayFits ==
    ASSUME Planned, path = "gateway", dut.kind = CarrierKind, dut.rules = Rules
    PROVE  Fits /\ ~Misfit
<1>0. ~HasStreams(Scn) /\ HasSender(Scn)
  BY PlanProto DEF Planned, Plan1
<1>1. OneProto(BaseSpec, Proto)
  BY PlannedProto
<1>2. Scn.app # "none" => Scn.interface = "udp" /\ Scn.kind = "tls"
  BY <1>0, Validated DEF Planned
<1>3. /\ Scn.interface \in Interfaces
      /\ dut.kind = IF Scn.interface = "unix" THEN "uds" ELSE Scn.interface
      /\ DutKind(Plan1) = dut.kind
  BY <1>0, KindOfPlan DEF Planned, CarrierKind, Plan1
<1>4. Proto = IF Scn.interface = "udp" /\ Scn.app = "none" THEN "udp" ELSE "tcp"
  BY <1>0 DEF Proto, Datagrams
<1> DEFINE pair == RulePair(FullSpec)
<1>5. ASSUME Scn.app = "none" PROVE Sides(pair, Proto, Proto, Proto, Proto)
  <2>1. OneProto(FullSpec, Proto)
    BY <1>1, <1>5 DEF FullSpec, WithFraming, WithOptimizations, OneProto
  <2> QED
    BY <2>1, SpecSides
<1>6. ASSUME Scn.app # "none" PROVE Sides(pair, "udp", "tcp", "tcp", "udp")
  <2> DEFINE framed == WithFraming(BaseSpec, Scn.app)
  <2>1. DOMAIN BaseSpec = DOMAIN Spec0
    BY BaseDomain DEF Planned
  <2>2. /\ framed.encrypt_listen = "udp" /\ framed.encrypt_upstream = "tcp"
        /\ framed.decrypt_listen = "tcp" /\ framed.decrypt_upstream = "udp"
    BY <1>6, <2>1, FramedSides DEF Spec0
  <2> HIDE DEF framed
  <2>3. /\ FullSpec.encrypt_listen = "udp" /\ FullSpec.encrypt_upstream = "tcp"
        /\ FullSpec.decrypt_listen = "tcp" /\ FullSpec.decrypt_upstream = "udp"
    BY <2>2 DEF FullSpec, WithOptimizations, framed
  <2> QED
    BY <2>3 DEF Sides, RulePair, EncryptRule, DecryptRule, Rule, Given, Absent
<1> HIDE DEF pair
<1>7. ~Misfit
  BY DEF Misfit
<1>8. CASE dut.kind \in {"uds", "shm"}
  <2>1. RulePairs = <<LocalPair(pair, dut.kind)>> /\ ~SingleHop
    BY <1>3, <1>8 DEF RulePairs, SingleHop, pair
  <2>2. Scn.app = "none"
    BY <1>2, <1>3, <1>8
  <2>3. Sides(LocalPair(pair, dut.kind), dut.kind, Proto, Proto, dut.kind)
    BY <1>5, <2>2, LocalSides DEF pair
  <2>4. Fits
    BY <1>8, <2>1, <2>3, OnePairFits DEF Rules, Sockets
  <2> QED
    BY <1>7, <2>4
<1>9. CASE dut.kind = "tproxy"
  <2>1. RulePairs = <<TransparentPair(pair)>>
    BY <1>3, <1>9 DEF RulePairs, pair
  <2>2. Scn.app = "none" /\ Proto = "tcp"
    BY <1>2, <1>3, <1>4, <1>9
  <2>3. Sides(TransparentPair(pair), "tcp", "tcp", "tcp", "tcp")
    BY <1>5, <2>2, TransparentSides DEF pair
  <2>4. CASE SingleHop
    <3> DEFINE rule == TransparentPair(pair)[1]
    <3>1. dut.rules = <<<<rule>>>>
      BY <2>1, <2>4 DEF Rules
    <3>2. rule.direction = "encrypt" /\ rule.listen = "tcp" /\ rule.upstream = "tcp"
      BY <2>3 DEF Sides
    <3> HIDE DEF rule
    <3> QED
      BY <1>7, <1>9, <3>1, <3>2, HopFits DEF Sockets
  <2>5. CASE ~SingleHop
    <3>1. Fits
      BY <1>9, <2>1, <2>3, <2>5, OnePairFits DEF Rules, Sockets
    <3> QED
      BY <1>7, <3>1
  <2> QED
    BY <2>4, <2>5
<1>10. CASE dut.kind \in {"tcp", "udp"}
  <2>1. RulePairs = <<pair>> /\ ~SingleHop
    BY <1>3, <1>10 DEF RulePairs, SingleHop, pair
  <2>2. Rules = SplitRules(Scn, <<pair>>)
    BY <2>1 DEF Rules
  <2>3. CASE Scn.app = "none"
    <3>1. dut.kind = Proto
      BY <1>3, <1>4, <1>10, <2>3
    <3> QED
      BY <1>5, <1>7, <1>10, <2>2, <2>3, <3>1, OnePairFits DEF Sockets
  <2>4. CASE Scn.app # "none"
    BY <1>2, <1>3, <1>6, <1>7, <2>2, <2>4, OnePairFits DEF Sockets
  <2> QED
    BY <2>3, <2>4
<1> QED
  BY <1>3, <1>8, <1>9, <1>10 DEF Interfaces

\* What is left to know of a gateway that runs, or has just been left: the scenario was
\* validated, and the rules and sockets are those of its driver.
Launched == pc \notin {"idle", "refused"}

ItemsChecked == Launched => \A item \in ToSet(suite.items) : ScenarioErrors(item.scenario) = {}

PathInv ==
    /\ ItemsChecked
    /\ path \in {"gateway", "streams", "reload"} => Launched /\ pc \notin Outside /\ Scn.enabled
    /\ dut.gateway =>
          path \in {"gateway", "streams", "reload"} /\ dut.kind = CarrierKind /\ dut.rules = Rules

\* PathCoherent follows: what the gateway was started with is what the scenario resolves to.
LEMMA PathIsCoherent ==
    ASSUME RowInv, PathInv
    PROVE  PathCoherent
<1> SUFFICES ASSUME dut.gateway PROVE Fits <=> ~Misfit
  BY DEF PathCoherent
<1>1. /\ path \in {"gateway", "streams", "reload"} /\ dut.kind = CarrierKind /\ dut.rules = Rules
      /\ Launched /\ pc \notin Outside /\ Scn.enabled
  BY DEF PathInv
<1>2. todo # <<>> /\ todo \in Seq(ToSet(suite.items)) /\ ValidItems
  BY <1>1 DEF RowInv, TodoItems
<1>3. Deserializes(Scn) /\ IsList(Scn.streams)
  BY <1>1, <1>2, CurrentItem DEF Launched
<1>4. ScenarioErrors(Scn) = {}
  <2>1. Head(todo) \in ToSet(suite.items)
    BY <1>2, HeadTailProperties
  <2> QED
    BY <1>1, <2>1 DEF PathInv, ItemsChecked, Scn
<1>5. Planned
  BY <1>1, <1>3, <1>4 DEF Planned, RowInv, CarrierFits
<1> QED
  BY <1>1, <1>5, TcpDriversFit, GatewayFits

\* A step that keeps the scenario and what carries it.
LEMMA PathKeep ==
    ASSUME PathInv, UNCHANGED <<suite, todo, path, dut>>, Launched' => Launched,
           path \in {"gateway", "streams", "reload"} => pc' \notin Outside
    PROVE  PathInv'
<1>1. UNCHANGED <<Scn, CarrierKind, Rules>>
  BY SameRules
<1>2. ItemsChecked'
  BY DEF PathInv, ItemsChecked
<1>3. pc' \notin Outside => Launched'
  BY DEF Launched, Outside
<1> QED
  BY <1>1, <1>2, <1>3 DEF PathInv

\* A step after which no gateway runs.
LEMMA PathDrop ==
    ASSUME PathInv, UNCHANGED suite, Launched, ~dut'.gateway, path' = "none"
    PROVE  PathInv'
BY DEF PathInv, ItemsChecked

\* Every step of the driver keeps PathInv.
LEMMA PathSteps ==
    ASSUME HostTypeOK, RowInv, PathInv, [Next]_vars
    PROVE  PathInv'
<1>0. /\ pc \in Outside => path = "none"
      /\ path = "none" => ~dut.gateway
      /\ ~NoDut.gateway
  BY DEF RowInv, CarrierFits, PathInv, NoDut
<1>1. CASE Launch
  <2> DEFINE scenarios == [i \in DOMAIN suite.items |-> suite.items[i].scenario]
  <2>1. /\ pc = "idle" /\ pc' = (IF Validates(suite.defaults, scenarios) THEN "next" ELSE "refused")
        /\ UNCHANGED <<suite, todo, path, dut>>
    BY <1>1 DEF Launch, Goto
  <2>2. pc' = "next" => \A item \in ToSet(suite.items) : ScenarioErrors(item.scenario) = {}
    <3> SUFFICES ASSUME pc' = "next", NEW i \in DOMAIN suite.items
                 PROVE  ScenarioErrors(suite.items[i].scenario) = {}
      BY DEF ToSet
    <3>1. Validates(suite.defaults, scenarios)
      BY <2>1
    <3>2. ScenarioErrors(scenarios[i]) = {}
      BY <3>1 DEF Validates
    <3> QED
      BY <3>2
  <2> HIDE DEF scenarios
  <2>3. path = "none" /\ ~dut.gateway
    BY <1>0, <2>1 DEF Outside
  <2> QED
    BY <2>1, <2>2, <2>3 DEF PathInv, ItemsChecked, Launched
<1>2. CASE Dispatch
  <2>1. /\ pc = "next" /\ Scn.enabled /\ path = "none" /\ ~dut.gateway
    BY <1>0, <1>2 DEF Dispatch, Outside
  <2>2. CASE \E how \in SkipReasons : Leave(how)
    BY <2>1, <2>2, PathDrop DEF Leave, Launched
  <2>3. CASE \E driver, carrier, next : Entering(driver, carrier, next)
    <3>1. PICK driver, carrier, next : Entering(driver, carrier, next)
      BY <2>3
    <3>2. UNCHANGED <<suite, todo>> /\ pc' \in {"run", "spec", "topology"} /\ ~dut'.gateway
      BY <3>1, <1>0 DEF Entering, Enter, LoopbackDut
    <3>3. Scn' = Scn
      BY <3>2 DEF Scn
    <3> QED
      BY <2>1, <3>2, <3>3 DEF PathInv, ItemsChecked, Launched, Outside
  <2>4. ASSUME ~\E how \in SkipReasons : Leave(how)
        PROVE  \E driver, carrier, next : Entering(driver, carrier, next)
    BY <1>2, <2>4 DEF Entering, Dispatch, SkipReasons
  <2> QED
    BY <2>2, <2>3, <2>4
<1>3. CASE StartGateway \/ StartFails
  <2>1. pc = "start" /\ path \in {"gateway", "streams", "reload"} /\ UNCHANGED <<suite, todo, path>>
    BY <1>3 DEF StartGateway, StartFails, Leave, RowInv, CarrierFits, Preparing
  <2>2. UNCHANGED <<Scn, CarrierKind, Rules>>
    BY <2>1, SameRules
  <2>3. pc' \in {"run", "leave"}
    BY <1>3 DEF StartGateway, StartFails, Leave
  <2>4. \/ dut' = dut
        \/ dut'.kind = CarrierKind /\ dut'.rules = Rules
    BY <1>3 DEF StartGateway, StartFails, Leave
  <2> QED
    BY <2>1, <2>2, <2>3, <2>4 DEF PathInv, ItemsChecked, Launched, Outside
<1>4. CASE EndScenario \/ Killed
  BY <1>0, <1>4, PathDrop DEF EndScenario, Killed, Launched
<1>5. CASE FinishSuite \/ PassOver \/ Resume
  <2>1. pc \in {"next", "dead", "aborted"} /\ UNCHANGED <<suite, path, dut>>
    BY <1>5 DEF FinishSuite, PassOver, Resume, Goto
  <2> QED
    BY <1>0, <2>1, PathDrop DEF Outside, Launched
<1>6. CASE OperatorCommand
  BY <1>0, <1>6, PathKeep DEF OperatorCommand, Outside, Launched
<1>7. CASE ProvisionTopology \/ Impair \/ InstallStep \/ InstallRefused \/ BuildSpec
  <2>1. /\ pc \in Preparing /\ pc' \in Preparing \cup {"leave"}
        /\ UNCHANGED <<suite, todo, path, dut>>
    BY <1>7, PreparingStep
  <2> QED
    BY <2>1, PathKeep DEF Preparing, Outside, Launched
<1>8. CASE RunTraffic \/ RunFails \/ RunEmpty \/ Calibrate \/ ProbeFails \/ Sweep
           \/ \E fell_back \in BOOLEAN : Record(fell_back)
  <2>1. /\ pc \in Carrying /\ pc' \in Carrying \cup {"leave"}
        /\ UNCHANGED <<suite, todo, path, dut>>
    BY <1>8 DEF RunTraffic, RunFails, RunEmpty, Calibrate, ProbeFails, Sweep, Record, EngineError,
                Leave, Goto, CalibrateWith, Carrying
  <2> QED
    BY <2>1, PathKeep DEF Carrying, Outside, Launched
<1>9. CASE UNCHANGED vars
  <2>1. UNCHANGED <<suite, todo, path, dut, pc>>
    BY <1>9 DEF vars, driverVars
  <2> QED
    BY <2>1, PathKeep DEF PathInv, Launched
<1> QED
  BY <1>1, <1>2, <1>3, <1>4, <1>5, <1>6, <1>7, <1>8, <1>9 DEF Next, Progress, Disturbance

\* It holds throughout.
LEMMA PathAlways == Spec => []PathInv
<1>1. Init => PathInv
  BY DEF Init, PathInv, ItemsChecked, Launched, NoDut
<1>2. HostInv => HostTypeOK
  BY DEF HostInv
<1>3. HostTypeOK /\ RowInv /\ PathInv /\ [Next]_vars => PathInv'
  BY PathSteps
<1> QED
  BY HostAlways, RowAlways, <1>1, <1>2, <1>3, PTL DEF Spec

\* The sockets of the harness and the rules of the gateway fit together in every driver,
\* but for the two combinations that validation lets through and Misfit names.
THEOREM PathsAreCoherent == Spec => []PathCoherent
<1>1. RowInv /\ PathInv => PathCoherent
  BY PathIsCoherent
<1> QED
  BY RowAlways, PathAlways, <1>1, PTL

-----------------------------------------------------------------------------
(***************************************************************************)
(* Generated suites.  The rows of a document are flattened sequences of    *)
(* sequences, so what holds of them is shown by counting up: the set of    *)
(* the numbers for which a fact holds is all of Nat.                       *)
(***************************************************************************)
\* A set of numbers has a smallest one.
LEMMA SmallestOf ==
    ASSUME NEW T, T \subseteq Nat, T # {}
    PROVE  \E x \in T : \A y \in T : x <= y
<1>1. \E x \in T : \A y \in T : ~ (<<y, x>> \in OpToRel(<, Nat))
  BY NatLessThanWellFounded, WFMin
<1>2. PICK x \in T : \A y \in T : ~ (<<y, x>> \in OpToRel(<, Nat))
  BY <1>1
<1>3. \A y \in T : ~(y < x)
  BY <1>2 DEF OpToRel
<1> QED
  BY <1>3

\* A set that has 0 and with every number the next one has them all.
LEMMA CountUp ==
    ASSUME NEW T, 0 \in T, \A n \in Nat : n \in T => n + 1 \in T
    PROVE  Nat \subseteq T
<1> SUFFICES ASSUME ~(Nat \subseteq T) PROVE FALSE
  OBVIOUS
<1> DEFINE U == Nat \ T
<1>1. PICK x \in U : \A y \in U : x <= y
  BY SmallestOf
<1>2. x # 0 /\ x - 1 \in Nat
  BY <1>1
<1>3. x - 1 \in T
  BY <1>1, <1>2
<1> QED
  BY <1>1, <1>2, <1>3

\* f is the table of the concatenations of the first elements of q.
Joined(q, n, f) == f = [i \in 1..n |-> IF i = 1 THEN q[i] ELSE f[i - 1] \o q[i]]

\* The recursive function of FlattenSeq exists.
LEMMA JoinedExist ==
    ASSUME NEW q, NEW n \in Nat
    PROVE  \E f : Joined(q, n, f)
<1> DEFINE T == {k \in Nat : \E f : Joined(q, k, f)}
<1>1. 0 \in T
  <2>1. Joined(q, 0, [i \in 1..0 |-> q[i]])
    BY DEF Joined
  <2> QED
    BY <2>1
<1>2. ASSUME NEW k \in Nat, k \in T PROVE k + 1 \in T
  <2>1. PICK f : Joined(q, k, f)
    BY <1>2
  <2> DEFINE g == [i \in 1..(k + 1) |-> IF i = 1 THEN q[i] ELSE f[i - 1] \o q[i]]
  <2>2. \A i \in 1..k : f[i] = IF i = 1 THEN q[i] ELSE f[i - 1] \o q[i]
    BY <2>1 DEF Joined
  <2>3. \A i \in 1..k : g[i] = f[i]
    BY <2>2
  <2>4. ASSUME NEW i \in 1..(k + 1), i # 1 PROVE g[i - 1] = f[i - 1]
    <3>1. i - 1 \in 1..k
      BY <2>4
    <3> QED
      BY <2>3, <3>1
  <2>5. \A i \in 1..(k + 1) : i # 1 => g[i] = f[i - 1] \o q[i]
    OBVIOUS
  <2>6. g = [i \in 1..(k + 1) |-> g[i]]
    OBVIOUS
  <2>7. \A i \in 1..(k + 1) : g[i] = IF i = 1 THEN q[i] ELSE g[i - 1] \o q[i]
    BY <2>4, <2>5
  <2> HIDE DEF g
  <2>8. Joined(q, k + 1, g)
    BY <2>6, <2>7 DEF Joined
  <2> QED
    BY <2>8
<1> HIDE DEF T
<1>3. Nat \subseteq T
  BY <1>1, <1>2, CountUp
<1> QED
  BY <1>3 DEF T

\* A flattened sequence of sequences over R is a sequence over R.
LEMMA FlattenedIn ==
    ASSUME NEW R, NEW q \in Seq(Seq(R))
    PROVE  FlattenSeq(q) \in Seq(R)
<1>1. CASE Len(q) = 0
  <2>1. FlattenSeq(q) = q
    BY <1>1 DEF FlattenSeq
  <2>2. q = <<>>
    BY <1>1, EmptySeq
  <2> QED
    BY <2>1, <2>2
<1>2. CASE Len(q) # 0
  <2> DEFINE f == CHOOSE g : g = [i \in 1..Len(q) |-> IF i = 1 THEN q[i] ELSE g[i - 1] \o q[i]]
             T == {k \in Nat : k \in 1..Len(q) => f[k] \in Seq(R)}
  <2>0. Len(q) \in Nat \ {0} /\ \A i \in 1..Len(q) : q[i] \in Seq(R)
    BY <1>2, ElementOfSeq, LenProperties
  <2>1. FlattenSeq(q) = f[Len(q)]
    BY <1>2 DEF FlattenSeq
  <2>2. f = [i \in 1..Len(q) |-> IF i = 1 THEN q[i] ELSE f[i - 1] \o q[i]]
    <3>1. \E g : g = [i \in 1..Len(q) |-> IF i = 1 THEN q[i] ELSE g[i - 1] \o q[i]]
      BY <2>0, JoinedExist DEF Joined
    <3> QED
      BY <3>1
  <2> HIDE DEF f
  <2>3. f[1] = q[1] /\ \A i \in 1..Len(q) : i # 1 => f[i] = f[i - 1] \o q[i]
    <3> DEFINE n == Len(q)
               g == [i \in 1..n |-> IF i = 1 THEN q[i] ELSE f[i - 1] \o q[i]]
    <3>1. n \in Nat /\ 1 \in 1..n
      BY <2>0
    <3> HIDE DEF n
    <3>2. g[1] = q[1] /\ \A i \in 1..n : i # 1 => g[i] = f[i - 1] \o q[i]
      BY <3>1
    <3>3. f = g
      BY <2>2 DEF n
    <3> QED
      BY <3>2, <3>3 DEF n
  <2>4. 0 \in T
    OBVIOUS
  <2>5. ASSUME NEW k \in Nat, k \in T PROVE k + 1 \in T
    <3>1. CASE k = 0
      BY <2>0, <2>3, <3>1
    <3>2. CASE k # 0 /\ k + 1 \in 1..Len(q)
      <4>0. k \in 1..Len(q) /\ k + 1 # 1 /\ (k + 1) - 1 = k
        BY <2>0, <3>2
      <4>1. f[k + 1] = f[k] \o q[k + 1]
        BY <2>3, <3>2, <4>0
      <4>2. f[k] \in Seq(R) /\ q[k + 1] \in Seq(R)
        BY <2>0, <2>5, <3>2, <4>0
      <4>3. f[k] \o q[k + 1] \in Seq(R)
        BY <4>2, ConcatProperties
      <4>4. f[k + 1] \in Seq(R)
        BY <4>1, <4>3
      <4> QED
        BY <4>4
    <3> QED
      BY <3>1, <3>2
  <2> HIDE DEF T
  <2>6. Nat \subseteq T
    BY <2>4, <2>5, CountUp
  <2>7. f[Len(q)] \in Seq(R)
    BY <2>0, <2>6 DEF T
  <2> QED
    BY <2>1, <2>7
<1> QED
  BY <1>1, <1>2

\* A row of a generated suite: a disabled one is only read, the others are run over the
\* loopback network with a protocol that fits their interface, and require what they take.
BlockedRow(s) == ~s.enabled /\ s.name # <<>> /\ Deserializes(s)

\* What no generator of rows touches.
Untouched(s) ==
    /\ s.pattern = "sustained" /\ s.pacing \subseteq PacingFields /\ s.provider = Absent
    /\ s.certs = {} /\ ~s.zero_copy /\ s.perf_profile = Absent
    /\ s.topology = "loopback" /\ ~s.impaired /\ s.sweep = NoSweep

\* What the mode, the streams and the reload of a row ask of its path.
Playable(s) ==
    /\ s.mode \in Modes /\ s.reload \in ReloadActions \cup {Absent} /\ s.gateway \in BOOLEAN
    /\ s.mode = "connrate" => s.interface = "tcp"
    /\ ~s.gateway => /\ s.kind = "none" /\ s.interface \in {"tcp", "udp"}
                     /\ s.streams = <<>> /\ s.reload = Absent
    /\ s.streams # <<>> \/ s.reload # Absent => /\ s.mode = "throughput" /\ s.interface = "tcp"
                                               /\ s.chain = "scg-direct"
    /\ s.streams # <<>> => s.kind = "none" /\ s.streams = SmokeStreamsRow.streams

EnabledRow(s) ==
    /\ s.enabled /\ s.name # <<>> /\ s.interface \in Interfaces /\ s.addr = SenderAddr(s.interface)
    /\ s.resumption => s.kind = "tls"
    /\ Untouched(s) /\ Playable(s)
    /\ ProtocolFits(s, s.interface) /\ Takes(s.kind, s.interface) \subseteq s.requires

GoodRow(s) == BlockedRow(s) \/ EnabledRow(s)

GoodList(q) == IsList(q) /\ \A r \in ToSet(q) : GoodRow(r)

\* Lists of good rows: the empty one, one row, a table, two of them, and all of a list.
LEMMA GoodNone == GoodList(<<>>)
<1>1. ToSet(<<>>) = {}
  BY DEF ToSet
<1> QED
  BY <1>1 DEF GoodList, IsList

\* A table of good rows is a good list.
LEMMA GoodTable ==
    ASSUME NEW n \in Nat, NEW q, q = [i \in 1..n |-> q[i]], \A i \in 1..n : GoodRow(q[i])
    PROVE  GoodList(q)
<1>1. DOMAIN q = 1..n
  OBVIOUS
<1>2. ToSet(q) = {q[i] : i \in 1..n}
  BY <1>1 DEF ToSet
<1>3. q \in [1..n -> ToSet(q)]
  BY <1>2
<1>4. q \in Seq(ToSet(q))
  BY <1>3
<1> QED
  BY <1>2, <1>4 DEF GoodList, IsList

\* So is one good row.
LEMMA GoodOne == ASSUME NEW r, GoodRow(r) PROVE GoodList(<<r>>)
<1>1. ToSet(<<r>>) = {r}
  BY DEF ToSet
<1>2. <<r>> \in Seq({r})
  OBVIOUS
<1> QED
  BY <1>1, <1>2 DEF GoodList, IsList

\* A sequence over a set is a list of its elements.
LEMMA ListOver ==
    ASSUME NEW R, NEW q \in Seq(R)
    PROVE  IsList(q) /\ ToSet(q) \subseteq R /\ DOMAIN q = 1..Len(q) /\ Len(q) \in Nat
<1>1. DOMAIN q = 1..Len(q) /\ Len(q) \in Nat /\ q \in [1..Len(q) -> R]
  BY LenProperties
<1>2. ToSet(q) = {q[i] : i \in 1..Len(q)}
  BY <1>1 DEF ToSet
<1>3. ToSet(q) \subseteq R
  BY <1>1, <1>2
<1>4. q \in [1..Len(q) -> ToSet(q)]
  BY <1>1, <1>2
<1>5. q \in Seq(ToSet(q))
  BY <1>1, <1>4
<1> QED
  BY <1>1, <1>3, <1>5 DEF IsList

\* Two good lists make one.
LEMMA GoodConcat ==
    ASSUME NEW a, NEW b, GoodList(a), GoodList(b)
    PROVE  GoodList(a \o b)
<1> DEFINE R == ToSet(a) \cup ToSet(b)
<1>1. a \in Seq(ToSet(a)) /\ b \in Seq(ToSet(b))
  BY DEF GoodList, IsList
<1>2. a \in Seq(R) /\ b \in Seq(R)
  BY <1>1
<1>3. \A r \in R : GoodRow(r)
  BY DEF GoodList
<1> HIDE DEF R
<1>4. a \o b \in Seq(R)
  BY <1>2, ConcatProperties
<1> QED
  BY <1>3, <1>4, ListOver DEF GoodList

\* A flattened table of good lists is one.
LEMMA GoodFlat ==
    ASSUME NEW n \in Nat, NEW q, q = [i \in 1..n |-> q[i]], \A i \in 1..n : GoodList(q[i])
    PROVE  GoodList(FlattenSeq(q))
<1> DEFINE R == UNION {ToSet(q[i]) : i \in 1..n}
<1>1. \A r \in R : GoodRow(r)
  BY DEF GoodList
<1>2. ASSUME NEW i \in 1..n PROVE q[i] \in Seq(R)
  <2>1. q[i] \in Seq(ToSet(q[i]))
    BY DEF GoodList, IsList
  <2>2. ToSet(q[i]) \subseteq R
    OBVIOUS
  <2> HIDE DEF R
  <2> QED
    BY <2>1, <2>2
<1> HIDE DEF R
<1>3. q \in [1..n -> Seq(R)]
  BY <1>2
<1>4. q \in Seq(Seq(R))
  BY <1>3
<1>5. FlattenSeq(q) \in Seq(R)
  BY <1>4, FlattenedIn
<1> QED
  BY <1>1, <1>5, ListOver DEF GoodList

\* A filter, written as a flattened table, keeps elements of the list.
LEMMA Sifted ==
    ASSUME NEW e, IsList(e), NEW q, q = [i \in DOMAIN e |-> q[i]],
           \A i \in DOMAIN e : q[i] \in {<<e[i]>>, <<>>}
    PROVE  IsList(FlattenSeq(q)) /\ ToSet(FlattenSeq(q)) \subseteq ToSet(e)
<1>1. e \in Seq(ToSet(e)) /\ DOMAIN e = 1..Len(e) /\ Len(e) \in Nat
  BY LenProperties DEF IsList
<1>2. \A i \in DOMAIN e : e[i] \in ToSet(e)
  BY DEF ToSet
<1>3. ASSUME NEW i \in DOMAIN e PROVE q[i] \in Seq(ToSet(e))
  <2>1. \A S : \A x \in S : <<x>> \in Seq(S) /\ <<>> \in Seq(S)
    OBVIOUS
  <2>2. <<e[i]>> \in Seq(ToSet(e)) /\ <<>> \in Seq(ToSet(e))
    BY <1>2, <2>1
  <2>3. q[i] = <<e[i]>> \/ q[i] = <<>>
    OBVIOUS
  <2> QED
    BY <2>2, <2>3
<1>4. q \in [1..Len(e) -> Seq(ToSet(e))]
  BY <1>1, <1>3
<1>5. q \in Seq(Seq(ToSet(e)))
  BY <1>1, <1>4
<1> QED
  BY <1>5, FlattenedIn, ListOver

ScenarioFields ==
    {"name", "enabled", "category", "mode", "size", "connections", "runs", "interface", "addr",
     "pattern", "pacing", "kind", "version", "protection", "kernel", "mutual", "app", "provider",
     "resumption", "certs", "profile", "cipher", "topology", "impaired", "gateway", "chain",
     "streams", "reload", "sweep", "comparison", "zero_copy", "perf_profile", "ring", "requires"}

\* The fields of a scenario and what they are before a row says otherwise.
LEMMA DefaultFields ==
    /\ DOMAIN DefaultScenario = ScenarioFields
    /\ DefaultScenario.enabled = TRUE /\ DefaultScenario.mode = "throughput"
    /\ DefaultScenario.streams = <<>> /\ DefaultScenario.reload = Absent
    /\ DefaultScenario.resumption = FALSE /\ DefaultScenario.cipher = Absent
    /\ DefaultScenario.kind = "none" /\ DefaultScenario.version = "1.3"
    /\ DefaultScenario.protection = "full" /\ DefaultScenario.kernel = FALSE
    /\ DefaultScenario.mutual = FALSE /\ DefaultScenario.app = "none"
    /\ Untouched(DefaultScenario)
BY SMT DEF DefaultScenario, ScenarioFields, Untouched

\* A protocol changes its own fields only, whatever the others are.
LEMMA StatedFields ==
    ASSUME NEW protocol, DOMAIN protocol \subseteq ProtocolFields, NEW s, NEW d,
           DOMAIN s = DOMAIN d, \A f \in ProtocolFields : s[f] = d[f]
    PROVE  /\ DOMAIN Stating(protocol, s) = DOMAIN s
           /\ \A f \in DOMAIN s : f \notin ProtocolFields => Stating(protocol, s)[f] = s[f]
           /\ \A f \in DOMAIN s : f \in ProtocolFields =>
                 Stating(protocol, s)[f] = Stating(protocol, d)[f]
BY SMT DEF Stating

\* The fields in which two records agree on the protocol.
SameProtocol(s, t) ==
    /\ s.kind = t.kind /\ s.version = t.version /\ s.protection = t.protection
    /\ s.kernel = t.kernel /\ s.mutual = t.mutual /\ s.app = t.app

\* What a row says: the rest is as a scenario that states nothing has it.
RowSays(r, name, interface, protocol, gateway, chain, requires) ==
    /\ DOMAIN r = ScenarioFields
    /\ r.name = name /\ r.interface = interface /\ r.addr = SenderAddr(interface)
    /\ r.gateway = gateway /\ r.chain = chain /\ r.requires = requires
    /\ r.enabled = TRUE /\ r.mode = "throughput" /\ r.streams = <<>> /\ r.reload = Absent
    /\ r.resumption = FALSE
    /\ Untouched(r) /\ SameProtocol(r, Stating(protocol, DefaultScenario))

\* Row states what it is given and leaves the rest at its default.
LEMMA RowFields ==
    ASSUME NEW name, NEW category, NEW interface, NEW protocol, NEW gateway, NEW chain, NEW size,
           NEW connections, NEW requires, DOMAIN protocol \subseteq ProtocolFields
    PROVE  RowSays(Row(name, category, interface, protocol, gateway, chain, size, connections,
                       requires), name, interface, protocol, gateway, chain, requires)
<1> DEFINE r == Row(name, category, interface, protocol, gateway, chain, size, connections, requires)
<1> DEFINE addr == SenderAddr(interface)
<1>1. ASSUME NEW d, DOMAIN d = ScenarioFields
      PROVE  LET s == [d EXCEPT !.name = name, !.category = category, !.interface = interface,
                                !.addr = addr, !.gateway = gateway, !.chain = chain, !.size = size,
                                !.connections = connections, !.requires = requires]
             IN  /\ DOMAIN s = ScenarioFields /\ (\A f \in ProtocolFields : s[f] = d[f])
                 /\ s.name = name /\ s.interface = interface /\ s.addr = addr
                 /\ s.gateway = gateway /\ s.chain = chain /\ s.requires = requires
                 /\ s.enabled = d.enabled /\ s.mode = d.mode /\ s.streams = d.streams
                 /\ s.reload = d.reload /\ s.resumption = d.resumption
                 /\ Untouched(d) => Untouched(s)
  <2> HIDE DEF addr
  <2> DEFINE s == [d EXCEPT !.name = name, !.category = category, !.interface = interface,
                            !.addr = addr, !.gateway = gateway, !.chain = chain, !.size = size,
                            !.connections = connections, !.requires = requires]
  <2>1. DOMAIN s = ScenarioFields
    BY <1>1, Zenon
  <2>2. \A f \in ScenarioFields :
           s[f] = IF f = "requires" THEN requires ELSE IF f = "connections" THEN connections
                  ELSE IF f = "size" THEN size ELSE IF f = "chain" THEN chain
                  ELSE IF f = "gateway" THEN gateway ELSE IF f = "addr" THEN addr
                  ELSE IF f = "interface" THEN interface ELSE IF f = "category" THEN category
                  ELSE IF f = "name" THEN name ELSE d[f]
    BY <1>1, ZenonT(30)
  <2> HIDE DEF s
  <2>3. \A f \in ProtocolFields : s[f] = d[f]
    BY <2>2, SMT DEF ScenarioFields, ProtocolFields
  <2>4. /\ s.name = name /\ s.interface = interface /\ s.addr = addr
        /\ s.gateway = gateway /\ s.chain = chain /\ s.requires = requires
    BY <2>2, SMT DEF ScenarioFields
  <2>5. /\ s.enabled = d.enabled /\ s.mode = d.mode /\ s.streams = d.streams
        /\ s.reload = d.reload /\ s.resumption = d.resumption
    BY <2>2, SMT DEF ScenarioFields
  <2>6. /\ s.pattern = d.pattern /\ s.pacing = d.pacing /\ s.provider = d.provider
        /\ s.certs = d.certs /\ s.zero_copy = d.zero_copy /\ s.perf_profile = d.perf_profile
        /\ s.topology = d.topology /\ s.impaired = d.impaired /\ s.sweep = d.sweep
    BY <2>2, SMT DEF ScenarioFields
  <2>7. Untouched(d) => Untouched(s)
    BY <2>6 DEF Untouched
  <2> QED
    BY <2>1, <2>3, <2>4, <2>5, <2>7 DEF s
<1> DEFINE s == [DefaultScenario EXCEPT
                    !.name = name, !.category = category, !.interface = interface,
                    !.addr = addr, !.gateway = gateway, !.chain = chain, !.size = size,
                    !.connections = connections, !.requires = requires]
<1>2. /\ DOMAIN s = ScenarioFields /\ \A f \in ProtocolFields : s[f] = DefaultScenario[f]
      /\ s.name = name /\ s.interface = interface /\ s.addr = addr
      /\ s.gateway = gateway /\ s.chain = chain /\ s.requires = requires
      /\ s.enabled = TRUE /\ s.mode = "throughput" /\ s.streams = <<>>
      /\ s.reload = Absent /\ s.resumption = FALSE
      /\ Untouched(s)
  <2> HIDE DEF addr
  <2> QED
    BY <1>1, DefaultFields
<1>3. r = Stating(protocol, s)
  BY DEF Row
<1> HIDE DEF s, addr, r
<1>4. /\ DOMAIN r = ScenarioFields
      /\ \A f \in ScenarioFields : f \notin ProtocolFields => r[f] = s[f]
      /\ \A f \in ScenarioFields : f \in ProtocolFields =>
            r[f] = Stating(protocol, DefaultScenario)[f]
  BY <1>2, <1>3, DefaultFields, StatedFields
<1>5. SameProtocol(r, Stating(protocol, DefaultScenario))
  BY <1>4, SMT DEF SameProtocol, ScenarioFields, ProtocolFields
<1>6. /\ r.name = s.name /\ r.interface = s.interface /\ r.addr = s.addr
      /\ r.gateway = s.gateway /\ r.chain = s.chain /\ r.requires = s.requires
      /\ r.enabled = s.enabled /\ r.mode = s.mode /\ r.streams = s.streams
      /\ r.reload = s.reload /\ r.resumption = s.resumption
  BY <1>4, SMT DEF ScenarioFields, ProtocolFields
<1>7. Untouched(r)
  <2>1. /\ r.pattern = s.pattern /\ r.pacing = s.pacing /\ r.provider = s.provider
        /\ r.certs = s.certs /\ r.zero_copy = s.zero_copy /\ r.perf_profile = s.perf_profile
        /\ r.topology = s.topology /\ r.impaired = s.impaired /\ r.sweep = s.sweep
    BY <1>4, SMT DEF ScenarioFields, ProtocolFields
  <2> QED
    BY <1>2, <2>1 DEF Untouched
<1>8. RowSays(r, name, interface, protocol, gateway, chain, requires)
  BY <1>2, <1>4, <1>5, <1>6, <1>7 DEF addr, RowSays
<1> QED
  BY <1>8 DEF r

\* Whether a protocol fits depends on its fields only.
LEMMA SameFits ==
    ASSUME NEW s, NEW t, SameProtocol(s, t), NEW interface, ProtocolFits(t, interface)
    PROVE  ProtocolFits(s, interface)
BY DEF SameProtocol, ProtocolFits

\* A row as it is written before a generator sets its mode, its cipher or its reload.
WrittenRow(r) ==
    /\ EnabledRow(r) /\ DOMAIN r = ScenarioFields
    /\ r.mode = "throughput" /\ r.streams = <<>> /\ r.reload = Absent

\* A row whose protocol fits its interface, and that requires what it takes, is written well.
LEMMA RowIsWritten ==
    ASSUME NEW name, NEW category, NEW interface \in Interfaces, NEW protocol, NEW gateway \in BOOLEAN,
           NEW chain, NEW size, NEW connections, NEW requires, NEW t,
           name # <<>>, DOMAIN protocol \subseteq ProtocolFields,
           t = Stating(protocol, DefaultScenario),
           ProtocolFits(t, interface), Takes(t.kind, interface) \subseteq requires,
           ~gateway => t.kind = "none" /\ interface \in {"tcp", "udp"},
           NEW r, r = Row(name, category, interface, protocol, gateway, chain, size, connections,
                          requires)
    PROVE  /\ WrittenRow(r) /\ r.interface = interface /\ r.chain = chain /\ r.gateway = gateway
           /\ r.kind = t.kind
<1>0. RowSays(r, name, interface, protocol, gateway, chain, requires)
  BY RowFields
<1>1. /\ DOMAIN r = ScenarioFields
      /\ r.name = name /\ r.interface = interface /\ r.addr = SenderAddr(interface)
      /\ r.gateway = gateway /\ r.chain = chain /\ r.requires = requires
      /\ r.enabled = TRUE /\ r.mode = "throughput" /\ r.streams = <<>> /\ r.reload = Absent
      /\ r.resumption = FALSE
      /\ Untouched(r) /\ SameProtocol(r, Stating(protocol, DefaultScenario))
  BY <1>0 DEF RowSays
<1>2. ProtocolFits(r, interface)
  BY <1>1, SameFits
<1>3. r.kind = t.kind
  BY <1>1 DEF SameProtocol
<1>4. Playable(r)
  BY <1>1, <1>3 DEF Playable, Modes
<1> QED
  BY <1>1, <1>2, <1>3, <1>4 DEF WrittenRow, EnabledRow

\* The fields a generator may set after a row is written.
SetLater == {"mode", "cipher", "reload", "pacing", "streams", "resumption", "comparison"}

\* Setting them well keeps a row fit.
LEMMA SetRow ==
    ASSUME NEW r, WrittenRow(r), NEW q, \A f \in ScenarioFields : f \notin SetLater => q[f] = r[f],
           q.mode \in Modes, q.reload \in ReloadActions \cup {Absent},
           q.pacing \subseteq PacingFields, q.resumption => r.kind = "tls",
           q.mode = "connrate" => r.interface = "tcp",
           q.streams # <<>> \/ q.reload # Absent =>
              q.mode = "throughput" /\ r.interface = "tcp" /\ r.chain = "scg-direct" /\ r.gateway,
           q.streams # <<>> => r.kind = "none" /\ q.streams = SmokeStreamsRow.streams
    PROVE  EnabledRow(q)
<1>2. /\ q.name = r.name /\ q.interface = r.interface /\ q.addr = r.addr
      /\ q.gateway = r.gateway /\ q.chain = r.chain /\ q.requires = r.requires
      /\ q.enabled = r.enabled
  BY SMT DEF ScenarioFields, SetLater
<1>3. SameProtocol(q, r)
  BY SMT DEF ScenarioFields, SetLater, SameProtocol
<1>4. Untouched(q)
  <2>1. /\ q.pattern = r.pattern /\ q.provider = r.provider
        /\ q.certs = r.certs /\ q.zero_copy = r.zero_copy /\ q.perf_profile = r.perf_profile
        /\ q.topology = r.topology /\ q.impaired = r.impaired /\ q.sweep = r.sweep
    BY SMT DEF ScenarioFields, SetLater
  <2> QED
    BY <2>1 DEF WrittenRow, EnabledRow, Untouched
<1>5. q.kind = r.kind
  BY <1>3 DEF SameProtocol
<1>6. Playable(q)
  BY <1>2, <1>5 DEF WrittenRow, EnabledRow, Playable
<1>7. ProtocolFits(q, q.interface)
  BY <1>2, <1>3, SameFits DEF WrittenRow, EnabledRow
<1> QED
  BY <1>2, <1>4, <1>5, <1>6, <1>7 DEF WrittenRow, EnabledRow

\* A written row in another mode can be run.
LEMMA ModeRow ==
    ASSUME NEW r, WrittenRow(r), NEW mode \in Modes, mode = "connrate" => r.interface = "tcp"
    PROVE  EnabledRow([r EXCEPT !.mode = mode])
<1> DEFINE q == [r EXCEPT !.mode = mode]
<1>0. DOMAIN r = ScenarioFields
  BY DEF WrittenRow
<1>1. \A f \in ScenarioFields : q[f] = IF f = "mode" THEN mode ELSE r[f]
  BY <1>0, Zenon
<1> HIDE DEF q
<1>2. \A f \in ScenarioFields : f \notin SetLater => q[f] = r[f]
  BY <1>1 DEF SetLater
<1>3. /\ q.mode = mode /\ q.reload = r.reload /\ q.pacing = r.pacing
      /\ q.resumption = r.resumption /\ q.streams = r.streams
  BY <1>1, SMT DEF ScenarioFields
<1>4. EnabledRow(q)
  BY <1>2, <1>3, SetRow DEF WrittenRow, EnabledRow, Untouched
<1> QED
  BY <1>4 DEF q

\* A written row with a cipher suite can be run.
LEMMA CipheredRow ==
    ASSUME NEW r, WrittenRow(r), NEW suite1
    PROVE  EnabledRow([r EXCEPT !.cipher = suite1])
<1> DEFINE q == [r EXCEPT !.cipher = suite1]
<1>0. DOMAIN r = ScenarioFields
  BY DEF WrittenRow
<1>1. \A f \in ScenarioFields : q[f] = IF f = "cipher" THEN suite1 ELSE r[f]
  BY <1>0, Zenon
<1> HIDE DEF q
<1>2. \A f \in ScenarioFields : f \notin SetLater => q[f] = r[f]
  BY <1>1 DEF SetLater
<1>3. /\ q.mode = r.mode /\ q.reload = r.reload /\ q.pacing = r.pacing
      /\ q.resumption = r.resumption /\ q.streams = r.streams
  BY <1>1, SMT DEF ScenarioFields
<1>4. EnabledRow(q)
  BY <1>2, <1>3, SetRow DEF WrittenRow, EnabledRow, Untouched, Modes
<1> QED
  BY <1>4 DEF q

\* A written row with a reload can be run, over TCP through one process.
LEMMA ReloadedRow ==
    ASSUME NEW r, WrittenRow(r), NEW action \in ReloadActions, NEW pacing, pacing \subseteq PacingFields,
           r.interface = "tcp", r.chain = "scg-direct", r.gateway
    PROVE  EnabledRow([r EXCEPT !.reload = action, !.pacing = pacing])
<1> DEFINE q == [r EXCEPT !.reload = action, !.pacing = pacing]
<1>0. DOMAIN r = ScenarioFields
  BY DEF WrittenRow
<1>1. \A f \in ScenarioFields : q[f] = IF f = "reload" THEN action
                                       ELSE IF f = "pacing" THEN pacing ELSE r[f]
  BY <1>0, Zenon
<1> HIDE DEF q
<1>2. \A f \in ScenarioFields : f \notin SetLater => q[f] = r[f]
  BY <1>1 DEF SetLater
<1>3. /\ q.mode = r.mode /\ q.reload = action /\ q.pacing = pacing
      /\ q.resumption = r.resumption /\ q.streams = r.streams
  BY <1>1, SMT DEF ScenarioFields
<1>4. EnabledRow(q)
  BY <1>2, <1>3, SetRow DEF WrittenRow, EnabledRow, Untouched, Modes
<1> QED
  BY <1>4 DEF q

\* A written row of a comparison can be run.
LEMMA ComparedRow ==
    ASSUME NEW r, WrittenRow(r), NEW mode \in Modes, mode # "connrate", NEW group
    PROVE  EnabledRow([r EXCEPT !.mode = mode, !.comparison = group])
<1> DEFINE q == [r EXCEPT !.mode = mode, !.comparison = group]
<1>0. DOMAIN r = ScenarioFields
  BY DEF WrittenRow
<1>1. \A f \in ScenarioFields : q[f] = IF f = "mode" THEN mode
                                       ELSE IF f = "comparison" THEN group ELSE r[f]
  BY <1>0, Zenon
<1> HIDE DEF q
<1>2. \A f \in ScenarioFields : f \notin SetLater => q[f] = r[f]
  BY <1>1 DEF SetLater
<1>3. /\ q.mode = mode /\ q.reload = r.reload /\ q.pacing = r.pacing
      /\ q.resumption = r.resumption /\ q.streams = r.streams
  BY <1>1, SMT DEF ScenarioFields
<1>4. EnabledRow(q)
  BY <1>2, <1>3, SetRow DEF WrittenRow, EnabledRow, Untouched
<1> QED
  BY <1>4 DEF q

\* A written row of resumed handshakes can be run, over TLS.
LEMMA ResumedRow ==
    ASSUME NEW r, WrittenRow(r), r.interface = "tcp", r.kind = "tls"
    PROVE  EnabledRow([r EXCEPT !.resumption = TRUE, !.mode = "connrate"])
<1> DEFINE q == [r EXCEPT !.resumption = TRUE, !.mode = "connrate"]
<1>0. DOMAIN r = ScenarioFields
  BY DEF WrittenRow
<1>1. \A f \in ScenarioFields : q[f] = IF f = "resumption" THEN TRUE
                                       ELSE IF f = "mode" THEN "connrate" ELSE r[f]
  BY <1>0, Zenon
<1> HIDE DEF q
<1>2. \A f \in ScenarioFields : f \notin SetLater => q[f] = r[f]
  BY <1>1 DEF SetLater
<1>3. /\ q.mode = "connrate" /\ q.reload = r.reload /\ q.pacing = r.pacing
      /\ q.streams = r.streams
  BY <1>1, SMT DEF ScenarioFields
<1>4. EnabledRow(q)
  BY <1>2, <1>3, SetRow DEF WrittenRow, EnabledRow, Untouched, Modes
<1> QED
  BY <1>4 DEF q

\* A written row with the two streams can be run, over plain TCP.
LEMMA StreamedRow ==
    ASSUME NEW r, WrittenRow(r), r.interface = "tcp", r.chain = "scg-direct", r.gateway,
           r.kind = "none", NEW streams, streams = SmokeStreamsRow.streams
    PROVE  EnabledRow([r EXCEPT !.streams = streams])
<1> DEFINE q == [r EXCEPT !.streams = streams]
<1>0. DOMAIN r = ScenarioFields
  BY DEF WrittenRow
<1>1. \A f \in ScenarioFields : q[f] = IF f = "streams" THEN streams ELSE r[f]
  BY <1>0, Zenon
<1> HIDE DEF q
<1>2. \A f \in ScenarioFields : f \notin SetLater => q[f] = r[f]
  BY <1>1 DEF SetLater
<1>3. /\ q.mode = r.mode /\ q.reload = r.reload /\ q.pacing = r.pacing
      /\ q.resumption = r.resumption /\ q.streams = streams
  BY <1>1, SMT DEF ScenarioFields
<1>4. EnabledRow(q)
  BY <1>2, <1>3, SetRow DEF WrittenRow, EnabledRow, Untouched, Modes
<1> QED
  BY <1>4 DEF q

\* The protocol of a row that is only read, and a row put out of use.
Readable(t) ==
    /\ t.kind \in ProtocolTypes /\ t.version \in TlsVersions
    /\ t.protection \in ProtectionModes /\ t.app \in AppProtocols

Disabled(r) == [r EXCEPT !.enabled = FALSE]

\* A disabled row need only be read.
LEMMA DisabledRow ==
    ASSUME NEW name, NEW category, NEW interface \in Interfaces, NEW protocol,
           NEW gateway \in BOOLEAN,
           NEW chain, NEW size, NEW connections, NEW requires,
           name # <<>>, DOMAIN protocol \subseteq ProtocolFields,
           Readable(Stating(protocol, DefaultScenario))
    PROVE  BlockedRow(Disabled(Row(name, category, interface, protocol, gateway, chain, size,
                                   connections, requires)))
<1> DEFINE r == Row(name, category, interface, protocol, gateway, chain, size, connections, requires)
           t == Stating(protocol, DefaultScenario)
<1>0. RowSays(r, name, interface, protocol, gateway, chain, requires)
  BY RowFields
<1>1. /\ DOMAIN r = ScenarioFields
      /\ r.name = name /\ r.interface = interface /\ r.addr = SenderAddr(interface)
      /\ r.gateway = gateway /\ r.chain = chain /\ r.requires = requires
      /\ r.enabled = TRUE /\ r.mode = "throughput" /\ r.streams = <<>> /\ r.reload = Absent
      /\ r.resumption = FALSE
      /\ Untouched(r) /\ SameProtocol(r, Stating(protocol, DefaultScenario))
  BY <1>0 DEF RowSays
<1>10. /\ t.kind \in ProtocolTypes /\ t.version \in TlsVersions
       /\ t.protection \in ProtectionModes /\ t.app \in AppProtocols
  BY DEF Readable
<1> HIDE DEF r
<1> DEFINE q == [r EXCEPT !.enabled = FALSE]
<1>2. \A f \in ScenarioFields : f # "enabled" => q[f] = r[f]
  BY <1>1, Zenon
<1>9. q.enabled = FALSE
  <2>1. "enabled" \in DOMAIN r
    BY <1>1 DEF ScenarioFields
  <2> QED
    BY <2>1, Zenon
<1> HIDE DEF q
<1>3. /\ q.name = r.name /\ q.interface = r.interface /\ q.addr = r.addr
      /\ q.mode = r.mode /\ q.pattern = r.pattern /\ q.pacing = r.pacing /\ q.kind = r.kind
      /\ q.version = r.version /\ q.protection = r.protection /\ q.app = r.app
      /\ q.certs = r.certs /\ q.topology = r.topology /\ q.reload = r.reload
      /\ q.streams = r.streams
  BY <1>2, SMT DEF ScenarioFields
<1>4. SenderAddr(interface) \in AddressForms
  BY DEF SenderAddr, AddressForms
<1>5. ToSet(<<>>) = {}
  BY DEF ToSet
<1>6. /\ r.kind = t.kind /\ r.version = t.version /\ r.protection = t.protection /\ r.app = t.app
  BY <1>1 DEF SameProtocol
<1>7. r.pattern = "sustained" /\ r.pacing \subseteq PacingFields /\ r.certs = {} /\ r.topology = "loopback"
  BY <1>1 DEF Untouched
<1>8. Deserializes(q)
  BY <1>1, <1>10, <1>3, <1>4, <1>5, <1>6, <1>7 DEF Deserializes, Modes, Patterns, TopologyModes
<1> QED
  BY <1>1, <1>3, <1>8, <1>9 DEF BlockedRow, Disabled, q, r

\* A protocol that an interface carries, with the features that takes required.
Carried(protocol, interface, requires) ==
    /\ interface \in Interfaces /\ DOMAIN protocol \subseteq ProtocolFields
    /\ ProtocolFits(Stating(protocol, DefaultScenario), interface)
    /\ Takes(Stating(protocol, DefaultScenario).kind, interface) \subseteq requires

KindOf(protocol) == Stating(protocol, DefaultScenario).kind

WrittenFor(r, interface, protocol, gateway, chain) ==
    /\ WrittenRow(r) /\ r.interface = interface /\ r.chain = chain /\ r.gateway = gateway
    /\ r.kind = KindOf(protocol)

\* A row of it is written as it should be.
LEMMA WrittenIfCarried ==
    ASSUME NEW name, NEW category, NEW interface, NEW protocol, NEW gateway \in BOOLEAN,
           NEW chain, NEW size, NEW connections, NEW requires,
           name # <<>>, Carried(protocol, interface, requires),
           ~gateway => KindOf(protocol) = "none" /\ interface \in {"tcp", "udp"}
    PROVE  WrittenFor(Row(name, category, interface, protocol, gateway, chain, size, connections,
                          requires), interface, protocol, gateway, chain)
BY RowIsWritten DEF Carried, KindOf, WrittenFor

\* The protocols that the generator writes itself.
LEMMA FixedProtocols ==
    /\ \A i \in Interfaces : \A requires : Takes("none", i) \subseteq requires =>
          Carried(Plain, i, requires) /\ Carried([kind |-> "none"], i, requires)
    /\ KindOf(Plain) = "none" /\ KindOf([kind |-> "none"]) = "none"
    /\ \A v \in {"1.2", "1.3"} : /\ Carried(Tls(v), "tcp", {"openssl"})
                                 /\ Carried(KernelTls(v), "tcp", {"openssl", "ktls"})
                                 /\ KindOf(Tls(v)) = "tls"
    /\ Carried([kind |-> "dtls", version |-> "1.2"], "udp", {"openssl"})
<1> DEFINE d == DefaultScenario
<1>0. /\ DOMAIN d = ScenarioFields
      /\ d.kind = "none" /\ d.version = "1.3" /\ d.protection = "full" /\ d.kernel = FALSE
      /\ d.mutual = FALSE /\ d.app = "none"
  BY DefaultFields
<1> HIDE DEF d
<1>1. ASSUME NEW P, P \in {Plain, [kind |-> "none"]}
      PROVE  LET t == Stating(P, d) IN
             /\ DOMAIN P \subseteq ProtocolFields /\ t.kind = "none" /\ t.version = "1.3"
             /\ t.protection \in ProtectionModes /\ t.kernel = FALSE /\ t.mutual = FALSE
             /\ t.app = "none"
  <2>1. CASE P = Plain
    BY <1>0, <2>1, SMT DEF Plain, Stating, ScenarioFields, ProtocolFields, ProtectionModes
  <2>2. CASE P = [kind |-> "none"]
    BY <1>0, <2>2, SMT DEF Stating, ScenarioFields, ProtocolFields, ProtectionModes
  <2> QED
    BY <1>1, <2>1, <2>2
<1>2. ASSUME NEW v \in {"1.2", "1.3"}, NEW P, P \in {Tls(v), KernelTls(v)}
      PROVE  LET t == Stating(P, d) IN
             /\ DOMAIN P \subseteq ProtocolFields /\ t.kind = "tls" /\ t.version = v
             /\ t.protection = "full" /\ t.kernel \in BOOLEAN /\ t.mutual = FALSE
             /\ t.app = "none"
  <2> DEFINE t == Stating(P, d)
  <2>1. \A f \in ScenarioFields : t[f] = IF f \in DOMAIN P THEN P[f] ELSE d[f]
    BY <1>0 DEF Stating
  <2>2. /\ DOMAIN P \subseteq ProtocolFields /\ {"kind", "version"} \subseteq DOMAIN P
        /\ DOMAIN P \subseteq {"kind", "version", "kernel"}
        /\ P["kind"] = "tls" /\ P["version"] = v
    BY <1>2, SMT DEF Tls, KernelTls, ProtocolFields
  <2>3. "kernel" \in DOMAIN P => P["kernel"] = TRUE
    BY <1>2, SMT DEF Tls, KernelTls
  <2> HIDE DEF t
  <2>4. t.kind = "tls" /\ t.version = v /\ t.protection = "full" /\ t.mutual = FALSE /\ t.app = "none"
    BY <1>0, <2>1, <2>2, SMT DEF ScenarioFields
  <2>5. t.kernel \in BOOLEAN
    <3>1. "kernel" \in ScenarioFields
      BY DEF ScenarioFields
    <3>2. t["kernel"] = IF "kernel" \in DOMAIN P THEN P["kernel"] ELSE d["kernel"]
      BY <2>1, <3>1, Zenon
    <3>3. d["kernel"] = FALSE
      BY <1>0, Zenon
    <3> QED
      BY <2>3, <3>2, <3>3, Zenon
  <2> QED
    BY <2>2, <2>4, <2>5 DEF t
<1>3. LET P == [kind |-> "dtls", version |-> "1.2"]
          t == Stating(P, d) IN
             /\ DOMAIN P \subseteq ProtocolFields /\ t.kind = "dtls" /\ t.version = "1.2"
             /\ t.protection = "full" /\ t.kernel = FALSE /\ t.mutual = FALSE
             /\ t.app = "none"
  BY <1>0, SMT DEF Stating, ScenarioFields, ProtocolFields
<1>4. ASSUME NEW P, P \in {Plain, [kind |-> "none"]}, NEW i \in Interfaces, NEW requires,
             Takes("none", i) \subseteq requires
      PROVE  Carried(P, i, requires) /\ KindOf(P) = "none"
  BY <1>1, <1>4 DEF Carried, ProtocolFits, KindOf, d, TlsVersions, AppProtocols
<1>5. ASSUME NEW v \in {"1.2", "1.3"}
      PROVE  /\ Carried(Tls(v), "tcp", {"openssl"}) /\ KindOf(Tls(v)) = "tls"
             /\ Carried(KernelTls(v), "tcp", {"openssl", "ktls"})
  BY <1>2, <1>5 DEF Carried, ProtocolFits, KindOf, d, TlsVersions, AppProtocols, Takes, Interfaces,
                     ProtectionModes
<1>6. Carried([kind |-> "dtls", version |-> "1.2"], "udp", {"openssl"})
  BY <1>3 DEF Carried, ProtocolFits, KindOf, d, TlsVersions, AppProtocols, Takes, Interfaces,
              ProtectionModes
<1>7. KindOf(Plain) = "none" /\ KindOf([kind |-> "none"]) = "none"
  BY <1>1 DEF KindOf, d
<1> QED
  BY <1>4, <1>5, <1>6, <1>7

\* The rows of a coherent profile are written well.
LEMMA ProfileRowWritten ==
    ASSUME NEW p, CoherentProfile(p), NEW interface \in ToSet(p.interfaces), NEW name, name # <<>>,
           NEW category, NEW chain, NEW size, NEW connections
    PROVE  WrittenRow(ProfileRow(name, category, p, interface, chain, size, connections))
<1>1. ToSet(p.interfaces) \subseteq Interfaces
  BY ListOver DEF CoherentProfile
<1>2. Carried(p.protocol, interface, p.requires)
  BY <1>1 DEF CoherentProfile, Carried
<1> QED
  BY <1>2, WrittenIfCarried DEF ProfileRow, WrittenFor

\* What a list is.
LEMMA ListFacts ==
    ASSUME NEW q, IsList(q)
    PROVE  /\ Len(q) \in Nat /\ DOMAIN q = 1..Len(q) /\ q = [i \in 1..Len(q) |-> q[i]]
           /\ \A i \in DOMAIN q : q[i] \in ToSet(q)
<1>1. q \in Seq(ToSet(q))
  BY DEF IsList
<1>2. DOMAIN q = 1..Len(q) /\ Len(q) \in Nat /\ q \in [1..Len(q) -> ToSet(q)]
  BY <1>1, LenProperties
<1> QED
  BY <1>2 DEF ToSet

\* A table over the first n numbers is a list.
LEMMA TableIsList ==
    ASSUME NEW n \in Nat, NEW q, q = [i \in 1..n |-> q[i]]
    PROVE  IsList(q)
<1>1. DOMAIN q = 1..n
  OBVIOUS
<1>2. ToSet(q) = {q[i] : i \in 1..n}
  BY <1>1 DEF ToSet
<1>3. q \in [1..n -> ToSet(q)]
  BY <1>2
<1>4. q \in Seq(ToSet(q))
  BY <1>3
<1> QED
  BY <1>4 DEF IsList

\* What GoodFlat and GoodTable say of the rows made from the elements of a list.
LEMMA GoodFlatOf ==
    ASSUME NEW e, IsList(e), NEW q, q = [i \in DOMAIN e |-> q[i]],
           \A i \in DOMAIN e : GoodList(q[i])
    PROVE  GoodList(FlattenSeq(q))
<1> DEFINE n == Len(e)
<1>1. n \in Nat /\ DOMAIN e = 1..n
  BY ListFacts
<1> HIDE DEF n
<1> QED
  BY <1>1, GoodFlat

\* A table of good rows over the places of a list is a good list.
LEMMA GoodTableOf ==
    ASSUME NEW e, IsList(e), NEW q, q = [i \in DOMAIN e |-> q[i]],
           \A i \in DOMAIN e : GoodRow(q[i])
    PROVE  GoodList(q)
<1> DEFINE n == Len(e)
<1>1. n \in Nat /\ DOMAIN e = 1..n
  BY ListFacts
<1> HIDE DEF n
<1> QED
  BY <1>1, GoodTable

Tiers == {"catalog", "everything", "canonical", "nightly"}

\* A list has finitely many elements.
LEMMA ListToSetFinite ==
    ASSUME NEW q, IsList(q)
    PROVE  IsFiniteSet(ToSet(q))
<1> DEFINE n == Len(q)
<1>1. n \in Nat /\ DOMAIN q = 1..n /\ ToSet(q) = {q[i] : i \in 1..n}
  BY ListFacts DEF ToSet
<1> HIDE DEF n
<1>2. IsFiniteSet(1..n)
  BY <1>1, FS_Interval
<1>3. q \in [1..n -> ToSet(q)] 
  BY <1>1, ListFacts DEF n
<1>4. \A x \in ToSet(q) : \E i \in 1..n : q[i] = x
  BY <1>1
<1>5. q \in Surjection(1..n, ToSet(q))
  BY <1>3, <1>4 DEF Surjection
<1> QED
  BY <1>2, <1>5, FS_Surjection

\* The numbers of connections of a tier form a list.
LEMMA LadderIsList ==
    ASSUME NEW m, Coherent(m), NEW p, NEW tier \in Tiers
    PROVE  IsList(Ladder(m, p, tier))
<1> DEFINE a == m.dims.nightly_connections
           b == m.dims.scalability_connections
           u == UnionConnections(a, b)
           n == Cardinality(ToSet(a) \cup ToSet(b))
<1>1. IsList(a) /\ IsList(b) /\ IsList(m.dims.catalog_connections)
      /\ IsList(m.dims.canonical_connections)
  BY DEF Coherent
<1>2. n \in Nat
  BY <1>1, ListToSetFinite, FS_Union, FS_CardinalityType
<1>3. u = [i \in 1..n |-> u[i]]
  BY DEF UnionConnections
<1> HIDE DEF n
<1>4. IsList(u)
  BY <1>2, <1>3, TableIsList
<1> HIDE DEF a, b, u
<1>5. Ladder(m, p, tier) \in {m.dims.catalog_connections, m.dims.canonical_connections, a, u}
  BY DEF Ladder, Tiers, a, b, u
<1> QED
  BY <1>1, <1>4, <1>5

\* The throughput rows of a cell of the matrix.
LEMMA GoodGrid ==
    ASSUME NEW p, CoherentProfile(p), NEW interface \in ToSet(p.interfaces), NEW chain, NEW size,
           NEW ladder, IsList(ladder)
    PROVE  GoodList(GridRows(p, interface, chain, size, ladder))
<1> DEFINE sift == [i \in DOMAIN ladder |-> IF Allows(p, ladder[i]) THEN <<ladder[i]>> ELSE <<>>]
           allowed == FlattenSeq(sift)
           q == GridRows(p, interface, chain, size, ladder)
<1>1. q = [i \in DOMAIN allowed |->
             ProfileRow(<<"matrix", p.id, interface, size, chain, allowed[i]>>, "matrix",
                        p, interface, chain, size, allowed[i])]
  BY DEF GridRows, Passing, FlatMap
<1>2. sift = [i \in DOMAIN ladder |-> sift[i]]
      /\ \A i \in DOMAIN ladder : sift[i] \in {<<ladder[i]>>, <<>>}
  OBVIOUS
<1> HIDE DEF sift
<1>3. IsList(allowed)
  BY <1>2, Sifted
<1> HIDE DEF q, allowed
<1>4. ASSUME NEW i \in DOMAIN allowed PROVE GoodRow(q[i])
  <2> DEFINE name == <<"matrix", p.id, interface, size, chain, allowed[i]>>
  <2>1. name # <<>>
    OBVIOUS
  <2>2. q[i] = ProfileRow(name, "matrix", p, interface, chain, size, allowed[i])
    BY <1>1
  <2> HIDE DEF name
  <2> QED
    BY <2>1, <2>2, ProfileRowWritten DEF WrittenRow, GoodRow
<1>5. q = [i \in DOMAIN allowed |-> q[i]]
  BY <1>1
<1>6. GoodList(q)
  BY <1>3, <1>4, <1>5, GoodTableOf
<1> QED
  BY <1>6 DEF q

\* The ping-pong row of a cell of the matrix.
LEMMA GoodLatency ==
    ASSUME NEW p, CoherentProfile(p), NEW interface \in ToSet(p.interfaces), NEW chain, NEW size,
           NEW tier
    PROVE  GoodList(LatencyRows(p, interface, chain, size, tier))
<1> DEFINE name == <<"matrix_lat", p.id, interface, size>>
           r == ProfileRow(name, "matrix-latency", p, interface, chain, size, 1)
           q == [r EXCEPT !.mode = "pingpong"]
<1>1. name # <<>>
  OBVIOUS
<1>2. LatencyRows(p, interface, chain, size, tier) \in {<<q>>, <<>>}
  BY DEF LatencyRows
<1> HIDE DEF name
<1>3. WrittenRow(r)
  BY <1>1, ProfileRowWritten
<1> HIDE DEF r
<1>4. EnabledRow(q)
  BY <1>3, ModeRow DEF Modes
<1> HIDE DEF q
<1> QED
  BY <1>2, <1>4, GoodOne, GoodNone DEF GoodRow

\* The sizes of a profile are a list.
LEMMA SizesAreList ==
    ASSUME NEW m, Coherent(m), NEW p
    PROVE  IsList(ProfileSizes(m, p))
<1> DEFINE e == m.dims.datagram_sizes
           sift == [i \in DOMAIN e |-> IF e[i] <= DatagramSizeCap(p.protocol) THEN <<e[i]>> ELSE <<>>]
<1>1. IsList(e) /\ IsList(m.dims.stream_sizes)
  BY DEF Coherent
<1>2. ProfileSizes(m, p) = IF p.datagram THEN FlattenSeq(sift) ELSE m.dims.stream_sizes
  BY DEF ProfileSizes, Passing, FlatMap
<1>3. sift = [i \in DOMAIN e |-> sift[i]] /\ \A i \in DOMAIN e : sift[i] \in {<<e[i]>>, <<>>}
  OBVIOUS
<1> HIDE DEF sift, e
<1>4. IsList(FlattenSeq(sift))
  BY <1>1, <1>3, Sifted
<1> QED
  BY <1>1, <1>2, <1>4

\* One element is a list.
LEMMA OneIsList == ASSUME NEW x PROVE IsList(<<x>>)
<1>1. <<x>> \in Seq({x}) /\ ToSet(<<x>>) = {x}
  BY DEF ToSet
<1> QED
  BY <1>1 DEF IsList

\* A list that is not empty has a first element.
LEMMA FirstIn ==
    ASSUME NEW q, IsList(q), q # <<>>
    PROVE  q[1] \in ToSet(q)
<1>1. q \in Seq(ToSet(q))
  BY DEF IsList
<1>2. Len(q) \in Nat /\ Len(q) # 0 /\ DOMAIN q = 1..Len(q)
  BY <1>1, EmptySeq, LenProperties
<1>3. 1 \in DOMAIN q
  BY <1>2
<1> QED
  BY <1>3, ListFacts

\* All rows of a profile in a tier.
LEMMA GoodProfile ==
    ASSUME NEW m, Coherent(m), NEW p, CoherentProfile(p), NEW tier \in Tiers
    PROVE  GoodList(ProfileRows(m, p, tier))
<1> DEFINE sizes == IF tier = "canonical" THEN <<CanonicalSize(m, p)>> ELSE ProfileSizes(m, p)
           ladder == Ladder(m, p, tier)
           Cells(interface, chain) ==
              [k \in DOMAIN sizes |-> GridRows(p, interface, chain, sizes[k], ladder)
                                       \o LatencyRows(p, interface, chain, sizes[k], tier)]
           Across(interface) == [j \in DOMAIN p.chains |-> FlattenSeq(Cells(interface, p.chains[j]))]
           all == [i \in DOMAIN p.interfaces |-> FlattenSeq(Across(p.interfaces[i]))]
<1>1. ProfileRows(m, p, tier) = FlattenSeq(all)
  BY DEF ProfileRows, FlatMap
<1>2. IsList(sizes)
  BY SizesAreList, OneIsList
<1>3. IsList(ladder)
  BY LadderIsList
<1>4. IsList(p.interfaces) /\ IsList(p.chains)
  BY ListOver DEF CoherentProfile
<1> HIDE DEF sizes, ladder
<1>5. ASSUME NEW interface \in ToSet(p.interfaces), NEW chain
      PROVE  GoodList(FlattenSeq(Cells(interface, chain)))
  <2> DEFINE q == Cells(interface, chain)
  <2>1. q = [k \in DOMAIN sizes |-> q[k]]
    OBVIOUS
  <2>2. ASSUME NEW k \in DOMAIN sizes PROVE GoodList(q[k])
    <3>1. q[k] = GridRows(p, interface, chain, sizes[k], ladder)
                   \o LatencyRows(p, interface, chain, sizes[k], tier)
      OBVIOUS
    <3> QED
      BY <1>3, <3>1, GoodGrid, GoodLatency, GoodConcat
  <2> HIDE DEF q, Cells
  <2>3. GoodList(FlattenSeq(q))
    BY <1>2, <2>1, <2>2, GoodFlatOf
  <2> QED
    BY <2>3 DEF q
<1> HIDE DEF Cells
<1>6. ASSUME NEW interface \in ToSet(p.interfaces)
      PROVE  GoodList(FlattenSeq(Across(interface)))
  <2> DEFINE q == Across(interface)
  <2>1. q = [j \in DOMAIN p.chains |-> q[j]]
    OBVIOUS
  <2>2. \A j \in DOMAIN p.chains : GoodList(q[j])
    BY <1>5
  <2> HIDE DEF q, Across
  <2>3. GoodList(FlattenSeq(q))
    BY <1>4, <2>1, <2>2, GoodFlatOf
  <2> QED
    BY <2>3 DEF q
<1> HIDE DEF Across
<1>7. all = [i \in DOMAIN p.interfaces |-> all[i]]
  OBVIOUS
<1>8. \A i \in DOMAIN p.interfaces : GoodList(all[i])
  BY <1>4, <1>6, ListFacts
<1> HIDE DEF all
<1> QED
  BY <1>1, <1>4, <1>7, <1>8, GoodFlatOf

\* The message sizes of the cipher rows form a list.
LEMMA CipherSizesAreList ==
    ASSUME NEW tier, NEW canonical, NEW sizes, IsList(sizes), NEW preferred
    PROVE  IsList(CipherSizes(tier, canonical, sizes, preferred))
<1> DEFINE sift == [i \in DOMAIN sizes |-> IF sizes[i] \in preferred THEN <<sizes[i]>> ELSE <<>>]
           grid == FlattenSeq(sift)
<1>1. CipherSizes(tier, canonical, sizes, preferred) \in {<<canonical>>, grid}
  BY DEF CipherSizes, Passing, FlatMap
<1>2. sift = [i \in DOMAIN sizes |-> sift[i]]
      /\ \A i \in DOMAIN sizes : sift[i] \in {<<sizes[i]>>, <<>>}
  OBVIOUS
<1> HIDE DEF sift
<1>3. IsList(grid)
  BY <1>2, Sifted
<1> HIDE DEF grid
<1> QED
  BY <1>1, <1>3, OneIsList

\* A row of a cipher suite.
LEMMA GoodCipher ==
    ASSUME NEW prefix, NEW engine, NEW interface, NEW protocol, NEW suite1, NEW requires, NEW size,
           Carried(protocol, interface, requires)
    PROVE  GoodRow(CipherRow(prefix, engine, interface, protocol, suite1, requires, size))
<1> DEFINE name == <<prefix, engine, protocol.version, suite1, size>>
           r == Row(name, "cipher-matrix", interface, protocol, TRUE, "scg-direct", size, 1, requires)
<1>1. name # <<>>
  OBVIOUS
<1>2. CipherRow(prefix, engine, interface, protocol, suite1, requires, size)
         = [r EXCEPT !.cipher = suite1]
  BY DEF CipherRow
<1> HIDE DEF name
<1>3. WrittenRow(r)
  BY <1>1, WrittenIfCarried DEF WrittenFor
<1> HIDE DEF r
<1> QED
  BY <1>2, <1>3, CipheredRow DEF GoodRow

\* Two good rows are a good list.
LEMMA GoodTwo ==
    ASSUME NEW a, NEW b, GoodRow(a), GoodRow(b)
    PROVE  GoodList(<<a, b>>)
<1> DEFINE R == {a, b}
           q == <<a, b>>
<1>1. q \in Seq(R)
  OBVIOUS
<1>2. \A r \in R : GoodRow(r)
  OBVIOUS
<1> HIDE DEF R, q
<1>3. GoodList(q)
  BY <1>1, <1>2, ListOver DEF GoodList
<1> QED
  BY <1>3 DEF q

\* The rows of a cipher suite over streams: in userspace and in the kernel.
LEMMA GoodStreamCipher ==
    ASSUME NEW prefix, NEW version \in {"1.2", "1.3"}, NEW suite1, NEW size
    PROVE  GoodList(StreamCipherRows(prefix, version, suite1, size))
<1> DEFINE a == CipherRow(prefix, "tls", "tcp", Tls(version), suite1, {"openssl"}, size)
           b == CipherRow(prefix, "ktls", "tcp", KernelTls(version), suite1, {"openssl", "ktls"}, size)
<1>1. GoodRow(a) /\ GoodRow(b)
  BY FixedProtocols, GoodCipher
<1>2. StreamCipherRows(prefix, version, suite1, size) = <<a, b>>
  BY DEF StreamCipherRows
<1> HIDE DEF a, b
<1>3. GoodList(<<a, b>>)
  BY <1>1, GoodTwo
<1> QED
  BY <1>2, <1>3

\* The row of a cipher suite over datagrams.
LEMMA GoodDatagramCipher ==
    ASSUME NEW prefix, NEW suite1, NEW size
    PROVE  GoodRow(DatagramCipherRow(prefix, suite1, size))
BY FixedProtocols, GoodCipher DEF DatagramCipherRow

\* The suites a tier takes form a list.
LEMMA SuitesAreList ==
    ASSUME NEW q, IsList(q)
    PROVE  IsList(FirstOf(q)) /\ \A tier : IsList(SuitesOf(tier, q))
<1>1. IsList(<<>>)
  BY GoodNone DEF GoodList
<1> QED
  BY <1>1, OneIsList DEF FirstOf, SuitesOf

\* The cipher rows of a tier.
LEMMA GoodCiphers ==
    ASSUME NEW m, Coherent(m), NEW tier
    PROVE  GoodList(CipherRows(m, tier))
<1> DEFINE stream == CipherSizes(tier, m.dims.canonical_stream, m.dims.stream_sizes,
                                 {1024, m.dims.canonical_stream, 16384})
           dgram  == CipherSizes(tier, m.dims.canonical_datagram, m.dims.datagram_sizes,
                                 {256, m.dims.canonical_datagram, 1400})
           old == SuitesOf(tier, m.tls12)
           new == SuitesOf(tier, m.tls13)
           Streams(version, suite1) ==
              [i \in DOMAIN stream |-> StreamCipherRows("cipher", version, suite1, stream[i])]
           Packets(suite1) == [i \in DOMAIN dgram |-> DatagramCipherRow("cipher", suite1, dgram[i])]
           a == [i \in DOMAIN old |-> FlattenSeq(Streams("1.2", old[i]))]
           b == [i \in DOMAIN new |-> FlattenSeq(Streams("1.3", new[i]))]
           c == [i \in DOMAIN old |-> Packets(old[i])]
<1>1. CipherRows(m, tier) = (FlattenSeq(a) \o FlattenSeq(b)) \o FlattenSeq(c)
  BY DEF CipherRows, FlatMap
<1>2. IsList(stream) /\ IsList(dgram) /\ IsList(old) /\ IsList(new)
  BY CipherSizesAreList, SuitesAreList DEF Coherent
<1> HIDE DEF stream, dgram, old, new
<1>3. ASSUME NEW version \in {"1.2", "1.3"}, NEW suite1
      PROVE  GoodList(FlattenSeq(Streams(version, suite1)))
  <2> DEFINE q == Streams(version, suite1)
  <2>1. q = [i \in DOMAIN stream |-> q[i]]
    OBVIOUS
  <2>2. \A i \in DOMAIN stream : GoodList(q[i])
    BY GoodStreamCipher
  <2> HIDE DEF q, Streams
  <2>3. GoodList(FlattenSeq(q))
    BY <1>2, <2>1, <2>2, GoodFlatOf
  <2> QED
    BY <2>3 DEF q
<1>4. ASSUME NEW suite1 PROVE GoodList(Packets(suite1))
  <2> DEFINE q == Packets(suite1)
  <2>1. q = [i \in DOMAIN dgram |-> q[i]]
    OBVIOUS
  <2>2. \A i \in DOMAIN dgram : GoodRow(q[i])
    BY GoodDatagramCipher
  <2> HIDE DEF q, Packets
  <2>3. GoodList(q)
    BY <1>2, <2>1, <2>2, GoodTableOf
  <2> QED
    BY <2>3 DEF q
<1> HIDE DEF Streams, Packets
<1>5. /\ a = [i \in DOMAIN old |-> a[i]] /\ \A i \in DOMAIN old : GoodList(a[i])
      /\ b = [i \in DOMAIN new |-> b[i]] /\ \A i \in DOMAIN new : GoodList(b[i])
      /\ c = [i \in DOMAIN old |-> c[i]] /\ \A i \in DOMAIN old : GoodList(c[i])
  BY <1>3, <1>4
<1> HIDE DEF a, b, c
<1>6. GoodList(FlattenSeq(a)) /\ GoodList(FlattenSeq(b)) /\ GoodList(FlattenSeq(c))
  BY <1>2, <1>5, GoodFlatOf
<1> QED
  BY <1>1, <1>6, GoodConcat

\* A row that measures handshakes.
LEMMA GoodHandshake ==
    ASSUME NEW prefix, NEW axis, NEW c
    PROVE  GoodRow(HandshakeRow(prefix, axis, c))
<1> DEFINE name == <<prefix, axis, c>>
           r == Row(name, "handshake-auth", "tcp", Tls("1.3"), TRUE, "scg-direct", 64, c, {"openssl"})
<1>1. name # <<>>
  OBVIOUS
<1>2. HandshakeRow(prefix, axis, c) = [r EXCEPT !.mode = "connrate"]
  BY DEF HandshakeRow
<1> HIDE DEF name
<1>3. WrittenFor(r, "tcp", Tls("1.3"), TRUE, "scg-direct")
  BY <1>1, FixedProtocols, WrittenIfCarried
<1> HIDE DEF r
<1>4. WrittenRow(r) /\ r.interface = "tcp"
  BY <1>3 DEF WrittenFor
<1>5. EnabledRow([r EXCEPT !.mode = "connrate"])
  BY <1>4, ModeRow DEF Modes
<1> QED
  BY <1>2, <1>5 DEF GoodRow

\* The axes of the handshakes form a list.
LEMMA AxesAreList == IsList(HandshakeAxes)
<1> DEFINE R == {"ecdsa", "rsa", "kex-x25519", "kex-p256"}
<1>1. HandshakeAxes \in Seq(R)
  BY DEF HandshakeAxes
<1> HIDE DEF R
<1> QED
  BY <1>1, ListOver

\* The handshake rows of a tier.
LEMMA GoodHandshakes ==
    ASSUME NEW tier
    PROVE  GoodList(HandshakeRows(tier))
<1> DEFINE widths == IF tier = "canonical" THEN <<4>> ELSE <<1, 4>>
           Cells(axis) == [i \in DOMAIN widths |-> HandshakeRow("handshake", axis, widths[i])]
           q == [i \in DOMAIN HandshakeAxes |-> Cells(HandshakeAxes[i])]
<1>1. HandshakeRows(tier) = FlattenSeq(q)
  BY DEF HandshakeRows, FlatMap
<1>2. IsList(widths)
  <2> DEFINE R == {1, 4}
  <2>0. <<4>> \in Seq(R) /\ <<1, 4>> \in Seq(R)
    OBVIOUS
  <2>1. widths \in Seq(R)
    <3> HIDE DEF R
    <3> QED
      BY <2>0
  <2> HIDE DEF R, widths
  <2> QED
    BY <2>1, ListOver
<1> HIDE DEF widths
<1>3. ASSUME NEW axis PROVE GoodList(Cells(axis))
  <2> DEFINE t == Cells(axis)
  <2>1. t = [i \in DOMAIN widths |-> t[i]] /\ \A i \in DOMAIN widths : GoodRow(t[i])
    BY GoodHandshake
  <2> HIDE DEF t, Cells
  <2>2. GoodList(t)
    BY <1>2, <2>1, GoodTableOf
  <2> QED
    BY <2>2 DEF t
<1> HIDE DEF Cells
<1>4. q = [i \in DOMAIN HandshakeAxes |-> q[i]]
      /\ \A i \in DOMAIN HandshakeAxes : GoodList(q[i])
  BY <1>3
<1> HIDE DEF q
<1> QED
  BY <1>1, <1>4, AxesAreList, GoodFlatOf

\* The rows of the limitations: disabled, and read all the same.
LEMMA GoodBlocked ==
    ASSUME NEW m, Coherent(m)
    PROVE  GoodList(BlockedRows(m))
<1> DEFINE ls == m.limitations
           Raw(l) == Row(<<"blocked", l.name>>, "unsupported", l.interface, l.protocol, TRUE, l.chain,
                         1024, 1, {})
           Off(l) == [Raw(l) EXCEPT !.enabled = FALSE]
           q == [i \in DOMAIN ls |-> Off(ls[i])]
<1>1. BlockedRows(m) = q
  BY DEF BlockedRows
<1>2. IsList(ls) /\ \A l \in ToSet(ls) : CoherentLimitation(l)
  BY DEF Coherent
<1> HIDE DEF ls
<1>3. ASSUME NEW l, CoherentLimitation(l) PROVE GoodRow(Off(l))
  <2> DEFINE name == <<"blocked", l.name>>
  <2>1. name # <<>>
    OBVIOUS
  <2>2. /\ DOMAIN l.protocol \subseteq ProtocolFields /\ l.interface \in Interfaces
        /\ Readable(Stating(l.protocol, DefaultScenario))
    BY <1>3 DEF CoherentLimitation, Readable
  <2> DEFINE yes == TRUE
  <2>3. Off(l) = Disabled(Row(name, "unsupported", l.interface, l.protocol, yes, l.chain, 1024, 1, {}))
        /\ yes \in BOOLEAN
    BY DEF Disabled
  <2> HIDE DEF name, Off, Raw, q, yes
  <2>4. BlockedRow(Disabled(Row(name, "unsupported", l.interface, l.protocol, yes, l.chain, 1024, 1,
                                {})))
    BY <2>1, <2>2, <2>3, DisabledRow
  <2> QED
    BY <2>3, <2>4 DEF GoodRow
<1> HIDE DEF Off
<1>4. q = [i \in DOMAIN ls |-> q[i]] /\ \A i \in DOMAIN ls : GoodRow(q[i])
  BY <1>2, <1>3, ListFacts
<1> HIDE DEF q
<1> QED
  BY <1>1, <1>2, <1>4, GoodTableOf

\* The rows of the four tiers are good.
LEMMA GoodTier ==
    ASSUME NEW m, Coherent(m), NEW tier \in Tiers
    PROVE  GoodList(ExpandProfiles(m, tier))
<1> DEFINE ps == m.profiles
           Of(p) == IF InTier(p, tier) THEN ProfileRows(m, p, tier) ELSE <<>>
           q == [i \in DOMAIN ps |-> Of(ps[i])]
           a == FlattenSeq(q)
<1>1. ExpandProfiles(m, tier) = ((a \o CipherRows(m, tier)) \o HandshakeRows(tier)) \o BlockedRows(m)
  BY DEF ExpandProfiles, FlatMap
<1>2. IsList(ps) /\ \A p \in ToSet(ps) : CoherentProfile(p)
  BY DEF Coherent
<1> HIDE DEF ps
<1>3. ASSUME NEW p, CoherentProfile(p) PROVE GoodList(Of(p))
  BY <1>3, GoodProfile, GoodNone
<1> HIDE DEF Of
<1>4. q = [i \in DOMAIN ps |-> q[i]] /\ \A i \in DOMAIN ps : GoodList(q[i])
  BY <1>2, <1>3, ListFacts
<1> HIDE DEF q
<1>5. GoodList(a)
  BY <1>2, <1>4, GoodFlatOf
<1> HIDE DEF a
<1> QED
  BY <1>1, <1>5, GoodCiphers, GoodHandshakes, GoodBlocked, GoodConcat

\* The reloads that a protocol is tried with.
LEMMA ActionsOfProtocol ==
    ASSUME NEW protocol
    PROVE  IsList(ReloadActionsOf(protocol)) /\ ToSet(ReloadActionsOf(protocol)) \subseteq ReloadActions
<1> DEFINE three == <<"add_connection", "remove_connection", "invalid_config">>
<1>1. three \in Seq(ReloadActions) /\ <<"rotate_cert">> \in Seq(ReloadActions)
      /\ <<>> \in Seq(ReloadActions)
  BY DEF ReloadActions
<1>2. ReloadActionsOf(protocol) \in {three \o <<"rotate_cert">>, three \o <<>>}
  BY DEF ReloadActionsOf
<1> HIDE DEF three
<1>3. ReloadActionsOf(protocol) \in Seq(ReloadActions)
  BY <1>1, <1>2, ConcatProperties
<1> QED
  BY <1>3, ListOver

\* A row that reloads.
LEMMA GoodReload ==
    ASSUME NEW name, name # <<>>, NEW category, NEW protocol, NEW requires, NEW size,
           NEW connections, NEW action \in ReloadActions, NEW limited \in BOOLEAN,
           Carried(protocol, "tcp", requires)
    PROVE  GoodRow(ReloadRow(name, category, protocol, requires, size, connections, action, limited))
<1> DEFINE r == Row(name, category, "tcp", protocol, TRUE, "scg-direct", size, connections, requires)
           pacing == IF limited THEN {"rate_limit_mbps"} ELSE {}
<1>1. ReloadRow(name, category, protocol, requires, size, connections, action, limited)
         = [r EXCEPT !.reload = action, !.pacing = pacing]
  BY DEF ReloadRow
<1>2. WrittenFor(r, "tcp", protocol, TRUE, "scg-direct")
  BY WrittenIfCarried
<1>3. pacing \subseteq PacingFields
  BY DEF PacingFields
<1> HIDE DEF r, pacing
<1>4. WrittenRow(r) /\ r.interface = "tcp" /\ r.chain = "scg-direct" /\ r.gateway
  BY <1>2 DEF WrittenFor
<1>5. EnabledRow([r EXCEPT !.reload = action, !.pacing = pacing])
  BY <1>3, <1>4, ReloadedRow
<1> QED
  BY <1>1, <1>5 DEF GoodRow

\* The hot-reload document.
LEMMA GoodHotreload ==
    ASSUME NEW m, Coherent(m)
    PROVE  GoodList(ExpandHotreload(m))
<1> DEFINE Actions(p, c, load) ==
              [i \in DOMAIN ReloadActionsOf(p.protocol) |->
                 ReloadRow(<<"hotreload", p.id, ReloadActionsOf(p.protocol)[i], load, c>>, "hotreload",
                           p.protocol, p.requires, m.dims.canonical_stream, c,
                           ReloadActionsOf(p.protocol)[i], load = "sub-saturation")]
           loads == <<"sub-saturation", "saturation">>
           widths == <<1, 4, 16, 64>>
           Loads(p, c) == [i \in DOMAIN loads |-> Actions(p, c, loads[i])]
           Of(p) == [i \in DOMAIN widths |-> FlattenSeq(Loads(p, widths[i]))]
           Either(p) == IF Reloadable(m, p) THEN FlattenSeq(Of(p)) ELSE <<>>
           ps == m.profiles
           q == [i \in DOMAIN ps |-> Either(ps[i])]
<1>1. ExpandHotreload(m) = FlattenSeq(q)
  BY DEF ExpandHotreload, FlatMap
<1>2. IsList(loads) /\ IsList(widths)
  <2>1. loads \in Seq({"sub-saturation", "saturation"}) /\ widths \in Seq(Nat)
    OBVIOUS
  <2> HIDE DEF loads, widths
  <2> QED
    BY <2>1, ListOver
<1>3. IsList(ps) /\ \A p \in ToSet(ps) : CoherentProfile(p)
  BY DEF Coherent
<1> HIDE DEF loads, widths, ps
<1>4. ASSUME NEW p, CoherentProfile(p), Reloadable(m, p) PROVE Carried(p.protocol, "tcp", p.requires)
  <2>1. p.interfaces = <<"tcp">>
    BY <1>4 DEF Reloadable
  <2>2. "tcp" \in ToSet(p.interfaces)
    BY <2>1 DEF ToSet
  <2> QED
    BY <1>4, <2>2 DEF CoherentProfile, Carried, Interfaces
<1>5. ASSUME NEW p, CoherentProfile(p), Reloadable(m, p), NEW c, NEW load
      PROVE  GoodList(Actions(p, c, load))
  <2> DEFINE as == ReloadActionsOf(p.protocol)
             t == Actions(p, c, load)
  <2>1. IsList(as) /\ ToSet(as) \subseteq ReloadActions
    BY ActionsOfProtocol
  <2>2. t = [i \in DOMAIN as |-> t[i]]
    OBVIOUS
  <2>3. ASSUME NEW i \in DOMAIN as PROVE GoodRow(t[i])
    <3> DEFINE name == <<"hotreload", p.id, as[i], load, c>>
               limited == load = "sub-saturation"
               size == m.dims.canonical_stream
    <3>1. t[i] = ReloadRow(name, "hotreload", p.protocol, p.requires, size, c, as[i], limited)
      OBVIOUS
    <3>2. name # <<>> /\ limited \in BOOLEAN
      OBVIOUS
    <3>3. as[i] \in ReloadActions
      BY <2>1, ListFacts
    <3> HIDE DEF t, name, limited, size
    <3> QED
      BY <1>4, <1>5, <3>1, <3>2, <3>3, GoodReload
  <2> HIDE DEF t, as
  <2>4. GoodList(t)
    BY <2>1, <2>2, <2>3, GoodTableOf
  <2> QED
    BY <2>4 DEF t
<1> HIDE DEF Actions
<1>6. ASSUME NEW p, CoherentProfile(p), Reloadable(m, p), NEW c
      PROVE  GoodList(FlattenSeq(Loads(p, c)))
  <2> DEFINE t == Loads(p, c)
  <2>1. t = [i \in DOMAIN loads |-> t[i]] /\ \A i \in DOMAIN loads : GoodList(t[i])
    BY <1>5, <1>6
  <2> HIDE DEF t, Loads
  <2>2. GoodList(FlattenSeq(t))
    BY <1>2, <2>1, GoodFlatOf
  <2> QED
    BY <2>2 DEF t
<1> HIDE DEF Loads
<1>7. ASSUME NEW p, CoherentProfile(p), Reloadable(m, p)
      PROVE  GoodList(FlattenSeq(Of(p)))
  <2> DEFINE t == Of(p)
  <2>1. t = [i \in DOMAIN widths |-> t[i]] /\ \A i \in DOMAIN widths : GoodList(t[i])
    BY <1>6, <1>7
  <2> HIDE DEF t, Of
  <2>2. GoodList(FlattenSeq(t))
    BY <1>2, <2>1, GoodFlatOf
  <2> QED
    BY <2>2 DEF t
<1> HIDE DEF Of
<1>8. ASSUME NEW p, CoherentProfile(p) PROVE GoodList(Either(p))
  BY <1>7, <1>8, GoodNone
<1> HIDE DEF Either
<1>9. q = [i \in DOMAIN ps |-> q[i]] /\ \A i \in DOMAIN ps : GoodList(q[i])
  BY <1>3, <1>8, ListFacts
<1> HIDE DEF q
<1> QED
  BY <1>1, <1>3, <1>9, GoodFlatOf

\* A row of the comparison of interfaces.
LEMMA GoodCompared ==
    ASSUME NEW path1, CoherentPath(path1), NEW kind \in {"throughput", "latency"}, NEW size,
           NEW connections
    PROVE  GoodRow(ComparisonRow(path1, kind, size, connections))
<1> DEFINE name == <<"iface", path1.id, kind, size, connections>>
           r == Row(name, kind, path1.interface, Plain, path1.gateway, "scg-direct", size, connections,
                    path1.requires)
           mode == IF kind = "latency" THEN "pingpong" ELSE "throughput"
           group == [group |-> <<kind, size, connections>>,
                     calibration |-> IF kind = "latency" THEN <<"throughput", size, connections>>
                                     ELSE <<>>]
<1>1. ComparisonRow(path1, kind, size, connections) = [r EXCEPT !.mode = mode, !.comparison = group]
  BY DEF ComparisonRow
<1>2. name # <<>> /\ mode \in Modes /\ mode # "connrate"
  BY DEF Modes
<1>3. /\ path1.interface \in Interfaces /\ path1.gateway \in BOOLEAN
      /\ ~path1.gateway => path1.interface \in {"tcp", "udp"}
      /\ Takes("none", path1.interface) \subseteq path1.requires
  BY DEF CoherentPath
<1>4. Carried(Plain, path1.interface, path1.requires) /\ KindOf(Plain) = "none"
  BY <1>3, FixedProtocols
<1> HIDE DEF name, mode, group
<1>5. WrittenRow(r)
  BY <1>2, <1>3, <1>4, WrittenIfCarried DEF WrittenFor
<1> HIDE DEF r
<1>6. EnabledRow([r EXCEPT !.mode = mode, !.comparison = group])
  BY <1>2, <1>5, ComparedRow
<1> QED
  BY <1>1, <1>6 DEF GoodRow

\* The rows of the comparison for all its sizes, connections and paths.
LEMMA GoodComparisons ==
    ASSUME NEW m, Coherent(m), NEW kind \in {"throughput", "latency"}, NEW sizes, IsList(sizes),
           NEW ladder, IsList(ladder)
    PROVE  GoodList(ComparisonRows(m, kind, sizes, ladder))
<1> DEFINE ps == m.paths
           Sift(c) == [i \in DOMAIN ps |-> IF Allows(ps[i], c) THEN <<ps[i]>> ELSE <<>>]
           Allowed(c) == FlattenSeq(Sift(c))
           Cells(size, c) == [i \in DOMAIN Allowed(c) |-> ComparisonRow(Allowed(c)[i], kind, size, c)]
           Of(size) == [i \in DOMAIN ladder |-> Cells(size, ladder[i])]
           q == [i \in DOMAIN sizes |-> FlattenSeq(Of(sizes[i]))]
<1>1. ComparisonRows(m, kind, sizes, ladder) = FlattenSeq(q)
  BY DEF ComparisonRows, FlatMap, Passing
<1>2. IsList(ps) /\ \A path1 \in ToSet(ps) : CoherentPath(path1)
  BY DEF Coherent
<1> HIDE DEF ps
<1>3. ASSUME NEW c PROVE IsList(Allowed(c)) /\ ToSet(Allowed(c)) \subseteq ToSet(ps)
  <2> DEFINE t == Sift(c)
  <2>1. t = [i \in DOMAIN ps |-> t[i]] /\ \A i \in DOMAIN ps : t[i] \in {<<ps[i]>>, <<>>}
    OBVIOUS
  <2> HIDE DEF t, Sift
  <2>2. IsList(FlattenSeq(t)) /\ ToSet(FlattenSeq(t)) \subseteq ToSet(ps)
    BY <1>2, <2>1, Sifted
  <2> QED
    BY <2>2 DEF t
<1> HIDE DEF Allowed
<1>4. ASSUME NEW size, NEW c PROVE GoodList(Cells(size, c))
  <2> DEFINE t == Cells(size, c)
             e == Allowed(c)
  <2>1. t = [i \in DOMAIN e |-> t[i]]
    OBVIOUS
  <2>2. \A i \in DOMAIN e : t[i] = ComparisonRow(e[i], kind, size, c)
    OBVIOUS
  <2>3. IsList(e) /\ \A i \in DOMAIN e : CoherentPath(e[i])
    BY <1>2, <1>3, ListFacts
  <2> HIDE DEF t, e, Cells
  <2>4. GoodList(t)
    BY <2>1, <2>2, <2>3, GoodCompared, GoodTableOf
  <2> QED
    BY <2>4 DEF t
<1> HIDE DEF Cells
<1>5. ASSUME NEW size PROVE GoodList(FlattenSeq(Of(size)))
  <2> DEFINE t == Of(size)
  <2>1. t = [i \in DOMAIN ladder |-> t[i]] /\ \A i \in DOMAIN ladder : GoodList(t[i])
    BY <1>4
  <2> HIDE DEF t, Of
  <2>2. GoodList(FlattenSeq(t))
    BY <2>1, GoodFlatOf
  <2> QED
    BY <2>2 DEF t
<1> HIDE DEF Of
<1>6. q = [i \in DOMAIN sizes |-> q[i]] /\ \A i \in DOMAIN sizes : GoodList(q[i])
  BY <1>5
<1> HIDE DEF q
<1> QED
  BY <1>1, <1>6, GoodFlatOf

\* The comparison document.
LEMMA GoodInterfaceComparison ==
    ASSUME NEW m, Coherent(m)
    PROVE  GoodList(ExpandInterfaceComparison(m))
BY GoodComparisons, GoodConcat DEF ExpandInterfaceComparison, Coherent

\* Smoke: a row for every interface and chain of a profile.
LEMMA GoodSmokeProfile ==
    ASSUME NEW m, NEW p, CoherentProfile(p)
    PROVE  GoodList(SmokeProfileRows(m, p))
<1> DEFINE Cells(interface) ==
              [i \in DOMAIN p.chains |->
                 ProfileRow(<<"smoke", p.id, interface, p.chains[i]>>, "smoke", p, interface,
                            p.chains[i], CanonicalSize(m, p), 1)]
           q == [i \in DOMAIN p.interfaces |-> Cells(p.interfaces[i])]
<1>1. SmokeProfileRows(m, p) = FlattenSeq(q)
  BY DEF SmokeProfileRows, FlatMap
<1>2. IsList(p.interfaces) /\ IsList(p.chains)
  BY ListOver DEF CoherentProfile
<1>3. ASSUME NEW interface \in ToSet(p.interfaces) PROVE GoodList(Cells(interface))
  <2> DEFINE t == Cells(interface)
  <2>1. t = [i \in DOMAIN p.chains |-> t[i]]
    OBVIOUS
  <2>2. ASSUME NEW i \in DOMAIN p.chains PROVE GoodRow(t[i])
    <3> DEFINE name == <<"smoke", p.id, interface, p.chains[i]>>
    <3>1. name # <<>>
      OBVIOUS
    <3>2. t[i] = ProfileRow(name, "smoke", p, interface, p.chains[i], CanonicalSize(m, p), 1)
      OBVIOUS
    <3> HIDE DEF name, t
    <3> QED
      BY <3>1, <3>2, ProfileRowWritten DEF WrittenRow, GoodRow
  <2> HIDE DEF t, Cells
  <2>3. GoodList(t)
    BY <1>2, <2>1, <2>2, GoodTableOf
  <2> QED
    BY <2>3 DEF t
<1> HIDE DEF Cells
<1>4. q = [i \in DOMAIN p.interfaces |-> q[i]] /\ \A i \in DOMAIN p.interfaces : GoodList(q[i])
  BY <1>2, <1>3, ListFacts
<1> HIDE DEF q
<1> QED
  BY <1>1, <1>2, <1>4, GoodFlatOf

\* Smoke: one ping-pong row per profile that is named, over its first interface.
LEMMA GoodSmokeLatency ==
    ASSUME NEW m, Coherent(m), ValidMatrix(m)
    PROVE  GoodList(SmokeLatencyRows(m))
<1> DEFINE ps == m.profiles
           Of(p) == [ProfileRow(<<"smoke_lat", p.id>>, "smoke-latency", p, p.interfaces[1],
                                "scg-direct", CanonicalSize(m, p), 1) EXCEPT !.mode = "pingpong"]
           Sift(id) == [i \in DOMAIN ps |-> IF ps[i].id = id THEN <<ps[i]>> ELSE <<>>]
           Named(id) == FlattenSeq(Sift(id))
           Cells(id) == IF Named(id) = <<>> THEN <<>> ELSE <<Of(Named(id)[1])>>
           q == [i \in DOMAIN LatencyProfiles |-> Cells(LatencyProfiles[i])]
<1>1. SmokeLatencyRows(m) = FlattenSeq(q)
  BY DEF SmokeLatencyRows, FlatMap, Passing
<1>2. IsList(ps) /\ \A p \in ToSet(ps) : CoherentProfile(p) /\ p.interfaces # <<>>
  BY ListFacts DEF Coherent, ValidMatrix, ToSet
<1> HIDE DEF ps
<1>3. ASSUME NEW id PROVE IsList(Named(id)) /\ ToSet(Named(id)) \subseteq ToSet(ps)
  <2> DEFINE t == Sift(id)
  <2>1. t = [i \in DOMAIN ps |-> t[i]] /\ \A i \in DOMAIN ps : t[i] \in {<<ps[i]>>, <<>>}
    OBVIOUS
  <2> HIDE DEF t, Sift
  <2>2. IsList(FlattenSeq(t)) /\ ToSet(FlattenSeq(t)) \subseteq ToSet(ps)
    BY <1>2, <2>1, Sifted
  <2> QED
    BY <2>2 DEF t
<1>4. ASSUME NEW p, CoherentProfile(p), p.interfaces # <<>> PROVE GoodRow(Of(p))
  <2> DEFINE name == <<"smoke_lat", p.id>>
             i == p.interfaces[1]
             size == CanonicalSize(m, p)
             r == ProfileRow(name, "smoke-latency", p, i, "scg-direct", size, 1)
  <2>1. name # <<>>
    OBVIOUS
  <2>2. i \in ToSet(p.interfaces)
    <3>1. IsList(p.interfaces)
      BY <1>4, ListOver DEF CoherentProfile
    <3> QED
      BY <1>4, <3>1, FirstIn
  <2>3. Of(p) = [r EXCEPT !.mode = "pingpong"]
    OBVIOUS
  <2> HIDE DEF name, i, size, Of
  <2>4. WrittenRow(r)
    BY <1>4, <2>1, <2>2, ProfileRowWritten
  <2> HIDE DEF r
  <2>5. EnabledRow([r EXCEPT !.mode = "pingpong"])
    BY <2>4, ModeRow DEF Modes
  <2> QED
    BY <2>3, <2>5 DEF GoodRow
<1> HIDE DEF Named, Of
<1>5. ASSUME NEW id PROVE GoodList(Cells(id))
  <2>1. CASE Named(id) = <<>>
    BY <2>1, GoodNone
  <2>2. CASE Named(id) # <<>>
    <3>1. Named(id)[1] \in ToSet(ps)
      BY <1>3, <2>2, FirstIn
    <3>2. GoodRow(Of(Named(id)[1]))
      BY <1>2, <1>4, <3>1
    <3> QED
      BY <2>2, <3>2, GoodOne
  <2> QED
    BY <2>1, <2>2
<1> HIDE DEF Cells
<1>6. IsList(LatencyProfiles)
  <2> DEFINE R == {"routing_tcp", "routing_udp", "routing_uds", "routing_shm", "routing_shmslot",
                   "routing_tproxy"}
  <2>1. LatencyProfiles \in Seq(R)
    BY DEF LatencyProfiles
  <2> HIDE DEF R
  <2> QED
    BY <2>1, ListOver
<1>7. q = [i \in DOMAIN LatencyProfiles |-> q[i]] /\ \A i \in DOMAIN LatencyProfiles : GoodList(q[i])
  BY <1>5
<1> HIDE DEF q
<1> QED
  BY <1>1, <1>6, <1>7, GoodFlatOf

\* Smoke: the first suite of each list, over streams and over datagrams.
LEMMA GoodSmokeCipher ==
    ASSUME NEW m, Coherent(m)
    PROVE  GoodList(SmokeCipherRows(m))
<1> DEFINE old == FirstOf(m.tls12)
           new == FirstOf(m.tls13)
           A(suite1) == StreamCipherRows("smoke_cipher", "1.2", suite1, m.dims.canonical_stream)
                          \o <<DatagramCipherRow("smoke_cipher", suite1, m.dims.canonical_datagram)>>
           B(suite1) == StreamCipherRows("smoke_cipher", "1.3", suite1, m.dims.canonical_stream)
           a == [i \in DOMAIN old |-> A(old[i])]
           b == [i \in DOMAIN new |-> B(new[i])]
<1>1. SmokeCipherRows(m) = FlattenSeq(a) \o FlattenSeq(b)
  BY DEF SmokeCipherRows, FlatMap
<1>2. IsList(old) /\ IsList(new)
  BY SuitesAreList DEF Coherent
<1> HIDE DEF old, new
<1>3. ASSUME NEW suite1 PROVE GoodList(A(suite1)) /\ GoodList(B(suite1))
  BY GoodStreamCipher, GoodDatagramCipher, GoodOne, GoodConcat
<1> HIDE DEF A, B
<1>4. /\ a = [i \in DOMAIN old |-> a[i]] /\ \A i \in DOMAIN old : GoodList(a[i])
      /\ b = [i \in DOMAIN new |-> b[i]] /\ \A i \in DOMAIN new : GoodList(b[i])
  BY <1>3
<1> HIDE DEF a, b
<1> QED
  BY <1>1, <1>2, <1>4, GoodFlatOf, GoodConcat

\* Smoke: the row of the resumed handshake.
LEMMA GoodSmokeResumption ==
    ASSUME NEW m
    PROVE  GoodRow(SmokeResumptionRow(m))
<1> DEFINE name == <<"smoke_resumption">>
           size == m.dims.canonical_stream
           r == Row(name, "smoke-resumption", "tcp", Tls("1.3"), TRUE, "scg-direct", size, 1,
                    {"openssl"})
<1>1. name # <<>>
  OBVIOUS
<1>2. SmokeResumptionRow(m) = [r EXCEPT !.resumption = TRUE, !.mode = "connrate"]
  BY DEF SmokeResumptionRow
<1> HIDE DEF name, size
<1>3. WrittenFor(r, "tcp", Tls("1.3"), TRUE, "scg-direct") /\ KindOf(Tls("1.3")) = "tls"
  BY <1>1, FixedProtocols, WrittenIfCarried
<1> HIDE DEF r
<1>4. WrittenRow(r) /\ r.interface = "tcp" /\ r.kind = "tls"
  BY <1>3 DEF WrittenFor
<1>5. EnabledRow([r EXCEPT !.resumption = TRUE, !.mode = "connrate"])
  BY <1>4, ResumedRow
<1> QED
  BY <1>2, <1>5 DEF GoodRow

\* Smoke: the rows of the hot reload.
LEMMA GoodSmokeReload ==
    ASSUME NEW m
    PROVE  GoodList(SmokeReloadRows(m))
<1> DEFINE as == ReloadActionsOf(Tls("1.3"))
           size == m.dims.canonical_stream
           yes == TRUE
           q == [i \in DOMAIN as |-> ReloadRow(<<"smoke_hotreload", as[i]>>, "smoke-hotreload",
                                                Tls("1.3"), {"openssl"}, size, 1, as[i], yes)]
<1>1. SmokeReloadRows(m) = q /\ yes \in BOOLEAN
  BY DEF SmokeReloadRows
<1>2. IsList(as) /\ ToSet(as) \subseteq ReloadActions
  BY ActionsOfProtocol
<1> HIDE DEF as, size, yes
<1>3. q = [i \in DOMAIN as |-> q[i]]
  OBVIOUS
<1>4. ASSUME NEW i \in DOMAIN as PROVE GoodRow(q[i])
  <2> DEFINE name == <<"smoke_hotreload", as[i]>>
  <2>1. name # <<>>
    OBVIOUS
  <2>2. q[i] = ReloadRow(name, "smoke-hotreload", Tls("1.3"), {"openssl"}, size, 1, as[i], yes)
    OBVIOUS
  <2>3. as[i] \in ReloadActions
    BY <1>2, ListFacts
  <2> HIDE DEF name, q
  <2> QED
    BY <1>1, <2>1, <2>2, <2>3, FixedProtocols, GoodReload
<1> HIDE DEF q
<1> QED
  BY <1>1, <1>2, <1>3, <1>4, GoodTableOf

\* Smoke: the baseline over the loopback, without a gateway.
LEMMA GoodSmokeLoopback ==
    ASSUME NEW interface \in {"tcp", "udp"}, NEW size
    PROVE  GoodRow(SmokeLoopbackRow(interface, size))
<1> DEFINE name == <<"smoke_loopback", interface>>
           no == FALSE
           r == Row(name, "smoke-baseline", interface, [kind |-> "none"], no, "scg-direct", size, 1, {})
<1>1. name # <<>> /\ no \in BOOLEAN
  OBVIOUS
<1>2. SmokeLoopbackRow(interface, size) = r
  BY DEF SmokeLoopbackRow
<1>3. interface \in Interfaces /\ Takes("none", interface) \subseteq {}
  BY DEF Interfaces, Takes
<1>4. Carried([kind |-> "none"], interface, {}) /\ KindOf([kind |-> "none"]) = "none"
  BY <1>3, FixedProtocols
<1> HIDE DEF name, no
<1>5. WrittenRow(r)
  BY <1>1, <1>4, WrittenIfCarried DEF WrittenFor
<1> QED
  BY <1>2, <1>5 DEF WrittenRow, GoodRow

\* Smoke: the row of the traffic classes.
LEMMA GoodSmokeStreams == GoodRow(SmokeStreamsRow)
<1> DEFINE name == <<"smoke_multistream">>
           yes == TRUE
           r == Row(name, "smoke-scheduling", "tcp", [kind |-> "none"], yes, "scg-direct", 1024, 1, {})
           streams == <<[DefaultStream EXCEPT !.size = 256, !.pattern = "periodic", !.interval = TRUE,
                                              !.class = "safety"],
                        [DefaultStream EXCEPT !.size = 4096]>>
<1>1. name # <<>> /\ yes \in BOOLEAN
  OBVIOUS
<1>2. SmokeStreamsRow = [r EXCEPT !.streams = streams]
  BY Zenon DEF SmokeStreamsRow
<1>3. Takes("none", "tcp") \subseteq {} /\ "tcp" \in Interfaces
  BY DEF Takes, Interfaces
<1>4. Carried([kind |-> "none"], "tcp", {}) /\ KindOf([kind |-> "none"]) = "none"
  BY <1>3, FixedProtocols
<1> HIDE DEF name, streams, yes
<1>5. WrittenFor(r, "tcp", [kind |-> "none"], yes, "scg-direct")
  BY <1>1, <1>4, WrittenIfCarried
<1> HIDE DEF r
<1>6. /\ WrittenRow(r) /\ r.interface = "tcp" /\ r.chain = "scg-direct" /\ r.gateway
      /\ r.kind = "none"
  BY <1>4, <1>5 DEF WrittenFor, yes
<1>7. streams = SmokeStreamsRow.streams
  <2>1. "streams" \in DOMAIN r
    BY <1>6 DEF WrittenRow, ScenarioFields
  <2> QED
    BY <1>2, <2>1
<1>8. EnabledRow([r EXCEPT !.streams = streams])
  BY <1>6, <1>7, StreamedRow
<1> QED
  BY <1>2, <1>8 DEF GoodRow

\* The smoke document.
LEMMA GoodSmoke ==
    ASSUME NEW m, Coherent(m), ValidMatrix(m)
    PROVE  GoodList(ExpandSmoke(m))
<1> DEFINE ps == m.profiles
           q == [i \in DOMAIN ps |-> SmokeProfileRows(m, ps[i])]
           shakes == [i \in DOMAIN HandshakeAxes |-> HandshakeRow("smoke_handshake", HandshakeAxes[i], 4)]
           x == SmokeLoopbackRow("tcp", m.dims.canonical_stream)
           y == SmokeLoopbackRow("udp", m.dims.canonical_datagram)
           three == <<x, y, SmokeStreamsRow>>
<1>1. ExpandSmoke(m) = ((((((FlattenSeq(q) \o SmokeLatencyRows(m)) \o SmokeCipherRows(m)) \o shakes)
                           \o <<SmokeResumptionRow(m)>>) \o SmokeReloadRows(m)) \o three)
                        \o BlockedRows(m)
  BY DEF ExpandSmoke, FlatMap
<1>2. IsList(ps) /\ \A p \in ToSet(ps) : CoherentProfile(p)
  BY DEF Coherent
<1> HIDE DEF ps
<1>3. q = [i \in DOMAIN ps |-> q[i]] /\ \A i \in DOMAIN ps : GoodList(q[i])
  BY <1>2, GoodSmokeProfile, ListFacts
<1> HIDE DEF q
<1>4. GoodList(FlattenSeq(q))
  BY <1>2, <1>3, GoodFlatOf
<1>5. shakes = [i \in DOMAIN HandshakeAxes |-> shakes[i]]
      /\ \A i \in DOMAIN HandshakeAxes : GoodRow(shakes[i])
  BY GoodHandshake
<1> HIDE DEF shakes
<1>6. GoodList(shakes)
  BY <1>5, AxesAreList, GoodTableOf
<1>7. GoodList(three)
  <2>1. GoodRow(x) /\ GoodRow(y) /\ GoodRow(SmokeStreamsRow)
    BY GoodSmokeLoopback, GoodSmokeStreams
  <2> DEFINE z == SmokeStreamsRow
             R == {x, y, z}
             t == <<x, y, z>>
  <2>2. \A r \in R : GoodRow(r)
    BY <2>1
  <2>3. t = three
    OBVIOUS
  <2> HIDE DEF x, y, z
  <2>4. t \in Seq(R)
    OBVIOUS
  <2> HIDE DEF R, t
  <2>5. GoodList(t)
    BY <2>2, <2>4, ListOver DEF GoodList
  <2> QED
    BY <2>3, <2>5
<1> HIDE DEF three
<1>8. GoodList(<<SmokeResumptionRow(m)>>)
  BY GoodSmokeResumption, GoodOne
<1> QED
  BY <1>1, <1>4, <1>6, <1>7, <1>8, GoodSmokeLatency, GoodSmokeCipher, GoodSmokeReload, GoodBlocked,
     GoodConcat

\* Every document of a coherent matrix is a list of good rows with names that differ.
LEMMA GoodDocuments ==
    ASSUME NEW m, Coherent(m), NEW rows \in Generated(m)
    PROVE  GoodList(rows) /\ ~DuplicateNames(rows)
<1> DEFINE documents == Documents(m)
<1>1. /\ ValidMatrix(m) /\ \A d \in DOMAIN documents : ~DuplicateNames(documents[d])
      /\ rows \in {documents[d] : d \in DOMAIN documents}
  BY DEF Generated
<1>2. rows \in {ExpandProfiles(m, "catalog"), ExpandProfiles(m, "nightly"),
                ExpandProfiles(m, "canonical"), ExpandProfiles(m, "everything"),
                ExpandInterfaceComparison(m), ExpandHotreload(m), ExpandSmoke(m)}
  BY <1>1 DEF Documents
<1>3. ~DuplicateNames(rows)
  <2> HIDE DEF documents
  <2> QED
    BY <1>1
<1>4. GoodList(rows)
  BY <1>1, <1>2, GoodTier, GoodInterfaceComparison, GoodHotreload, GoodSmoke DEF Tiers
<1> QED
  BY <1>3, <1>4

\* The two streams of the smoke document are read and validated.
LEMMA SmokeStreamsRead ==
    LET streams == SmokeStreamsRow.streams
    IN  \A t \in ToSet(streams) :
          /\ t.interface = "tcp" /\ t.addr = "host:port" /\ t.connections = 1 /\ t.size # 0
          /\ t.pattern \in {"periodic", "sustained"} /\ (t.pattern = "periodic" => t.interval)
          /\ CanonicalClass(t.class) # "unknown"
<1> DEFINE a == [DefaultStream EXCEPT !.size = 256, !.pattern = "periodic", !.interval = TRUE,
                                      !.class = "safety"]
           b == [DefaultStream EXCEPT !.size = 4096]
           r == Row(<<"smoke_multistream">>, "smoke-scheduling", "tcp", [kind |-> "none"], TRUE,
                    "scg-direct", 1024, 1, {})
<1>1. SmokeStreamsRow = [r EXCEPT !.streams = <<a, b>>]
  BY Zenon DEF SmokeStreamsRow
<1>2. "streams" \in DOMAIN r
  <2> DEFINE yes == TRUE
             t == Row(<<"smoke_multistream">>, "smoke-scheduling", "tcp", [kind |-> "none"], yes,
                      "scg-direct", 1024, 1, {})
  <2>1. DOMAIN [kind |-> "none"] \subseteq ProtocolFields /\ yes \in BOOLEAN
    BY DEF ProtocolFields
  <2>2. r = t
    BY Zenon
  <2> HIDE DEF yes
  <2>3. RowSays(t, <<"smoke_multistream">>, "tcp", [kind |-> "none"], yes, "scg-direct", {})
    BY <2>1, RowFields
  <2> HIDE DEF t
  <2>4. DOMAIN t = ScenarioFields
    BY <2>3 DEF RowSays
  <2> QED
    BY <2>2, <2>4 DEF ScenarioFields
<1>3. /\ a.interface = "tcp" /\ a.addr = "host:port" /\ a.connections = 1 /\ a.size # 0
      /\ a.pattern = "periodic" /\ a.interval /\ CanonicalClass(a.class) # "unknown"
  BY SMT DEF DefaultStream, CanonicalClass
<1>4. /\ b.interface = "tcp" /\ b.addr = "host:port" /\ b.connections = 1 /\ b.size # 0
      /\ b.pattern = "sustained" /\ CanonicalClass(b.class) # "unknown"
  BY SMT DEF DefaultStream, CanonicalClass
<1> HIDE DEF a, b, r
<1>5. SmokeStreamsRow.streams = <<a, b>>
  BY <1>1, <1>2
<1>6. ToSet(<<a, b>>) = {a, b}
  BY DEF ToSet
<1> QED
  BY <1>3, <1>4, <1>5, <1>6

\* A good row is read without complaint.
LEMMA GoodRowReads ==
    ASSUME NEW s, EnabledRow(s)
    PROVE  Deserializes(s)
<1>1. /\ s.interface \in Interfaces /\ s.addr = SenderAddr(s.interface) /\ Untouched(s) /\ Playable(s)
      /\ ProtocolFits(s, s.interface)
  BY DEF EnabledRow
<1>2. s.addr \in AddressForms
  BY <1>1 DEF SenderAddr, AddressForms
<1>3. s.mode \in Modes /\ s.reload \in ReloadActions \cup {Absent}
  BY <1>1 DEF Playable
<1>4. s.pattern \in Patterns /\ s.pacing \subseteq PacingFields /\ s.certs \subseteq CertNames
      /\ s.topology \in TopologyModes
  BY <1>1 DEF Untouched, Patterns, TopologyModes
<1>5. s.kind \in ProtocolTypes /\ s.version \in TlsVersions /\ s.protection \in ProtectionModes
      /\ s.app \in AppProtocols
  BY <1>1 DEF ProtocolFits, ProtocolTypes
<1>6. \A t \in ToSet(s.streams) : t.interface \in Interfaces /\ t.pattern \in Patterns
  <2>1. CASE s.streams = <<>>
    BY <2>1 DEF ToSet
  <2>2. ASSUME NEW t \in ToSet(s.streams), s.streams = SmokeStreamsRow.streams
        PROVE  t.interface \in Interfaces /\ t.pattern \in Patterns
    <3>1. t \in ToSet(SmokeStreamsRow.streams)
      BY <2>2
    <3>2. t.interface = "tcp" /\ t.pattern \in {"periodic", "sustained"}
      BY <3>1, SmokeStreamsRead
    <3> QED
      BY <3>2 DEF Interfaces, Patterns
  <2>3. s.streams = <<>> \/ s.streams = SmokeStreamsRow.streams
    BY <1>1 DEF Playable
  <2>4. CASE s.streams = SmokeStreamsRow.streams
    BY <2>2, <2>4
  <2> QED
    BY <2>1, <2>3, <2>4
<1> QED
  BY <1>1, <1>2, <1>3, <1>4, <1>5, <1>6 DEF Deserializes

\* And validated without an error.
LEMMA GoodRowValidates ==
    ASSUME NEW s, GoodRow(s)
    PROVE  Deserializes(s) /\ ScenarioErrors(s) = {}
<1>0. \A e : Error(FALSE, e) = {}
  BY DEF Error
<1>1. CASE BlockedRow(s)
  BY <1>1 DEF BlockedRow, ScenarioErrors, Error
<1>2. CASE EnabledRow(s)
  <2>1. /\ s.enabled /\ s.name # <<>> /\ s.interface \in Interfaces
        /\ s.addr = SenderAddr(s.interface) /\ (s.resumption => s.kind = "tls")
        /\ Untouched(s) /\ Playable(s) /\ ProtocolFits(s, s.interface)
    BY <1>2 DEF EnabledRow
  <2>2. HasSender(s)
    BY <2>1 DEF HasSender, Interfaces, Absent
  <2>3. ProtocolErrors(s) = {}
    <3>1. /\ s.kind \in {"none", "tls", "dtls"} /\ (s.kernel => s.kind = "tls") /\ ~s.zero_copy
          /\ s.perf_profile = Absent
      BY <2>1 DEF ProtocolFits, Untouched
    <3> QED
      BY <2>1, <3>1 DEF ProtocolErrors, Error
  <2>4. ProtocolTransportErrors(s) = {}
    BY <2>1 DEF ProtocolTransportErrors, ProtocolFits, Error
  <2>5. SenderErrors(s) = {}
    <3>1. AddressOk(s.interface, s.addr)
      <4>1. CASE s.interface \in {"tcp", "udp", "tproxy"}
        BY <2>1, <4>1 DEF AddressOk, SenderAddr
      <4>2. CASE s.interface = "unix"
        BY <2>1, <4>2 DEF AddressOk, SenderAddr
      <4>3. CASE s.interface = "shm"
        BY <2>1, <4>3 DEF AddressOk, SenderAddr
      <4> QED
        BY <2>1, <4>1, <4>2, <4>3 DEF Interfaces
    <3>2. PatternOk(s.pattern, s.pacing)
      BY <2>1 DEF Untouched, PatternOk
    <3>3. ~(NeedsGateway(s.interface) /\ ~s.gateway)
      BY <2>1 DEF NeedsGateway, Playable
    <3> QED
      BY <2>2, <2>4, <3>1, <3>2, <3>3 DEF SenderErrors, Error
  <2>6. SweepErrors(s) = {} /\ CertErrors(s) = {}
    BY <2>1 DEF SweepErrors, CertErrors, Untouched, NoSweep
  <2>7. StreamsErrors(s) = {}
    <3>1. CASE s.streams = <<>>
      BY <3>1 DEF StreamsErrors, HasStreams
    <3>2. CASE s.streams # <<>>
      <4>1. s.gateway /\ s.kind = "none" /\ s.streams = SmokeStreamsRow.streams
        BY <2>1, <3>2 DEF Playable
      <4>2. ASSUME NEW t \in ToSet(s.streams) PROVE StreamErrors(s, t) = {}
        <5>1. /\ t.interface = "tcp" /\ t.addr = "host:port" /\ t.connections = 1 /\ t.size # 0
              /\ t.pattern = "periodic" => t.interval
              /\ CanonicalClass(t.class) # "unknown"
          BY <4>1, <4>2, SmokeStreamsRead
        <5>2. AddressOk(t.interface, t.addr) /\ ~NeedsGateway(t.interface)
          BY <5>1 DEF AddressOk, NeedsGateway
        <5> QED
          BY <5>1, <5>2 DEF StreamErrors, Error
      <4>3. UNION {StreamErrors(s, t) : t \in ToSet(s.streams)} = {}
        BY <4>2
      <4> QED
        BY <4>1, <4>3 DEF StreamsErrors, Error
    <3> QED
      BY <3>1, <3>2
  <2>8. ~(s.reload # Absent /\ ~s.gateway)
    BY <2>1 DEF Playable
  <2>9. ScenarioErrors(s) = {}
    BY <2>1, <2>2, <2>3, <2>5, <2>6, <2>7, <2>8 DEF ScenarioErrors, Error
  <2> QED
    BY <1>2, <2>9, GoodRowReads
<1> QED
  BY <1>1, <1>2 DEF GoodRow

\* Every document that the generator writes from a coherent matrix validates: generate checks
\* the names and the shape of the matrix only, and the validation of the suites is left to the
\* run that loads them.
THEOREM GeneratedSuitesValidate ==
    ASSUME NEW m, Coherent(m), NEW rows \in Generated(m), NEW defaults,
           defaults.runs >= 1, defaults.sample_rate >= 1
    PROVE  Validates(defaults, rows)
<1>1. GoodList(rows) /\ ~DuplicateNames(rows)
  BY GoodDocuments
<1>2. \A i \in DOMAIN rows : GoodRow(rows[i])
  BY <1>1, ListFacts DEF GoodList
<1> QED
  BY <1>1, <1>2, GoodRowValidates DEF Validates

\* A gateway row is planned, without a custom provider, and what its plan needs is required.
LEMMA GoodRowPlanned ==
    ASSUME NEW s, EnabledRow(s), s.gateway
    PROVE  /\ PlanFor(s) # NoPlan
           /\ PlanFor(s).security.mode # "custom"
           /\ PlanFor(s).security.mode \in {"tls", "integrity", "dtls"} => "openssl" \in s.requires
           /\ HasStreams(s) => PlanFor(s).security.mode \notin {"dtls", "routing-udp"}
<1> DEFINE P == PlanFor(s)
<1>0. Deserializes(s) /\ ProtocolFits(s, s.interface) /\ Playable(s) /\ s.interface \in Interfaces
  BY GoodRowReads DEF EnabledRow
<1>1. s.kind \in {"none", "tls", "dtls"} /\ HasSender(s)
  BY <1>0 DEF ProtocolFits, HasSender, Interfaces, Absent
<1>2. s.kind # "none" => "openssl" \in s.requires
  BY <1>1 DEF EnabledRow, Takes
<1>3. /\ ResolveSecurity(s).mode \in {"routing", "integrity", "tls", "dtls"}
      /\ ResolveSecurity(s).mode # "routing" => s.kind # "none"
      /\ ResolveSecurity(s).mode = "dtls" => s.kind = "dtls"
  <2>1. s.kind = "none" => ResolveSecurity(s).mode = "routing"
    <3>1. s.kind = "none" => ResolveSecurity(s) = Routing
      BY DEF ResolveSecurity, PlainRouting
    <3> QED
      BY <3>1 DEF Routing, Security
  <2> QED
    BY <1>0, <1>1, <2>1, ResolvedMode
<1>4. \A sec, t : Plan(sec, t).security = sec /\ (t # Absent => Plan(sec, t) # NoPlan)
  BY DEF Plan, NoPlan
<1>5. CASE HasStreams(s)
  <2>1. P = Plan(ResolveSecurity(s), "scg-multistream") /\ s.kind = "none"
    BY <1>0, <1>5 DEF PlanFor, Playable, HasStreams
  <2> HIDE DEF P
  <2>2. P.security = ResolveSecurity(s) /\ P # NoPlan
    BY <1>4, <2>1 DEF Absent
  <2>3. ResolveSecurity(s).mode = "routing"
    BY <1>3, <2>1
  <2> QED
    BY <2>2, <2>3 DEF P
<1>6. CASE ~HasStreams(s) /\ s.kind = "dtls"
  <2>1. s.interface = "udp"
    BY <1>0, <1>6 DEF ProtocolFits
  <2>2. \E t : t # Absent /\ P = Plan(DtlsSecurity(s), t)
    <3>1. P = Plan(DtlsSecurity(s), IF s.mutual THEN "scg-dtls-mtls" ELSE "scg-dtls")
      BY <1>1, <1>6, <2>1 DEF PlanFor
    <3> QED
      BY <3>1 DEF Absent
  <2> HIDE DEF P
  <2>3. P # NoPlan /\ P.security = DtlsSecurity(s)
    BY <1>4, <2>2
  <2>4. DtlsSecurity(s).mode = "dtls"
    BY DEF DtlsSecurity, Security
  <2> QED
    BY <1>2, <1>6, <2>3, <2>4 DEF P
<1>7. CASE ~HasStreams(s) /\ s.kind # "dtls" /\ s.interface \in {"unix", "shm", "tproxy"}
  <2>1. \E t : t # Absent /\ P = Plan(ResolveSecurity(s), t)
    <3>1. CASE s.interface = "unix"
      <4>1. P = Plan(ResolveSecurity(s), "scg-uds")
        BY <1>1, <1>7, <3>1 DEF PlanFor
      <4> QED
        BY <4>1 DEF Absent
    <3>2. CASE s.interface = "shm"
      <4>1. P = Plan(ResolveSecurity(s), "scg-shm")
        BY <1>1, <1>7, <3>2 DEF PlanFor
      <4> QED
        BY <4>1 DEF Absent
    <3>3. CASE s.interface = "tproxy"
      <4>1. P = Plan(ResolveSecurity(s), "scg-tproxy")
        BY <1>1, <1>7, <3>3 DEF PlanFor
      <4> QED
        BY <4>1 DEF Absent
    <3> QED
      BY <1>7, <3>1, <3>2, <3>3
  <2> HIDE DEF P
  <2>2. P # NoPlan /\ P.security = ResolveSecurity(s)
    BY <1>4, <2>1
  <2> QED
    BY <1>2, <1>3, <1>7, <2>2 DEF P
<1>8. CASE ~HasStreams(s) /\ s.kind # "dtls" /\ s.interface = "udp"
  <2>1. P = UdpPlan(s)
    BY <1>1, <1>8 DEF PlanFor
  <2>2. CASE s.kind = "tls"
    <3>1. s.app # "none"
      BY <1>0, <1>8, <2>2 DEF ProtocolFits
    <3>2. \E t : t # Absent /\ P = Plan(TlsSecurity(s), t)
      <4>1. P = Plan(TlsSecurity(s), IF s.app = "ale" THEN "scg-udp-ale" ELSE "scg-udp-raw")
        BY <2>1, <2>2, <3>1 DEF UdpPlan
      <4> QED
        BY <4>1 DEF Absent
    <3> HIDE DEF P
    <3>3. P # NoPlan /\ P.security = TlsSecurity(s) /\ TlsSecurity(s).mode = "tls"
      BY <1>4, <3>2 DEF TlsSecurity, Security
    <3> QED
      BY <1>2, <1>8, <2>2, <3>3 DEF P
  <2>3. CASE s.kind = "none"
    <3>1. P = Plan(RoutingUdp, "scg-udp-routing")
      BY <2>1, <2>3 DEF UdpPlan, PlainRouting
    <3> HIDE DEF P
    <3>2. P # NoPlan /\ P.security = RoutingUdp /\ RoutingUdp.mode = "routing-udp"
      BY <1>4, <3>1 DEF RoutingUdp, Security, Absent
    <3> QED
      BY <1>8, <3>2 DEF P
  <2> QED
    BY <1>1, <1>8, <2>2, <2>3
<1>9. CASE ~HasStreams(s) /\ s.kind # "dtls" /\ s.interface = "tcp"
  <2>1. P = TcpPlan(s)
    BY <1>1, <1>9 DEF PlanFor
  <2>2. TcpPlan(s) # NoPlan
    <3>1. CASE PlainRouting(s)
      <4>1. TcpPlan(s) = Plan(Routing, "scg-tcp")
        BY <3>1 DEF TcpPlan, PlainRouting
      <4> QED
        BY <1>4, <4>1 DEF Absent
    <3>2. CASE ~PlainRouting(s) /\ s.protection = "integrity"
      <4>1. TcpPlan(s) = Plan(IntegrityOnly(s), "scg-tls-integrity")
        BY <1>1, <1>9, <3>2 DEF TcpPlan, PlainRouting
      <4> QED
        BY <1>4, <4>1 DEF Absent
    <3>3. CASE ~PlainRouting(s) /\ s.protection = "full"
      <4> DEFINE t == CASE s.kernel /\ s.mutual   -> "scg-ktls-mtls"
                        [] s.kernel /\ ~s.mutual  -> "scg-ktls"
                        [] ~s.kernel /\ s.mutual  -> "scg-mtls"
                        [] ~s.kernel /\ ~s.mutual -> "scg-tls"
      <4>1. t \in {"scg-ktls-mtls", "scg-ktls", "scg-mtls", "scg-tls"}
        OBVIOUS
      <4>2. TcpPlan(s) = Plan(TlsSecurity(s), t)
        BY <1>1, <1>9, <3>3 DEF TcpPlan, PlainRouting
      <4> HIDE DEF t
      <4> QED
        BY <1>4, <4>1, <4>2 DEF Absent
    <3> QED
      BY <1>0, <3>1, <3>2, <3>3 DEF Deserializes, ProtectionModes, PlainRouting
  <2>3. P.security.mode \in {"routing", "integrity", "tls"}
        /\ (P.security.mode # "routing" => s.kind = "tls")
    BY <1>0, <1>1, <2>1, <2>2, TcpPlans DEF Plan, Routing, IntegrityOnly, TlsSecurity, Security
  <2> HIDE DEF P
  <2> QED
    BY <1>2, <1>9, <2>1, <2>2, <2>3 DEF P
<1> QED
  BY <1>0, <1>5, <1>6, <1>7, <1>8, <1>9 DEF Interfaces

-----------------------------------------------------------------------------
(***************************************************************************)
(* What the driver meets in a row of a generated suite.                    *)
(***************************************************************************)
\* Without a gateway a row is plain traffic over sockets, which the loopback carries.
LEMMA GoodLoopback ==
    ASSUME NEW s, EnabledRow(s)
    PROVE  LoopbackTransport(s) # Absent <=> ~s.gateway
<1>1. Playable(s)
  BY DEF EnabledRow
<1>2. CASE s.gateway
  BY <1>2 DEF LoopbackTransport
<1>3. CASE ~s.gateway
  <2>1. s.kind = "none" /\ s.interface \in {"tcp", "udp"} /\ s.streams = <<>>
    BY <1>1, <1>3 DEF Playable
  <2>2. HasSender(s) /\ ~HasStreams(s)
    BY <2>1 DEF HasSender, HasStreams, Absent
  <2>3. LoopbackTransport(s) = s.interface
    BY <1>3, <2>1, <2>2 DEF LoopbackTransport
  <2> QED
    BY <1>3, <2>1, <2>3 DEF Absent
<1> QED
  BY <1>2, <1>3

\* What the matrix stamps on a gateway row is what its certificates take.
LEMMA GoodMaterial ==
    ASSUME NEW s, EnabledRow(s), s.gateway, NEW F, Needs(s) \subseteq F
    PROVE  SpecBuildable(s, PlanFor(s).security, "openssl" \in F)
<1> DEFINE sec == PlanFor(s).security
<1>1. sec.mode # "custom" /\ (sec.mode \in {"tls", "integrity", "dtls"} => "openssl" \in s.requires)
  BY GoodRowPlanned
<1> HIDE DEF sec
<1>2. s.requires \subseteq F
  BY DEF Needs
<1>3. MaterialAvailable(s, sec, "openssl" \in F)
  BY <1>1, <1>2 DEF MaterialAvailable, NeedsServer, NeedsBundle
<1> QED
  BY <1>1, <1>3 DEF SpecBuildable, sec

\* What a transparent proxy takes is stamped on its rows too, and the sockets of a row are
\* those of its interface.
LEMMA GoodCarrier ==
    ASSUME NEW s, EnabledRow(s), s.gateway, ~HasStreams(s)
    PROVE  /\ DutKind(PlanFor(s)) = IF s.interface = "unix" THEN "uds" ELSE s.interface
           /\ DutKind(PlanFor(s)) = "tproxy" => "cap_net_admin" \in s.requires
<1>1. Deserializes(s) /\ PlanFor(s) # NoPlan
  BY GoodRowReads, GoodRowPlanned
<1>2. DutKind(PlanFor(s)) = IF s.interface = "unix" THEN "uds" ELSE s.interface
  BY <1>1, KindOfPlan
<1>3. s.interface = "tproxy" => "cap_net_admin" \in s.requires
  BY DEF EnabledRow, Takes
<1> QED
  BY <1>2, <1>3

\* Only datagrams are planned with DTLS.
LEMMA GoodDtls ==
    ASSUME NEW s, EnabledRow(s), s.gateway, ~HasStreams(s), PlanFor(s).security.mode = "dtls"
    PROVE  s.interface = "udp"
<1>1. Deserializes(s) /\ ScenarioErrors(s) = {} /\ PlanFor(s) # NoPlan /\ s.enabled
  BY GoodRowValidates, GoodRowPlanned DEF GoodRow, EnabledRow
<1>2. DecidedProto(s, PlanFor(s).security) = IF Datagrams(s) THEN "udp" ELSE "tcp"
  BY <1>1, PlanProto
<1>3. DecidedProto(s, PlanFor(s).security) = "udp"
  BY DEF DecidedProto
<1> QED
  BY <1>2, <1>3 DEF Datagrams

\* A row that reloads has the rule its template is copied from.
LEMMA GoodTemplate ==
    ASSUME EnabledRow(Scn), Scn.gateway, Scn.reload # Absent, ~HasStreams(Scn)
    PROVE  TemplateAvailable
<1>1. Deserializes(Scn) /\ ScenarioErrors(Scn) = {} /\ PlanFor(Scn) # NoPlan /\ Scn.enabled
  BY GoodRowValidates, GoodRowPlanned DEF GoodRow, EnabledRow
<1>2. Scn.interface = "tcp" /\ Scn.chain = "scg-direct"
  BY DEF EnabledRow, Playable
<1>3. /\ Plan1.security.mode \in SecurityModes
      /\ DecidedProto(Scn, Plan1.security) = IF Datagrams(Scn) THEN "udp" ELSE "tcp"
  BY <1>1, PlanProto DEF Plan1
<1>4. DecidedProto(Scn, Plan1.security) = "tcp"
  BY <1>2, <1>3 DEF Datagrams
<1>5. OneProto(BaseSpec, "tcp")
  BY <1>3, <1>4, DecidedSides DEF BaseSpec
<1>6. EncryptRule(BaseSpec).listen = "tcp"
  BY <1>5 DEF OneProto, EncryptRule, Rule, Given
<1> QED
  BY <1>2, <1>6 DEF TemplateAvailable

\* After the first, best-effort command of the transparent proxy only the chain is needed,
\* and nothing is created twice.
LEMMA TproxyNeeds ==
    \A k \in 1..7 : /\ TproxyCommands[k + 1].needs \subseteq {"DIVERT"}
                    /\ \A o \in TproxyCommands[k + 1].creates : ~Made("tproxy", k, o)
<1> DEFINE S == TproxyCommands
           First == [Create({"DIVERT"}) EXCEPT !.strict = FALSE]
           RuleC == Create({"rule"})
           RouteC == Create({"route"})
           Conf == Configure("DIVERT")
           Jump == Command({"DIVERT"}, {"divert-jump"}, {})
           Redirect == Create({"redirect"})
<1>1. /\ RuleC.needs = {} /\ RouteC.needs = {} /\ Redirect.needs = {}
      /\ Jump.needs = {"DIVERT"} /\ Conf.needs = {"DIVERT"}
      /\ RuleC.creates = {"rule"} /\ RouteC.creates = {"route"} /\ Redirect.creates = {"redirect"}
      /\ Jump.creates = {"divert-jump"} /\ Conf.creates = {}
  BY DEF Create, Command, Configure
<1>2. S = << First, RuleC, RouteC, Conf, Conf, Conf, Jump, Redirect >>
  BY DEF TproxyCommands
<1> HIDE DEF First, RuleC, RouteC, Conf, Jump, Redirect, S
<1>3. /\ S[2] = RuleC /\ S[3] = RouteC /\ S[4] = Conf /\ S[5] = Conf /\ S[6] = Conf
      /\ S[7] = Jump /\ S[8] = Redirect
  BY <1>2
<1>4. ASSUME NEW k \in 1..7
      PROVE  S[k + 1].needs \subseteq {"DIVERT"} /\ \A o \in S[k + 1].creates : ~Made("tproxy", k, o)
  <2>1. \/ k = 1 /\ S[k + 1] = RuleC
        \/ k = 2 /\ S[k + 1] = RouteC
        \/ k \in 3..5 /\ S[k + 1] = Conf
        \/ k = 6 /\ S[k + 1] = Jump
        \/ k = 7 /\ S[k + 1] = Redirect
    <3>1. k = 1 => S[k + 1] = RuleC
      BY <1>3
    <3>2. k = 2 => S[k + 1] = RouteC
      BY <1>3
    <3>3. k = 3 => S[k + 1] = Conf
      BY <1>3
    <3>4. k = 4 => S[k + 1] = Conf
      BY <1>3
    <3>5. k = 5 => S[k + 1] = Conf
      BY <1>3
    <3>6. k = 6 => S[k + 1] = Jump
      BY <1>3
    <3>7. k = 7 => S[k + 1] = Redirect
      BY <1>3
    <3> QED
      BY <3>1, <3>2, <3>3, <3>4, <3>5, <3>6, <3>7
  <2> QED
    BY <1>1, <2>1 DEF Made, MadeTproxy
<1> QED
  BY <1>4 DEF S

\* On a host that holds nothing else no command of the transparent proxy is in the way of
\* another: its setup fails only when the kernel refuses.
LEMMA TproxySucceeds ==
    ASSUME HostInv, installing = "tproxy", guards = {}, operator = {}, leaked = {},
           NEW refused, ~refused, CommandFails(refused)
    PROVE  FALSE
<1>0. pending # <<>> /\ Head(pending).strict /\ ~Succeeds(Head(pending))
  BY DEF CommandFails
<1>1. PICK k \in Nat : At(k)
  BY PickAt
<1> DEFINE q == Commands(installing)
           n == Len(q)
           c == q[k + 1]
<1>2. installing \in Installations /\ q = TproxyCommands
  BY DEF Installations, Commands
<1>3. q \in Seq(Cmds) /\ n \in Nat /\ n = 8
  BY <1>2, CommandsOf, TproxyEffect
<1>4. k \in 0..n /\ pending = SubSeq(q, k + 1, n)
  BY <1>1 DEF At
<1>5. k < n /\ Head(pending) = c
  BY <1>0, <1>3, <1>4, SuffixHeadTail
<1>6. k \in 0..7
  BY <1>3, <1>5
<1>7. Effect("tproxy", k, c)
  BY <1>2, <1>6, TproxyEffect
<1>8. k # 0 /\ c \in Cmds
  BY <1>0, <1>5, <1>7 DEF Effect
<1>9. c.needs \subseteq {"DIVERT"} /\ \A o \in c.creates : ~Made("tproxy", k, o)
  BY <1>2, <1>6, <1>8, TproxyNeeds
<1>10. "DIVERT" \in kernel
  BY <1>1, <1>8 DEF At
<1>11. Held = {} /\ kernel = created
  BY DEF Held, HostInv, OneOwner
<1> HIDE DEF c, q, n
<1>12. c.creates \cap created = {}
  <2>1. ASSUME NEW o \in c.creates, o \in created PROVE FALSE
    <3>1. o \in KernelObjects \ {"DIVERT"}
      BY <2>1, <1>7, <1>8 DEF Effect, Cmds
    <3>2. Made("tproxy", k, o)
      BY <1>1, <2>1, <3>1 DEF At
    <3> QED
      BY <1>9, <2>1, <3>2
  <2> QED
    BY <2>1
<1> QED
  BY <1>0, <1>5, <1>9, <1>10, <1>11, <1>12 DEF Succeeds

\* A suite that is one of the documents a coherent matrix is expanded to, with defaults that
\* run and sample at all.
Expanded(s) ==
    \E m : /\ Coherent(m)
           /\ \E rows \in Generated(m) :
                 /\ DOMAIN s.items = DOMAIN rows
                 /\ \A i \in DOMAIN rows : s.items[i].scenario = rows[i]
           /\ s.defaults.runs >= 1 /\ s.defaults.sample_rate >= 1

\* What is written in a generated suite.
Scenarios(s) == [i \in DOMAIN s.items |-> s.items[i].scenario]

Written(s) ==
    /\ \A item \in ToSet(s.items) : GoodRow(item.scenario)
    /\ Validates(s.defaults, Scenarios(s))

\* The scenario in progress is a row the host has the features for, in the driver for it.
OnItsWay ==
    /\ EnabledRow(Scn) /\ Needs(Scn) \subseteq host.features
    /\ path = "loopback" <=> ~Scn.gateway
    /\ path = "reload" => Scn.reload # Absent

\* How a row may end.
Explained ==
    \/ outcome = "recorded" /\ ~NoEcho
    \/ outcome = "unmet-requirements"
    \/ outcome = "no-gateway-binary" /\ Scn.gateway
    \/ outcome \in {"unsupported-mode", "run-failed"} /\ NoEcho

\* How far an undisturbed generated suite has come: nobody else has touched the network, the
\* only installation is the transparent proxy's, and the row has met nothing it cannot take.
Smooth ==
    /\ pc \notin {"refused", "dead", "aborted"}
    /\ operator = {} /\ leaked = {}
    /\ pc \in {"topology", "impair", "spec", "installing"} => guards = {}
    /\ pc = "installing" => installing = "tproxy" /\ Has("cap_net_admin")
    /\ pc \in Preparing \cup Carrying => OnItsWay
    /\ pc \in {"calibrate", "sweep", "record"} => ~NoEcho
    /\ pc = "leave" => Explained

GeneratedInv == suite.generated => Written(suite) /\ (disturbances = 0 => Smooth)

\* A generated suite is written well.
LEMMA ExpandedWritten ==
    ASSUME NEW s, Expanded(s)
    PROVE  Written(s)
<1>1. PICK m : /\ Coherent(m)
               /\ \E rows \in Generated(m) :
                     /\ DOMAIN s.items = DOMAIN rows
                     /\ \A i \in DOMAIN rows : s.items[i].scenario = rows[i]
               /\ s.defaults.runs >= 1 /\ s.defaults.sample_rate >= 1
  BY DEF Expanded
<1>2. PICK rows \in Generated(m) : /\ DOMAIN s.items = DOMAIN rows
                                   /\ \A i \in DOMAIN rows : s.items[i].scenario = rows[i]
  BY <1>1
<1>3. GoodList(rows) /\ ~DuplicateNames(rows)
  BY <1>1, GoodDocuments
<1>4. \A i \in DOMAIN rows : GoodRow(rows[i])
  BY <1>3, ListFacts DEF GoodList
<1>5. \A item \in ToSet(s.items) : GoodRow(item.scenario)
  BY <1>2, <1>4 DEF ToSet
<1>6. Validates(s.defaults, rows)
  BY <1>1, GeneratedSuitesValidate
<1> DEFINE named == Scenarios(s)
<1>7. DOMAIN named = DOMAIN rows /\ \A i \in DOMAIN rows : named[i] = rows[i]
  BY <1>2 DEF Scenarios
<1> HIDE DEF named
<1>8. Validates(s.defaults, named)
  BY <1>6, <1>7 DEF Validates, DuplicateNames
<1> QED
  BY <1>5, <1>8 DEF Written, named

\* What is said of the scenario in progress stays while it does.
LEMMA SameRow ==
    ASSUME UNCHANGED <<todo, path, host>>
    PROVE  Scn' = Scn /\ NoEcho' = NoEcho /\ OnItsWay' = OnItsWay
<1>1. Scn' = Scn
  BY DEF Scn
<1> QED
  BY <1>1 DEF NoEcho, OnItsWay

\* The current item of a generated suite is one of its rows.
LEMMA CurrentRow ==
    ASSUME Written(suite), todo \in Seq(ToSet(suite.items)), todo # <<>>, Scn.enabled
    PROVE  EnabledRow(Scn)
<1>1. Head(todo) \in ToSet(suite.items)
  BY HeadTailProperties
<1>2. GoodRow(Scn)
  BY <1>1 DEF Written, Scn
<1> QED
  BY <1>2 DEF GoodRow, BlockedRow

\* A step that only changes the driver's place.
LEMMA SmoothGoto ==
    ASSUME Smooth, NEW next, Goto(next), Calm, pc \in Preparing \cup Carrying,
           next \in {"impair", "spec", "start", "record"},
           next \in {"impair", "spec"} => pc \in {"topology", "impair"},
           next = "record" => pc \in {"calibrate", "sweep"}
    PROVE  Smooth'
<1>1. pc' = next /\ UNCHANGED <<todo, path, host, operator, leaked, guards>>
  BY DEF Goto, Calm, hostVars
<1>2. NoEcho' = NoEcho /\ OnItsWay' = OnItsWay
  BY <1>1, SameRow
<1> QED
  BY <1>1, <1>2 DEF Smooth, Preparing, Carrying

\* A scenario that is left for a reason that explains it.
LEMMA SmoothLeave ==
    ASSUME Smooth, NEW how, Leave(how), UNCHANGED hostVars,
           \/ how = "unmet-requirements"
           \/ how = "no-gateway-binary" /\ Scn.gateway
           \/ how \in {"unsupported-mode", "run-failed"} /\ NoEcho
    PROVE  Smooth'
<1>1. /\ pc' = "leave" /\ outcome' = how
      /\ UNCHANGED <<todo, path, host, operator, leaked>>
  BY DEF Leave, hostVars
<1>2. Scn' = Scn /\ NoEcho' = NoEcho
  BY <1>1, SameRow
<1> QED
  BY <1>1, <1>2 DEF Smooth, Explained, Preparing, Carrying

\* Dispatch: a row that the host has the features for is entered, or there is no gateway, or
\* it is ping-pong over DTLS.
LEMMA SmoothDispatch ==
    ASSUME HoldsNothing, RowInv, Written(suite), Smooth, Dispatch
    PROVE  Smooth'
<1>1. /\ pc = "next" /\ todo # <<>> /\ Scn.enabled /\ guards = {} /\ UNCHANGED hostVars
      /\ todo \in Seq(ToSet(suite.items))
  BY DEF Dispatch, HoldsNothing, Outside, Calm, RowInv, TodoItems
<1>2. EnabledRow(Scn)
  BY <1>1, CurrentRow
<1>3. LoopbackTransport(Scn) # Absent <=> ~Scn.gateway
  BY <1>2, GoodLoopback
<1>4. CASE ~(Needs(Scn) \subseteq host.features)
  BY <1>1, <1>4, SmoothLeave DEF Dispatch
<1>5. ASSUME Needs(Scn) \subseteq host.features, NEW driver, NEW carrier, NEW next,
             Enter(driver, carrier, next), next \in {"run", "spec", "topology"},
             driver = "loopback" <=> ~Scn.gateway, driver = "reload" => Scn.reload # Absent
      PROVE  Smooth'
  <2>1. /\ path' = driver /\ pc' = next /\ UNCHANGED <<todo, host, guards, operator, leaked>>
    BY <1>1, <1>5 DEF Enter, hostVars
  <2>2. Scn' = Scn
    BY <2>1 DEF Scn
  <2>3. OnItsWay'
    BY <1>2, <1>5, <2>1, <2>2 DEF OnItsWay
  <2> QED
    BY <1>1, <1>5, <2>1, <2>3 DEF Smooth
<1>6. CASE Needs(Scn) \subseteq host.features /\ ~Scn.gateway
  <2>1. Enter("loopback", LoopbackDut(LoopbackTransport(Scn)), "run")
    BY <1>3, <1>6 DEF Dispatch
  <2> QED
    BY <1>5, <1>6, <2>1
<1>7. CASE Needs(Scn) \subseteq host.features /\ Scn.gateway
  <2>1. /\ Plan1 # NoPlan
        /\ ~(HasStreams(Scn) /\ Plan1.security.mode \in {"dtls", "routing-udp"})
    BY <1>2, <1>7, GoodRowPlanned DEF Plan1
  <2>2. LoopbackTransport(Scn) = Absent
    BY <1>3, <1>7
  <2>3. CASE ~host.binary
    <3>1. Leave("no-gateway-binary")
      BY <1>7, <2>1, <2>2, <2>3 DEF Dispatch
    <3> QED
      BY <1>1, <1>7, <3>1, SmoothLeave
  <2>4. CASE host.binary /\ HasStreams(Scn)
    <3>1. Enter("streams", NoDut, "spec")
      BY <1>7, <2>1, <2>2, <2>4 DEF Dispatch
    <3> QED
      BY <1>5, <1>7, <3>1
  <2>5. CASE host.binary /\ ~HasStreams(Scn) /\ Scn.reload # Absent
    <3>1. Enter("reload", NoDut, "spec")
      BY <1>7, <2>1, <2>2, <2>5 DEF Dispatch
    <3> QED
      BY <1>5, <1>7, <2>5, <3>1
  <2>6. CASE /\ host.binary /\ ~HasStreams(Scn) /\ Scn.reload = Absent
             /\ Scn.mode = "pingpong" /\ Plan1.security.mode = "dtls"
    <3>1. Leave("unsupported-mode")
      BY <1>7, <2>1, <2>2, <2>6 DEF Dispatch
    <3>2. NoEcho
      BY <1>2, <1>7, <2>6, GoodDtls DEF NoEcho, Plan1
    <3> QED
      BY <1>1, <3>1, <3>2, SmoothLeave
  <2>7. CASE /\ host.binary /\ ~HasStreams(Scn) /\ Scn.reload = Absent
             /\ ~(Scn.mode = "pingpong" /\ Plan1.security.mode = "dtls")
    <3>1. Enter("gateway", NoDut, "topology")
      BY <1>7, <2>1, <2>2, <2>7 DEF Dispatch
    <3> QED
      BY <1>5, <1>7, <3>1
  <2> QED
    BY <2>3, <2>4, <2>5, <2>6, <2>7
<1> QED
  BY <1>4, <1>6, <1>7

\* Before the traffic: the loopback topology, no impairment, certificates that can be made,
\* and, for a transparent row, commands that succeed.
LEMMA SmoothPrepare ==
    ASSUME HostInv, HoldsNothing, RowInv, Smooth,
           ProvisionTopology \/ Impair \/ InstallStep \/ BuildSpec
    PROVE  Smooth'
<1>0. pc \in Preparing
  BY DEF ProvisionTopology, Impair, InstallStep, BuildSpec, Preparing
<1>1. OnItsWay /\ path \in {"gateway", "streams", "reload"}
  BY <1>0 DEF Smooth, RowInv, CarrierFits
<1>2. EnabledRow(Scn) /\ Scn.gateway /\ Needs(Scn) \subseteq host.features
  BY <1>1 DEF OnItsWay, EnabledRow, Playable
<1>3. Scn.topology = "loopback" /\ ~Scn.impaired
  BY <1>2 DEF EnabledRow, Untouched
<1>4. path = "streams" <=> HasStreams(Scn)
  BY <1>1 DEF RowInv, CarrierFits
<1>5. CASE ProvisionTopology
  <2>1. pc = "topology" /\ Goto("impair") /\ Calm
    BY <1>3, <1>5 DEF ProvisionTopology
  <2> QED
    BY <1>0, <2>1, SmoothGoto
<1>6. CASE Impair
  <2>1. pc = "impair" /\ Goto("spec") /\ Calm
    BY <1>3, <1>6 DEF Impair
  <2> QED
    BY <1>0, <2>1, SmoothGoto
<1>7. CASE InstallStep
  <2>1. /\ pc = "installing" /\ installing = "tproxy" /\ Has("cap_net_admin") /\ guards = {}
        /\ operator = {} /\ leaked = {}
    BY <1>7 DEF InstallStep, Smooth
  <2>2. ~CommandFails(~Has("cap_net_admin"))
    BY <2>1, TproxySucceeds
  <2>3. CASE CommandRuns /\ UNCHANGED driverVars
    <3>1. UNCHANGED <<installing, guards, operator, leaked, todo, path, host, pc>>
      BY <2>3 DEF CommandRuns, driverVars
    <3>2. OnItsWay'
      BY <1>1, <3>1, SameRow
    <3> QED
      BY <2>1, <3>1, <3>2 DEF Smooth, Has
  <2>4. CASE Installed /\ Goto(After(installing))
    <3>1. pc' = "start" /\ UNCHANGED <<todo, path, host, operator>> /\ leaked' = {}
      BY <2>1, <2>4 DEF Installed, Goto, After
    <3>2. OnItsWay'
      BY <1>1, <3>1, SameRow
    <3> QED
      BY <2>1, <3>1, <3>2 DEF Smooth
  <2> QED
    BY <1>7, <2>2, <2>3, <2>4 DEF InstallStep
<1>8. CASE BuildSpec
  <2>1. SpecBuildable(Scn, Plan1.security, Has("openssl"))
    BY <1>2, GoodMaterial DEF Plan1, Has
  <2>2. path = "gateway" /\ DutKind(Plan1) = "tproxy" => Has("cap_net_admin")
    BY <1>2, <1>4, GoodCarrier DEF Plan1, Has, Needs
  <2>3. pc = "spec"
    BY <1>8 DEF BuildSpec
  <2>4. CASE Install("tproxy") /\ Has("cap_net_admin")
    <3>1. /\ pc' = "installing" /\ installing' = "tproxy"
          /\ UNCHANGED <<todo, path, host, guards, operator, leaked>>
      BY <2>4 DEF Install, StartInstalling, Goto
    <3>2. OnItsWay'
      BY <1>1, <3>1, SameRow
    <3> QED
      BY <2>3, <2>4, <3>1, <3>2 DEF Smooth, Has
  <2>5. CASE Goto("start") /\ Calm
    BY <1>0, <2>5, SmoothGoto
  <2> QED
    BY <1>8, <2>1, <2>2, <2>4, <2>5 DEF BuildSpec
<1> QED
  BY <1>5, <1>6, <1>7, <1>8

\* What the carrier of a row can play: everything but ping-pong over the datagrams of a gateway.
LEMMA PlayableRow ==
    ASSUME RowInv, OnItsWay, pc \in Carrying
    PROVE  /\ Supports(dut, EngineMode) <=> ~NoEcho
           /\ NoEcho => path = "gateway"
<1>0. /\ EnabledRow(Scn) /\ (path = "loopback" <=> ~Scn.gateway)
      /\ path = "reload" => Scn.reload # Absent
  BY DEF OnItsWay
<1>1. Playable(Scn) /\ Scn.interface \in Interfaces
  BY <1>0 DEF EnabledRow
<1>2. Scn.mode \in {"throughput", "pingpong", "connrate"} /\ Scn.gateway \in BOOLEAN
      /\ (Scn.mode = "connrate" => Scn.interface = "tcp")
  BY <1>1 DEF Playable, Modes
<1>3. path \in {"loopback", "gateway", "streams", "reload"}
  BY DEF RowInv, CarrierFits
<1>4. CASE path = "loopback"
  <2>1. dut = LoopbackDut(LoopbackTransport(Scn)) /\ LoopbackTransport(Scn) # Absent
    BY <1>4 DEF RowInv, CarrierFits
  <2>2. LoopbackTransport(Scn) = Scn.interface
    BY <2>1 DEF LoopbackTransport
  <2>3. ~dut.gateway /\ dut.kind = Scn.interface /\ EngineMode = Scn.mode
    BY <1>4, <2>1, <2>2 DEF LoopbackDut, EngineMode
  <2>4. ~NoEcho
    BY <1>0, <1>4 DEF NoEcho
  <2> QED
    BY <1>2, <2>3, <2>4 DEF Supports
<1>5. CASE path \in {"streams", "reload"}
  <2>1. HasStreams(Scn) \/ Scn.reload # Absent
    BY <1>0, <1>5 DEF RowInv, CarrierFits
  <2>2. Scn.mode = "throughput"
    BY <1>1, <2>1 DEF Playable, HasStreams
  <2>3. EngineMode = "throughput" /\ ~NoEcho
    BY <2>2 DEF EngineMode, NoEcho
  <2> QED
    BY <2>3 DEF Supports
<1>6. CASE path = "gateway"
  <2>1. /\ dut.gateway /\ dut.kind = DutKind(Plan1) /\ ~HasStreams(Scn) /\ EngineMode = Scn.mode
        /\ Scn.gateway
    BY <1>0, <1>2, <1>6 DEF RowInv, CarrierFits, CarrierKind, EngineMode
  <2>2. DutKind(Plan1) = IF Scn.interface = "unix" THEN "uds" ELSE Scn.interface
    BY <1>0, <2>1, GoodCarrier DEF Plan1
  <2>3. (dut.kind = "udp" <=> Scn.interface = "udp") /\ (Scn.interface = "tcp" => dut.kind = "tcp")
    BY <2>1, <2>2
  <2> QED
    BY <1>2, <1>6, <2>1, <2>3 DEF Supports, NoEcho
<1> QED
  BY <1>3, <1>4, <1>5, <1>6

\* The gateway starts, the traffic runs and the row is recorded.
LEMMA SmoothTraffic ==
    ASSUME RowInv, Smooth,
           \/ StartGateway \/ RunTraffic \/ Calibrate \/ Sweep
           \/ \E fell_back \in BOOLEAN : Record(fell_back)
    PROVE  Smooth'
<1>0. pc \in {"start"} \cup Carrying /\ UNCHANGED hostVars
  BY DEF StartGateway, RunTraffic, Calibrate, Sweep, Record, Carrying, Calm
<1>1. OnItsWay
  BY <1>0 DEF Smooth, Preparing
<1>2. EnabledRow(Scn)
  BY <1>1 DEF OnItsWay
<1>3. UNCHANGED <<operator, leaked>>
  BY <1>0 DEF hostVars
<1>4. ASSUME pc' \in {"run", "calibrate", "sweep", "record"}, UNCHANGED <<todo, path, host>>,
             pc' # "run" => ~NoEcho
      PROVE  Smooth'
  <2>1. OnItsWay' /\ NoEcho' = NoEcho
    BY <1>1, <1>4, SameRow
  <2> QED
    BY <1>3, <1>4, <2>1 DEF Smooth
<1>5. CASE StartGateway
  <2>1. pc = "start"
    BY <1>5 DEF StartGateway
  <2>2. path = "reload" => TemplateAvailable
    <3> SUFFICES ASSUME path = "reload" PROVE TemplateAvailable
      OBVIOUS
    <3>1. Scn.reload # Absent /\ Scn.gateway /\ ~HasStreams(Scn)
      BY <1>1, <1>2 DEF OnItsWay, RowInv, CarrierFits, EnabledRow, Playable
    <3> QED
      BY <1>2, <3>1, GoodTemplate
  <2>3. pc' = "run" /\ UNCHANGED <<todo, path, host>>
    BY <1>5, <2>2 DEF StartGateway
  <2> QED
    BY <1>4, <2>3
<1>6. CASE RunTraffic
  <2>1. pc = "run" /\ pc \in Carrying
    BY <1>6 DEF RunTraffic, Carrying
  <2>2. (Supports(dut, EngineMode) <=> ~NoEcho) /\ (NoEcho => path = "gateway")
    BY <1>1, <2>1, PlayableRow
  <2>3. CASE NoEcho
    <3>1. Leave("run-failed")
      BY <1>6, <2>2, <2>3 DEF RunTraffic, EngineError
    <3> QED
      BY <1>0, <2>3, <3>1, SmoothLeave
  <2>4. CASE ~NoEcho
    <3>1. pc' \in {"calibrate", "record"} /\ UNCHANGED <<todo, path, host>>
      BY <1>6, <2>2, <2>4 DEF RunTraffic
    <3> QED
      BY <1>4, <2>4, <3>1
  <2> QED
    BY <2>3, <2>4
<1>7. CASE Calibrate
  <2>1. pc' = "sweep" /\ UNCHANGED <<todo, path, host>> /\ ~NoEcho
    BY <1>7 DEF Calibrate, CalibrateWith, Smooth
  <2> QED
    BY <1>4, <2>1
<1>8. CASE Sweep
  <2>1. ~Scn.sweep.given
    BY <1>2 DEF EnabledRow, Untouched, NoSweep
  <2>2. pc' = "record" /\ UNCHANGED <<todo, path, host>> /\ ~NoEcho
    BY <1>8, <2>1 DEF Sweep, Goto, Smooth
  <2> QED
    BY <1>4, <2>2
<1>9. CASE \E fell_back \in BOOLEAN : Record(fell_back)
  <2>1. /\ pc' = "leave" /\ outcome' = "recorded" /\ ~NoEcho /\ UNCHANGED <<todo, path, host>>
    BY <1>9 DEF Record, Smooth
  <2>2. ~NoEcho'
    BY <2>1, SameRow
  <2> QED
    BY <1>3, <2>1, <2>2 DEF Smooth, Explained, Preparing, Carrying
<1> QED
  BY <1>5, <1>6, <1>7, <1>8, <1>9

\* Between two rows.
LEMMA SmoothTurns ==
    ASSUME Written(suite), Smooth, Launch \/ FinishSuite \/ PassOver \/ EndScenario
    PROVE  Smooth'
<1>1. operator' = operator /\ leaked' = leaked
  BY DEF Launch, FinishSuite, PassOver, EndScenario, Calm, hostVars, DropGuards
<1>2. pc' \in {"next", "done"}
  <2>1. CASE Launch
    <3>1. Validates(suite.defaults, Scenarios(suite))
      BY DEF Written
    <3> QED
      BY <2>1, <3>1 DEF Launch, Goto, Scenarios
  <2>2. CASE FinishSuite \/ PassOver
    BY <2>2 DEF FinishSuite, PassOver, Goto
  <2>3. CASE EndScenario
    <3>1. outcome # "aborted"
      BY <2>3 DEF EndScenario, Smooth, Explained
    <3> QED
      BY <2>3, <3>1 DEF EndScenario
  <2> QED
    BY <2>1, <2>2, <2>3
<1> QED
  BY <1>1, <1>2 DEF Smooth, Preparing, Carrying

\* Every step keeps it; after a disturbance only what is written is left.
LEMMA GeneratedSteps ==
    ASSUME HostInv, HoldsNothing, RowInv, AbortInv, GeneratedInv, [Next]_vars
    PROVE  GeneratedInv'
<1>1. suite' = suite
  BY DEF Next, Progress, Disturbance, Launch, FinishSuite, PassOver, Dispatch,
         ProvisionTopology, Impair, InstallStep, BuildSpec, StartGateway, RunTraffic, Calibrate,
         Sweep, EndScenario, Record, InstallRefused, StartFails, RunFails, RunEmpty, ProbeFails,
         Killed, Resume, OperatorCommand, Install, Goto, Leave, Enter, CalibrateWith, EngineError,
         driverVars, vars
<1> SUFFICES ASSUME suite.generated PROVE Written(suite)' /\ (disturbances' = 0 => Smooth')
  BY <1>1 DEF GeneratedInv
<1>2. Written(suite) /\ (disturbances = 0 => Smooth) /\ disturbances \in Nat
  BY DEF GeneratedInv, AbortInv
<1>3. Written(suite)'
  BY <1>1, <1>2
<1>4. CASE Disturbance
  <2>1. disturbances' = disturbances + 1
    BY <1>4 DEF Disturbance, InstallRefused, StartFails, RunFails, RunEmpty, ProbeFails, Killed,
                Resume, OperatorCommand, Disturb
  <2> QED
    BY <1>2, <1>3, <2>1
<1>5. CASE Progress
  <2>1. disturbances' = disturbances
    BY <1>5 DEF Progress, Launch, FinishSuite, PassOver, Dispatch, ProvisionTopology, Impair,
                InstallStep, BuildSpec, StartGateway, RunTraffic, Calibrate, Sweep, EndScenario,
                Record, Install, Calm, driverVars
  <2>2. Smooth => Smooth'
    BY <1>2, <1>5, SmoothTurns, SmoothDispatch, SmoothPrepare, SmoothTraffic DEF Progress
  <2> QED
    BY <1>2, <1>3, <2>1, <2>2
<1>6. CASE UNCHANGED vars
  <2>1. UNCHANGED <<todo, path, host, pc, outcome, disturbances, operator, leaked, guards, installing>>
    BY <1>6 DEF vars, driverVars, hostVars
  <2>2. Scn' = Scn /\ NoEcho' = NoEcho /\ OnItsWay' = OnItsWay
    BY <2>1, SameRow
  <2>3. Smooth' = Smooth
    BY <2>1, <2>2 DEF Smooth, Explained, Has
  <2> QED
    BY <1>2, <1>3, <2>1, <2>3
<1> QED
  BY <1>4, <1>5, <1>6 DEF Next

\* Without a disturbance every enabled row of a generated suite is measured, or skipped for a
\* requirement or a gateway that the host lacks, or is ping-pong over a gateway's datagrams:
\* for the documents of every coherent matrix, on every host.
THEOREM GeneratedRowsAreMeasured ==
    ASSUME \A c \in Cases : c.suite.generated => Expanded(c.suite)
    PROVE  Spec => []GeneratedRowsMeasured
<1>1. Init => GeneratedInv
  <2> SUFFICES ASSUME Init PROVE GeneratedInv
    OBVIOUS
  <2>1. PICK c \in Cases : suite = c.suite
    BY DEF Init
  <2>2. suite.generated => Written(suite)
    BY <2>1, ExpandedWritten
  <2>3. pc = "idle" /\ operator = {} /\ leaked = {}
    BY DEF Init, HostInit
  <2> QED
    BY <2>2, <2>3 DEF GeneratedInv, Smooth, Preparing, Carrying
<1>2. HostInv /\ HoldsNothing /\ RowInv /\ AbortInv /\ GeneratedInv /\ [Next]_vars => GeneratedInv'
  BY GeneratedSteps
<1>3. GeneratedInv => GeneratedRowsMeasured
  BY DEF GeneratedInv, GeneratedRowsMeasured, Smooth, Explained
<1> QED
  BY HostAlways, RowAlways, AbortAlways, <1>1, <1>2, <1>3, PTL DEF Spec

-----------------------------------------------------------------------------
(***************************************************************************)
(* Why a suite ends.  Fairness is out of the prover's reach, and so is     *)
(* SuiteEnds; what can be proved for every suite and every host is that    *)
(* the driver cannot go on for ever: StepsLeft is a natural number that    *)
(* every step lowers, unless it is one of the disturbances, of which there *)
(* are host.faults.                                                        *)
(***************************************************************************)
\* The order of the places a scenario passes; a skip leads straight to "leave".
Rank(place) ==
    IF place = "idle" THEN 16
    ELSE IF place = "next" THEN 15
    ELSE IF place = "topology" THEN 14
    ELSE IF place = "impair" THEN 12
    ELSE IF place = "spec" THEN 10
    ELSE IF place = "start" THEN 8
    ELSE IF place = "run" THEN 7
    ELSE IF place = "calibrate" THEN 6
    ELSE IF place = "sweep" THEN 5
    ELSE IF place = "record" THEN 4
    ELSE IF place = "leave" THEN 3
    ELSE 0

\* Three places install something: between them lie the places they return to.
Place ==
    IF pc # "installing" THEN Rank(pc)
    ELSE IF installing = "netem" THEN 11
    ELSE IF installing = "tproxy" THEN 9
    ELSE 13

\* An installation has at most 11 commands, and a scenario at most 15 places.
StepsLeft == 180 * Len(todo) + 12 * Place + Len(pending)

StepsRunDown ==
    /\ host' = host
    /\ \/ disturbances' = disturbances /\ StepsLeft' < StepsLeft
       \/ disturbances' = disturbances + 1 /\ disturbances' <= host.faults

\* What the count rests on.
Countable ==
    /\ todo \in Seq(ToSet(suite.items)) /\ (pc \notin Outside => todo # <<>>)
    /\ pending \in Seq(Cmds) /\ Len(pending) <= 11
    /\ pc # "installing" => pending = <<>>

\* The commands still to be executed are some of at most 11.
LEMMA FewPending == HostInv /\ HoldsNothing => pending \in Seq(Cmds) /\ Len(pending) <= 11
<1> SUFFICES ASSUME HostInv, HoldsNothing PROVE pending \in Seq(Cmds) /\ Len(pending) <= 11
  OBVIOUS
<1>1. CASE installing = "nothing"
  BY <1>1 DEF HostInv, Setup
<1>2. CASE installing # "nothing"
  <2>1. installing \in Installations /\ \E k \in Nat : At(k)
    BY <1>2, PickAt
  <2> DEFINE q == Commands(installing)
  <2>2. PICK k \in 0..Len(q) : pending = SubSeq(q, k + 1, Len(q))
    BY <2>1 DEF At
  <2>3. q \in Seq(Cmds) /\ Len(q) \in Nat
    BY <2>1, CommandsOf
  <2>4. Len(q) <= 11
    <3>1. /\ Len(VethCommands) = 5 /\ Len(NetnsCommands) = 11
          /\ Len(NetemCommands) = 1 /\ Len(TproxyCommands) = 8
      BY VethEffect, NetnsEffect, NetemEffect, TproxyEffect
    <3>2. q \in {VethCommands, NetnsCommands, NetemCommands, TproxyCommands}
      BY <2>1 DEF Commands, Installations
    <3> HIDE DEF q
    <3> DEFINE n == Len(q)
    <3>3. n \in {5, 11, 1, 8}
      BY <3>1, <3>2, Zenon
    <3>4. n <= 11
      <4> HIDE DEF n
      <4> QED
        BY <3>3
    <3> QED
      BY <3>4
  <2> HIDE DEF q
  <2>5. CASE k = Len(q)
    <3>1. pending = <<>>
      BY <2>2, <2>3, <2>5, SuffixHeadTail
    <3> QED
      BY <3>1
  <2>6. CASE k < Len(q)
    <3>1. \A i \in (k + 1)..Len(q) : q[i] \in Cmds
      BY <2>2, <2>3
    <3>2. k + 1 \in Int /\ Len(q) \in Int /\ k + 1 <= Len(q)
      BY <2>2, <2>3, <2>6
    <3>3. SubSeq(q, k + 1, Len(q)) \in Seq(Cmds) /\ Len(SubSeq(q, k + 1, Len(q))) = Len(q) - (k + 1) + 1
      BY <3>1, <3>2, SubSeqProperties
    <3> QED
      BY <2>2, <2>3, <2>4, <3>3
  <2> QED
    BY <2>2, <2>3, <2>5, <2>6
<1> QED
  BY <1>1, <1>2

\* The invariants of the host and of the rows make the steps countable.
LEMMA IsCountable == HostInv /\ HoldsNothing /\ RowInv => Countable
<1> SUFFICES ASSUME HostInv, HoldsNothing, RowInv PROVE Countable
  OBVIOUS
<1>1. pc # "installing" => pending = <<>>
  BY DEF HoldsNothing, HostInv, Setup
<1> QED
  BY <1>1, FewPending DEF Countable, RowInv, TodoItems

\* The count is a natural number.
LEMMA CountIsNat ==
    ASSUME Countable
    PROVE  /\ Len(todo) \in Nat /\ Place \in 0..16 /\ Len(pending) \in 0..11
           /\ StepsLeft \in Nat
<1>1. Place \in 0..16
  BY DEF Place, Rank
<1>2. Len(todo) \in Nat /\ Len(pending) \in Nat /\ Len(pending) <= 11
  BY LenProperties DEF Countable
<1> DEFINE a == Place  c == Len(pending)  n == Len(todo)
<1>3. StepsLeft = 180 * n + 12 * a + c /\ a \in 0..16 /\ c \in Nat /\ c <= 11 /\ n \in Nat
  BY <1>1, <1>2 DEF StepsLeft
<1>4. c \in 0..11 /\ StepsLeft \in Nat
  <2> HIDE DEF a, c, n
  <2> QED
    BY <1>3
<1> QED
  BY <1>3, <1>4

\* A step to a later place of the same scenario.
LEMMA Onwards ==
    ASSUME Countable, Countable', UNCHANGED todo, Place' < Place
    PROVE  StepsLeft' < StepsLeft
<1>1. Len(todo) \in Nat /\ Place \in 0..16 /\ Len(pending) \in 0..11
  BY CountIsNat
<1>2. Place' \in 0..16
  BY DEF Place, Rank
<1>3. Len(pending') \in Nat /\ Len(pending') <= 11
  BY LenProperties DEF Countable
<1> DEFINE a == Place  b == Place'  c == Len(pending)  d == Len(pending')  n == Len(todo)
<1>4. a \in 0..16 /\ b \in 0..16 /\ c \in 0..11 /\ d \in Nat /\ d <= 11 /\ n \in Nat /\ b < a
  BY <1>1, <1>2, <1>3
<1>5. StepsLeft = 180 * n + 12 * a + c /\ StepsLeft' = 180 * n + 12 * b + d
  BY DEF StepsLeft
<1> HIDE DEF a, b, c, d, n
<1> QED
  BY <1>4, <1>5

\* A step to the next item.
LEMMA ToNextItem ==
    ASSUME Countable, Countable', todo # <<>>, todo' = Tail(todo),
           pc # "installing", pc' # "installing", Rank(pc) >= 3, Rank(pc') <= 15
    PROVE  StepsLeft' < StepsLeft
<1>1. Len(todo') = Len(todo) - 1 /\ Len(todo) \in Nat
  BY HeadTailProperties DEF Countable
<1>2. Len(pending) = 0 /\ Len(pending') = 0
  BY DEF Countable
<1>3. Place = Rank(pc) /\ Place' = Rank(pc') /\ Rank(pc) \in Nat /\ Rank(pc') \in Nat
  BY DEF Place, Rank
<1> DEFINE a == Rank(pc)  b == Rank(pc')  n == Len(todo)
<1>4. StepsLeft = 180 * n + 12 * a /\ StepsLeft' = 180 * (n - 1) + 12 * b
  BY <1>1, <1>2, <1>3 DEF StepsLeft
<1>5. a \in Nat /\ b \in Nat /\ n \in Nat /\ a >= 3 /\ b <= 15
  BY <1>1, <1>3
<1> HIDE DEF a, b, n
<1> QED
  BY <1>4, <1>5

\* The disturbances are counted, and are as many as the host allows at most.
Tallied == host.faults \in Nat /\ disturbances \in 0..host.faults

\* The tally is kept by every step.
LEMMA TalliedAlways == Spec => []Tallied
<1>1. Init => Tallied
  <2> SUFFICES ASSUME Init PROVE Tallied
    OBVIOUS
  <2>1. PICK c \in Cases : host = c.host
    BY DEF Init
  <2>2. host.faults \in Nat
    BY <2>1, CasesAssumption
  <2> QED
    BY <2>2 DEF Init, Tallied
<1>2. Tallied /\ [Next]_vars => Tallied'
  <2> SUFFICES ASSUME Tallied, [Next]_vars PROVE Tallied'
    OBVIOUS
  <2>1. host' = host /\ (disturbances' = disturbances \/ Disturb)
    BY DEF Next, Progress, Disturbance, Launch, FinishSuite, PassOver, Dispatch,
         ProvisionTopology, Impair, InstallStep, BuildSpec, StartGateway, RunTraffic, Calibrate,
         Sweep, EndScenario, Record, InstallRefused, StartFails, RunFails, RunEmpty, ProbeFails,
         Killed, Resume, OperatorCommand, Install, Goto, Leave, Enter, CalibrateWith, EngineError,
         Calm, driverVars, vars
  <2> QED
    BY <2>1 DEF Tallied, Disturb, Undisturbed
<1> QED
  BY <1>1, <1>2, PTL DEF Spec

\* Every step lowers the count or is a disturbance.
LEMMA CountSteps ==
    ASSUME Countable, Countable', HostTypeOK, Tallied, Next
    PROVE  StepsRunDown
<1> USE DEF Outside
<1>1. ASSUME UNCHANGED <<host, disturbances>>, UNCHANGED todo, Place' < Place
      PROVE  StepsRunDown
  BY <1>1, Onwards DEF StepsRunDown
<1>2. ASSUME Disturb, UNCHANGED host PROVE StepsRunDown
  <2>1. disturbances < host.faults /\ disturbances' = disturbances + 1
    BY <1>2 DEF Disturb, Undisturbed
  <2>2. disturbances + 1 <= host.faults
    BY <2>1 DEF Tallied
  <2> QED
    BY <1>2, <2>1, <2>2 DEF StepsRunDown
<1>3. \A how : Leave(how) /\ pc \in {"next", "topology", "spec", "start", "run", "calibrate", "sweep", "installing"}
               => Place' < Place /\ UNCHANGED <<host, todo>>
  BY DEF Leave, Place, Rank
<1>4. CASE Launch
  <2>1. pc = "idle" /\ pc' \in {"next", "refused"} /\ UNCHANGED <<host, disturbances, todo>>
    BY <1>4 DEF Launch, Goto, Calm
  <2> QED
    BY <2>1, <1>1 DEF Place, Rank
<1>5. CASE FinishSuite
  BY <1>5, <1>1 DEF FinishSuite, Goto, Calm, Place, Rank
<1>6. CASE PassOver
  <2>1. /\ pc = "next" /\ pc' = "next" /\ todo # <<>> /\ todo' = Tail(todo)
        /\ UNCHANGED <<host, disturbances>>
    BY <1>6 DEF PassOver, Calm
  <2>2. StepsLeft' < StepsLeft
    BY <2>1, ToNextItem DEF Rank
  <2> QED
    BY <2>1, <2>2 DEF StepsRunDown
<1>7. CASE Dispatch
  <2>1. /\ pc = "next" /\ pc' \in {"leave", "run", "spec", "topology"}
        /\ UNCHANGED <<host, disturbances, todo>>
    BY <1>7 DEF Dispatch, Enter, Leave, Calm
  <2> QED
    BY <2>1, <1>1 DEF Place, Rank
<1>8. CASE ProvisionTopology
  <2>1. pc = "topology" /\ UNCHANGED <<host, disturbances, todo>>
    BY <1>8 DEF ProvisionTopology, Install, Goto, Leave, Calm
  <2>2. pc' \in {"impair", "leave", "installing"}
    BY <1>8 DEF ProvisionTopology, Install, Goto, Leave
  <2> QED
    BY <2>1, <2>2, <1>1 DEF Place, Rank
<1>9. CASE Impair
  <2>1. pc = "impair" /\ UNCHANGED <<host, disturbances, todo>>
    BY <1>9 DEF Impair, Install, Goto, Calm
  <2>2. pc' = "spec" \/ (pc' = "installing" /\ installing' = "netem")
    BY <1>9 DEF Impair, Install, StartInstalling, Goto
  <2> QED
    BY <2>1, <2>2, <1>1 DEF Place, Rank
<1>10. CASE InstallStep
  <2>1. CASE CommandRuns /\ UNCHANGED driverVars
    <3>1. /\ UNCHANGED <<host, disturbances, todo, pc, installing>>
          /\ pending # <<>> /\ pending' = Tail(pending)
      BY <2>1 DEF CommandRuns, driverVars
    <3>2. Place' = Place
      BY <3>1 DEF Place
    <3>3. Len(pending') = Len(pending) - 1
      BY <3>1, HeadTailProperties DEF Countable
    <3>4. Len(todo) \in Nat /\ Place \in 0..16 /\ Len(pending) \in 0..11
      BY CountIsNat
    <3> DEFINE a == Place  c == Len(pending)  d == Len(pending')  n == Len(todo)
    <3>5. StepsLeft = 180 * n + 12 * a + c /\ StepsLeft' = 180 * n + 12 * a + d
      BY <3>1, <3>2 DEF StepsLeft
    <3>6. a \in Nat /\ c \in Nat /\ d = c - 1 /\ n \in Nat
      BY <3>3, <3>4
    <3>7. StepsLeft' < StepsLeft
      <4> HIDE DEF a, c, d, n
      <4> QED
        BY <3>5, <3>6
    <3> QED
      BY <3>1, <3>7 DEF StepsRunDown
  <2>2. CASE Installed /\ Goto(After(installing)) /\ UNCHANGED disturbances
    <3>1. /\ pc = "installing" /\ installing \in Installations
          /\ pc' = After(installing) /\ UNCHANGED <<host, disturbances, todo>>
      BY <1>10, <2>2 DEF InstallStep, Installed, Goto, HostTypeOK
    <3>2. \/ installing \in {"veth", "netns"} /\ pc' = "impair"
          \/ installing = "netem" /\ pc' = "spec"
          \/ installing = "tproxy" /\ pc' = "start"
      BY <3>1 DEF After, Installations
    <3> QED
      BY <3>1, <3>2, <1>1 DEF Place, Rank
  <2>3. CASE Leave("setup-failed") /\ UNCHANGED disturbances
    <3>1. pc = "installing"
      BY <1>10 DEF InstallStep
    <3> QED
      BY <2>3, <3>1, <1>1, <1>3
  <2> QED
    BY <1>10, <2>1, <2>2, <2>3 DEF InstallStep
<1>11. CASE BuildSpec
  <2>1. pc = "spec" /\ UNCHANGED <<host, disturbances, todo>>
    BY <1>11 DEF BuildSpec, Install, Goto, Leave, Calm
  <2>2. pc' \in {"start", "leave"} \/ (pc' = "installing" /\ installing' = "tproxy")
    BY <1>11 DEF BuildSpec, Install, StartInstalling, Goto, Leave
  <2> QED
    BY <2>1, <2>2, <1>1 DEF Place, Rank
<1>12. CASE StartGateway
  <2>1. pc = "start" /\ pc' \in {"run", "leave"} /\ UNCHANGED <<host, disturbances, todo>>
    BY <1>12 DEF StartGateway, Leave, Calm
  <2> QED
    BY <2>1, <1>1 DEF Place, Rank
<1>13. CASE RunTraffic
  <2>1. /\ pc = "run" /\ pc' \in {"calibrate", "record", "leave"}
        /\ UNCHANGED <<host, disturbances, todo>>
    BY <1>13 DEF RunTraffic, EngineError, Leave, Calm
  <2> QED
    BY <2>1, <1>1 DEF Place, Rank
<1>14. CASE Calibrate
  <2>1. pc = "calibrate" /\ pc' = "sweep" /\ UNCHANGED <<host, disturbances, todo>>
    BY <1>14 DEF Calibrate, CalibrateWith, Calm
  <2> QED
    BY <2>1, <1>1 DEF Place, Rank
<1>15. CASE Sweep
  <2>1. pc = "sweep" /\ pc' \in {"record", "leave"} /\ UNCHANGED <<host, disturbances, todo>>
    BY <1>15 DEF Sweep, Goto, Leave, Calm
  <2> QED
    BY <2>1, <1>1 DEF Place, Rank
<1>16. CASE EndScenario
  <2>1. /\ pc = "leave" /\ pc' \in {"aborted", "next"} /\ todo' = Tail(todo)
        /\ UNCHANGED <<host, disturbances>>
    BY <1>16 DEF EndScenario
  <2>2. todo # <<>>
    BY <2>1 DEF Countable
  <2>3. StepsLeft' < StepsLeft
    BY <2>1, <2>2, ToNextItem DEF Rank
  <2> QED
    BY <2>1, <2>3 DEF StepsRunDown
<1>17. CASE \E fell_back \in BOOLEAN : Record(fell_back)
  <2>1. pc = "record" /\ pc' = "leave" /\ UNCHANGED <<host, disturbances, todo>>
    BY <1>17 DEF Record, Calm
  <2> QED
    BY <2>1, <1>1 DEF Place, Rank
<1>18. CASE Disturbance
  <2>1. Disturb /\ UNCHANGED host
    BY <1>18 DEF Disturbance, InstallRefused, StartFails, RunFails, RunEmpty, ProbeFails, Killed,
                 Resume, OperatorCommand, EngineError, Leave, CalibrateWith
  <2> QED
    BY <2>1, <1>2
<1> QED
  BY <1>4, <1>5, <1>6, <1>7, <1>8, <1>9, <1>10, <1>11, <1>12, <1>13, <1>14, <1>15, <1>16, <1>17,
     <1>18 DEF Next, Progress

\* Every step of a suite on any host brings it nearer to its end, or is one of the
\* disturbances the host has left: no loop of the driver (over the items, over the
\* commands of a setup) can repeat itself, whatever fails on the way.  A launch or a
\* resume therefore takes at most 180 * Len(suite.items) + 192 steps to its end or to
\* the next disturbance.
THEOREM SuitesRunDown == Spec => [](StepsLeft \in Nat) /\ [][StepsRunDown]_vars
<1>1. HostInv /\ HoldsNothing /\ RowInv => Countable /\ HostTypeOK
  BY IsCountable DEF HostInv
<1>2. Countable => StepsLeft \in Nat
  BY CountIsNat
<1>3. Countable /\ Countable' /\ HostTypeOK /\ Tallied /\ [Next]_vars
         => [StepsRunDown]_vars
  BY CountSteps
<1> QED
  BY HostAlways, RowAlways, TalliedAlways, <1>1, <1>2, <1>3, PTL DEF Spec

-----------------------------------------------------------------------------
(***************************************************************************)
(* The type invariant.  That the connections opened on a carrier are a     *)
(* natural number depends on validation: a sweep whose step or range were  *)
(* not positive would have no number of points.                            *)
(***************************************************************************)
SweepsWhole ==
    \A item \in ToSet(suite.items) :
        item.scenario.sweep.given =>
            /\ item.scenario.sweep.start \in Int /\ item.scenario.sweep.step \in Int
            /\ item.scenario.sweep.max \in Int

Outcomes == SkipReasons \cup {"none", "running", "recorded", "aborted"}

\* A scenario that has a driver was enabled, hence checked in full.
EnabledHere == path # "none" => Scn.enabled

TypeInv ==
    SweepsWhole /\ EnabledHere /\ path \in Paths /\ opened \in Nat /\ outcome \in Outcomes

\* A validated sweep has at least one point, and at most MaxSweepPoints.
LEMMA PointsOfSweep ==
    ASSUME NEW s, s.sweep.given, s.enabled, ScenarioErrors(s) = {},
           s.sweep.start \in Int, s.sweep.step \in Int, s.sweep.max \in Int
    PROVE  SweepPoints(s) \in Nat \ {0} /\ SweepPoints(s) <= MaxSweepPoints
<1>1. SweepErrors(s) = {}
  BY DEF ScenarioErrors
<1>2. s.sweep.step > 0 /\ s.sweep.max >= s.sweep.start
  BY <1>1 DEF SweepErrors, Error
<1> DEFINE a == s.sweep.start  b == s.sweep.max  d == s.sweep.step
           n == (b - a) \div d
<1>3. a \in Int /\ b \in Int /\ d \in Int /\ d > 0 /\ b - a >= 0
  BY <1>2
<1>4. n \in Nat
  <2> HIDE DEF a, b, d
  <2> QED
    BY <1>3
<1>5. SweepPoints(s) = IF n + 1 > MaxSweepPoints THEN MaxSweepPoints ELSE n + 1
  BY DEF SweepPoints
<1> HIDE DEF n
<1> QED
  BY <1>4, <1>5 DEF MaxSweepPoints

\* Each step keeps the types.
LEMMA TypeSteps ==
    ASSUME RowInv, ItemCounts, PathInv, TypeInv, [Next]_vars
    PROVE  TypeInv'
<1>0. pc \in Outside => path = "none"
  BY DEF RowInv, CarrierFits
<1>1. ASSUME UNCHANGED <<suite, path>>, todo' = todo \/ path = "none",
             opened' = opened \/ opened' = 0, outcome' = outcome \/ outcome' \in Outcomes
      PROVE  TypeInv'
  BY <1>1 DEF TypeInv, SweepsWhole, EnabledHere, Scn
<1>2. ASSUME NEW how \in Outcomes, Leave(how) PROVE TypeInv'
  BY <1>1, <1>2 DEF Leave
<1>3. {"unmet-requirements", "not-implemented", "no-gateway-binary", "unsupported-mode",
       "unsupported-topology", "no-capability", "setup-failed", "no-security-material",
       "gateway-failed-to-start", "run-failed", "zero-metrics", "none", "running", "recorded",
       "aborted"} \subseteq Outcomes
  BY DEF Outcomes, SkipReasons
<1>4. CASE Launch \/ FinishSuite \/ PassOver \/ Calibrate \/ OperatorCommand \/ UNCHANGED vars
  BY <1>0, <1>1, <1>4 DEF Launch, FinishSuite, PassOver, Calibrate, OperatorCommand, vars, driverVars,
                          Goto, CalibrateWith, Outside
<1>5. CASE Dispatch
  <2>1. CASE \E how \in Outcomes : Leave(how)
    BY <2>1, <1>2
  <2>2. CASE \E driver \in Paths : \E carrier, next : Enter(driver, carrier, next)
    <3>1. UNCHANGED <<suite, todo>> /\ path' \in Paths /\ opened' = 0 /\ outcome' = "running"
      BY <2>2 DEF Enter
    <3>2. Scn.enabled
      BY <1>5 DEF Dispatch
    <3> QED
      BY <3>1, <3>2, <1>3 DEF TypeInv, SweepsWhole, EnabledHere, Scn
  <2> QED
    BY <1>3, <1>5, <2>1, <2>2 DEF Dispatch, Paths
<1>6. CASE ProvisionTopology \/ Impair \/ BuildSpec \/ InstallStep \/ InstallRefused
  <2>1. CASE \E how \in Outcomes : Leave(how)
    BY <2>1, <1>2
  <2>2. CASE UNCHANGED <<suite, todo, path, opened, outcome>>
    BY <2>2, <1>1
  <2> QED
    BY <1>3, <1>6, <2>1, <2>2 DEF ProvisionTopology, Impair, BuildSpec, InstallStep, InstallRefused,
                                  Install, Goto, driverVars
<1>7. CASE StartGateway \/ StartFails \/ RunFails \/ RunEmpty
  <2>1. CASE \E how \in Outcomes : Leave(how)
    BY <2>1, <1>2
  <2>2. CASE UNCHANGED <<suite, todo, path, opened, outcome>>
    BY <2>2, <1>1
  <2> QED
    BY <1>3, <1>7, <2>1, <2>2 DEF StartGateway, StartFails, RunFails, RunEmpty, EngineError
<1>8. CASE RunTraffic
  <2>1. CASE \E how \in Outcomes : Leave(how)
    BY <2>1, <1>2
  <2>2. CASE opened' = Params.connections * Params.runs /\ UNCHANGED <<suite, todo, path, outcome>>
    <3>1. todo \in Seq(ToSet(suite.items)) /\ todo # <<>>
      BY <1>8 DEF RunTraffic, RowInv, TodoItems, Outside
    <3>2. opened' \in Nat
      BY <2>2, <3>1, UsedUp
    <3> QED
      BY <2>2, <3>2 DEF TypeInv, SweepsWhole, EnabledHere, Scn
  <2> QED
    BY <1>3, <1>8, <2>1, <2>2 DEF RunTraffic, EngineError
<1>9. CASE ProbeFails
  <2>1. CASE \E how \in Outcomes : Leave(how)
    BY <2>1, <1>2
  <2>2. CASE UNCHANGED <<suite, todo, path, opened, outcome>>
    BY <2>2, <1>1
  <2> QED
    BY <1>3, <1>9, <2>1, <2>2 DEF ProbeFails, CalibrateWith
<1>10. CASE Sweep
  <2>1. CASE \E how \in Outcomes : Leave(how)
    BY <2>1, <1>2
  <2>2. CASE UNCHANGED <<suite, todo, path, opened, outcome>>
    BY <2>2, <1>1
  <2>3. CASE /\ Scn.sweep.given /\ opened' = opened + SweepPoints(Scn) * Params.connections
             /\ UNCHANGED <<suite, todo, path, outcome>>
    <3>1. pc = "sweep" /\ todo \in Seq(ToSet(suite.items)) /\ todo # <<>>
      BY <1>10 DEF Sweep, RowInv, TodoItems, Outside
    <3>2. Head(todo) \in ToSet(suite.items)
      BY <3>1, HeadTailProperties
    <3>3. Scn.enabled /\ ScenarioErrors(Scn) = {}
      BY <3>1, <3>2 DEF PathInv, ItemsChecked, Launched, Scn, TypeInv, EnabledHere, RowInv, CarrierFits
    <3>4. Scn.sweep.start \in Int /\ Scn.sweep.step \in Int /\ Scn.sweep.max \in Int
      BY <2>3, <3>2 DEF TypeInv, SweepsWhole, Scn
    <3>5. SweepPoints(Scn) \in Nat
      BY <2>3, <3>3, <3>4, PointsOfSweep
    <3>6. Params.connections \in Nat
      BY <3>1, UsedUp
    <3> DEFINE n == SweepPoints(Scn)  c == Params.connections
    <3>7. n \in Nat /\ c \in Nat /\ opened \in Nat /\ opened' = opened + n * c
      BY <2>3, <3>5, <3>6 DEF TypeInv
    <3> HIDE DEF n, c
    <3>8. opened' \in Nat
      BY <3>7
    <3> QED
      BY <2>3, <3>8 DEF TypeInv, SweepsWhole, EnabledHere, Scn
  <2> QED
    BY <1>3, <1>10, <2>1, <2>2, <2>3 DEF Sweep, Goto
<1>11. CASE EndScenario \/ Killed \/ Resume \/ \E fell_back \in BOOLEAN : Record(fell_back)
  <2>1. /\ UNCHANGED suite /\ path' \in {path, "none"} /\ opened' \in {opened, 0}
        /\ outcome' \in {outcome, "none", "recorded"}
        /\ path' = "none" \/ UNCHANGED <<todo, path>>
    BY <1>0, <1>11 DEF EndScenario, Killed, Resume, Record, Outside
  <2> QED
    BY <2>1, <1>3 DEF TypeInv, SweepsWhole, Paths, EnabledHere, Scn
<1> QED
  BY <1>4, <1>5, <1>6, <1>7, <1>8, <1>9, <1>10, <1>11 DEF Next, Progress, Disturbance

\* The driver's variables keep their types, for any suites on any hosts.
THEOREM TypeCorrect == Spec => []TypeOK
<1>1. Init => TypeInv
  <2> SUFFICES ASSUME Init PROVE TypeInv
    OBVIOUS
  <2>1. PICK c \in Cases : suite = c.suite
    BY DEF Init
  <2>2. SweepsWhole
    BY <2>1, CasesAssumption DEF SweepsWhole
  <2>3. path = "none" /\ opened = 0 /\ outcome = "none"
    BY DEF Init
  <2> QED
    BY <2>2, <2>3 DEF TypeInv, Paths, Outcomes, EnabledHere
<1>2. AbortInv => ItemCounts
  BY DEF AbortInv
<1>3. RowInv /\ ItemCounts /\ PathInv /\ TypeInv /\ [Next]_vars => TypeInv'
  BY TypeSteps
<1>4. HostInv /\ TypeInv /\ Tallied => TypeOK
  BY DEF HostInv, TypeInv, Tallied, TypeOK, Outcomes
<1> QED
  BY HostAlways, RowAlways, AbortAlways, PathAlways, TalliedAlways, <1>1, <1>2, <1>3, <1>4, PTL
     DEF Spec
=============================================================================
