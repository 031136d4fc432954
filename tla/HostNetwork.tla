----------------------------- MODULE HostNetwork -----------------------------
(***************************************************************************)
(* The kernel's network state as SESHAT changes it: the veth and namespace *)
(* topologies (topology/mod.rs), the netem qdisc (topology/impair.rs) and  *)
(* the TPROXY rules (transport/tproxy.rs).  Every change is a command run  *)
(* one after the other; a guard object in the process removes what was     *)
(* installed when it is dropped.  The kernel is the set of the objects     *)
(* that exist; commands that only configure one (addresses, link state)    *)
(* need it and add nothing.                                                *)
(***************************************************************************)
EXTENDS Naturals, Sequences, FiniteSets

VARIABLES kernel,      \* objects that exist
          pending,     \* commands the running setup has still to execute
          installing,  \* what that setup installs, or "nothing"
          created,     \* objects it has created so far
          guards,      \* guard objects the process holds
          operator,    \* objects the operator's own subcommands installed
          leaked,      \* objects a failed setup or a crash left without a guard
          stale        \* installations that failed on a leaked object

hostVars == <<kernel, pending, installing, created, guards, operator, leaked, stale>>

Ends       == {"seshat-a", "seshat-b"}
Namespaces == {"scg_left", "scg_right"}
Moved      == {"seshat-a@scg_left", "seshat-b@scg_right"}
Transparent == {"rule", "route", "DIVERT", "divert-jump", "redirect"}

KernelObjects == Ends \cup Namespaces \cup Moved \cup Transparent \cup {"netem"}

Installations == {"veth", "netns", "netem", "tproxy"}

(***************************************************************************)
(* A command needs some objects, fails if one it creates is there, and     *)
(* replaces some.  A best-effort command may fail without consequence.     *)
(***************************************************************************)
Command(needs, creates, removes) ==
    [needs |-> needs, creates |-> creates, removes |-> removes, strict |-> TRUE]

Create(objects)      == Command({}, objects, {})
Configure(object)    == Command({object}, {}, {})
MoveEnd(end, ns, in) == Command({end, ns}, {in}, {end})

VethCommands ==
    << Create(Ends), Configure("seshat-a"), Configure("seshat-b"),
       Configure("seshat-a"), Configure("seshat-b") >>

NetnsCommands ==
    << Create({"scg_left"}), Create({"scg_right"}), Create(Ends),
       MoveEnd("seshat-a", "scg_left", "seshat-a@scg_left"),
       MoveEnd("seshat-b", "scg_right", "seshat-b@scg_right"),
       Configure("seshat-a@scg_left"), Configure("seshat-b@scg_right"),
       Configure("seshat-a@scg_left"), Configure("scg_left"),
       Configure("seshat-b@scg_right"), Configure("scg_right") >>

NetemCommands == << Create({"netem"}) >>

\* The chain is created on a best-effort basis, the commands after it are strict.
TproxyCommands ==
    << [Create({"DIVERT"}) EXCEPT !.strict = FALSE], Create({"rule"}), Create({"route"}),
       Configure("DIVERT"), Configure("DIVERT"), Configure("DIVERT"),
       Command({"DIVERT"}, {"divert-jump"}, {}), Create({"redirect"}) >>

Commands(what) ==
    CASE what = "veth"   -> VethCommands
      [] what = "netns"  -> NetnsCommands
      [] what = "netem"  -> NetemCommands
      [] what = "tproxy" -> TproxyCommands

\* What dropping a guard removes: one end of a pair takes the other with it, and a
\* namespace its end of the pair.
RemovedByTopology(mode) ==
    IF mode = "veth" THEN Ends
    ELSE Namespaces \cup Moved \cup (IF Cardinality(kernel \cap Moved) = 1 THEN Ends ELSE {})

RemovedByImpairment == {"netem"}

\* Regression: the local route of the policy table is not deleted.
RemovedByTproxy_KeepsRoute == Transparent \ {"route"}

RemovedByTproxy == Transparent

Removed(what) ==
    CASE what \in {"veth", "netns"} -> RemovedByTopology(what)
      [] what = "netem"             -> RemovedByImpairment
      [] what = "tproxy"            -> RemovedByTproxy

HostTypeOK ==
    /\ {kernel, created, operator, leaked} \subseteq SUBSET KernelObjects
    /\ installing \in Installations \cup {"nothing"}
    /\ guards \subseteq Installations /\ stale \subseteq Installations

(***************************************************************************)
(* Installing: the guard exists only once every command has succeeded, so  *)
(* a setup that fails midway leaves what it created.                       *)
(***************************************************************************)
StartInstalling(what) ==
    /\ installing = "nothing"
    /\ installing' = what
    /\ pending' = Commands(what)
    /\ UNCHANGED <<kernel, created, guards, operator, leaked, stale>>

Succeeds(c) == c.needs \subseteq kernel /\ c.creates \cap kernel = {}

CommandRuns ==
    /\ installing # "nothing" /\ pending # <<>>
    /\ LET c    == Head(pending)
           done == IF Succeeds(c) THEN c.creates ELSE {}
           gone == IF Succeeds(c) THEN c.removes ELSE {}
       IN  /\ Succeeds(c) \/ ~c.strict
           /\ kernel' = (kernel \ gone) \cup done
           /\ created' = (created \ gone) \cup done
    /\ pending' = Tail(pending)
    /\ UNCHANGED <<installing, guards, operator, leaked, stale>>

Installed ==
    /\ installing # "nothing" /\ pending = <<>>
    /\ guards' = guards \cup {installing}
    /\ leaked' = leaked \ Removed(installing)
    /\ installing' = "nothing" /\ created' = {}
    /\ UNCHANGED <<kernel, pending, operator, stale>>

\* A strict command fails: an object is in its way, or the kernel refuses it.
CommandFails(refused) ==
    /\ installing # "nothing" /\ pending # <<>>
    /\ LET c == Head(pending) IN
       /\ c.strict
       /\ ~Succeeds(c) \/ refused
       /\ stale' = IF c.creates \cap leaked # {} THEN stale \cup {installing} ELSE stale
    /\ leaked' = leaked \cup created
    /\ created' = {} /\ installing' = "nothing" /\ pending' = <<>>
    /\ UNCHANGED <<kernel, guards, operator>>

\* Dropping guards: a removal that fails is ignored.
DropGuards(which) ==
    /\ kernel' = kernel \ (UNION {Removed(g) : g \in guards \cap which})
    /\ guards' = guards \ which
    /\ UNCHANGED <<pending, installing, created, operator, leaked, stale>>

\* A killed process runs no drop.
ProcessDies ==
    /\ leaked' = leaked \cup created \cup ((UNION {Removed(g) : g \in guards}) \cap kernel)
    /\ guards' = {} /\ installing' = "nothing" /\ pending' = <<>> /\ created' = {}
    /\ UNCHANGED <<kernel, operator, stale>>

(***************************************************************************)
(* The setup, impair and teardown subcommands.  The guard is forgotten, so *)
(* the operator owns what they install, complete or not.                   *)
(***************************************************************************)
OperatorSetup(what) ==
    /\ installing = "nothing" /\ guards = {}
    /\ \E n \in 1..Len(Commands(what)) :
          LET run  == SubSeq(Commands(what), 1, n)
              made == (UNION {run[i].creates : i \in 1..n}) \ (UNION {run[i].removes : i \in 1..n})
          IN  /\ \A i \in 1..n : run[i].creates \cap kernel = {}
              /\ n < Len(Commands(what)) => Commands(what)[n + 1].creates \cap kernel # {}
              /\ kernel' = kernel \cup made
              /\ operator' = operator \cup made
    /\ UNCHANGED <<pending, installing, created, guards, leaked, stale>>

OperatorTeardown(mode) ==
    /\ installing = "nothing" /\ guards = {}
    /\ kernel' = kernel \ RemovedByTopology(mode)
    /\ operator' = operator \cap kernel' /\ leaked' = leaked \cap kernel'
    /\ UNCHANGED <<pending, installing, created, guards, stale>>

HostInit ==
    /\ kernel = {} /\ pending = <<>> /\ installing = "nothing" /\ created = {}
    /\ guards = {} /\ operator = {} /\ leaked = {} /\ stale = {}
=============================================================================
