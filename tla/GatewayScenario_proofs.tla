------------------------ MODULE GatewayScenario_proofs ------------------------
(***************************************************************************)
(* Proofs about GatewayScenario: for any number of scenarios, of gateways  *)
(* per path and of process ids, no gateway outlives its scenario and no    *)
(* termination signal reaches a process it was not meant for.              *)
(*                                                                         *)
(* Neither is inductive by itself.  What carries them is how the program   *)
(* counter of the main thread bounds the processes that are alive (Owned,  *)
(* Progress), that a process id has one live holder (UniquePids), and that *)
(* a watchdog can be awake only while all the processes it remembers are   *)
(* (Watching): the main thread joins it before it stops the first one.     *)
(*                                                                         *)
(* ConfigRemoved and ReloadReportFinal rest on a second invariant, RInv,   *)
(* about what the helper threads may still do: the reload thread rewrites  *)
(* the configuration and the report concurrently with the main thread,     *)
(* and the main thread records the result only after it has joined it.     *)
(***************************************************************************)
EXTENDS GatewayScenario, TLAPS

Live(g) == st[g] \in {"up", "hung", "exited"}

\* Live processes belong to the current scenario, of a suite that goes on.
Owned == \A g \in Gateways : Live(g) => g[1] = cur /\ main \notin {"finished", "aborted"}

\* While processes are started, next is one of them.
Bounded == main \in {"start", "ready", "drop"} => next <= NGateways

\* Which of them may be alive, and which must be, at each point of the main thread.
Progress ==
    /\ main = "start" => \A g \in Gateways : Live(g) => g[2] < next
    /\ main = "ready" => \A g \in Gateways : Live(g) => g[2] <= next
    /\ main = "stop" => \A g \in Gateways : Live(g) => g[2] >= next
    /\ main \in {"start", "ready"} =>
         \A g \in Gateways : g[1] = cur /\ g[2] < next => Live(g)
    /\ main = "ready" => Live(This)
    /\ main \in {"join", "sweep"} => next = 1
    /\ main \in {"prepare", "run", "join", "sweep"} => \A g \in Gateways : g[1] = cur => Live(g)

\* The operating system gives no process the id of one that has not been waited for; and
\* nobody has the id of a process found to have exited while it started.
UniquePids ==
    /\ \A g, h \in Gateways : Live(g) /\ Live(h) /\ pid[g] = pid[h] => g = h
    /\ main = "drop" => \A g \in Gateways : Live(g) => pid[g] # pid[This]

\* A watchdog is awake only while its scenario runs or waits for it.
Watching ==
    \A s \in Scenarios :
        helper[s] \in {"watching", "firing"} =>
            s = cur /\ kind[s] = "watched" /\ main \in {"run", "join"}

\* The inductive invariant.
IInv == TypeOK /\ Bounded /\ Owned /\ Progress /\ UniquePids /\ Watching /\ KillsOnlyOwn

(***************************************************************************)
(* Signals.                                                                *)
(***************************************************************************)

\* What a signal by process id reaches is nobody, or a process that is still alive.
LEMMA ReachedAlive ==
    ASSUME TypeOK, NEW g \in Gateways
    PROVE  /\ Reached(g) \in Gateways \cup {Nobody}
           /\ Reached(g) \in Gateways => Live(Reached(g))
  <1>1. CASE Holders(pid[g]) = {}
    <2>1. Nobody \notin Gateways
      BY SuiteAssumption DEF Nobody, Gateways, Scenarios
    <2> QED BY <1>1, <2>1 DEF Reached
  <1>2. CASE Holders(pid[g]) # {}
    <2>1. Reached(g) \in Holders(pid[g])
      BY <1>2 DEF Reached
    <2> QED BY <2>1 DEF Holders, Live
  <1> QED BY <1>1, <1>2

\* The id of a live process is its own.
LEMMA ReachedOwn ==
    ASSUME UniquePids, NEW g \in Gateways, Live(g)
    PROVE  Reached(g) = g
  <1>1. Holders(pid[g]) = {g}
    BY DEF Holders, UniquePids, Live
  <1> QED BY <1>1 DEF Reached

\* Signals to live processes never go astray.
LEMMA SignalOwn ==
    ASSUME UniquePids, NEW sig, NEW gs \in SUBSET Gateways, \A g \in gs : Live(g),
           Signal(sig, gs)
    PROVE  strays' = strays
  <1>1. {h \in gs : Reached(h) # h} = {}
    BY ReachedOwn
  <1> QED BY <1>1 DEF Signal

\* A signal to any processes leaves the history of strays well typed.
LEMMA SignalTyped ==
    ASSUME TypeOK, NEW sig \in {"KILL", "TERM", "HUP"}, NEW gs \in SUBSET Gateways,
           Signal(sig, gs)
    PROVE  strays' \subseteq [sig : {"KILL", "TERM", "HUP"}, from : Gateways,
                              to : Gateways \cup {Nobody}]
  <1>1. \A g \in gs : Reached(g) \in Gateways \cup {Nobody}
    BY ReachedAlive
  <1> QED BY <1>1 DEF Signal, TypeOK

(***************************************************************************)
(* Type correctness of the parts the actions share.                        *)
(***************************************************************************)
SuiteTyped ==
    /\ kind \in [Scenarios -> Kinds] /\ cur \in Scenarios
    /\ main \in {"start", "ready", "drop", "prepare", "run", "join", "sweep", "stop",
                 "finished", "aborted"}
    /\ next \in 1 .. NGateways + 1 /\ verdict \in {"skipped", "recorded"}
    /\ report \in [Scenarios -> [outcome : {"pending", "skipped", "recorded", "aborted"},
                                 fired : BOOLEAN, applied : BOOLEAN]]

ProcTyped ==
    /\ st \in [Gateways -> {"none", "up", "hung", "exited", "reaped"}]
    /\ pid \in [Gateways -> Pids \cup {0}]
    /\ file \in [Gateways -> {"absent", "valid", "invalid", "swapped"}]

HelperTyped ==
    /\ helper \in [Scenarios -> {"none", "watching", "firing", "sleeping", "created", "write",
                                 "signal", "restore", "ended"}]
    /\ backup \in [Scenarios -> {"absent", "valid", "invalid", "swapped"}]
    /\ done \in [Scenarios -> BOOLEAN] /\ succeeded \in [Scenarios -> BOOLEAN]
    /\ fired \in [Scenarios -> BOOLEAN]

StraysTyped ==
    strays \subseteq [sig : {"KILL", "TERM", "HUP"}, from : Gateways,
                      to : Gateways \cup {Nobody}]

\* The type invariant is the conjunction of its parts.
LEMMA TypeParts == TypeOK <=> SuiteTyped /\ ProcTyped /\ HelperTyped /\ StraysTyped
  BY DEF TypeOK, SuiteTyped, ProcTyped, HelperTyped, StraysTyped

\* Likewise for the state after a step.
LEMMA TypePartsNext == TypeOK' <=> SuiteTyped' /\ ProcTyped' /\ HelperTyped' /\ StraysTyped'
  BY DEF TypeOK, SuiteTyped, ProcTyped, HelperTyped, StraysTyped

\* Ending a scenario keeps the types of the suite: the loop stays inside its range.
LEMMA OverTyped ==
    ASSUME SuiteTyped, kind' = kind,
           NEW outcome \in [outcome : {"pending", "skipped", "recorded", "aborted"},
                            fired : BOOLEAN, applied : BOOLEAN],
           Over(outcome)
    PROVE  SuiteTyped'
  <1>1. cur' \in Scenarios
    BY SuiteAssumption DEF Over, Following, SuiteTyped, Scenarios
  <1>2. next' \in 1 .. NGateways + 1
    BY SuiteAssumption DEF Over
  <1> QED BY <1>1, <1>2 DEF Over, SuiteTyped

\* What is recorded of a skipped scenario is well typed.
LEMMA SkippedTyped ==
    Skipped \in [outcome : {"pending", "skipped", "recorded", "aborted"},
                 fired : BOOLEAN, applied : BOOLEAN]
  BY DEF Skipped, Pending

\* Ending the suite with an error keeps the types of the suite.
LEMMA AbortTyped ==
    ASSUME SuiteTyped, kind' = kind, Abort
    PROVE  SuiteTyped'
  BY DEF Abort, SuiteTyped

\* Dropping handles the scenario holds.
LEMMA DropTyped ==
    ASSUME TypeOK, pid' = pid, NEW held \in SUBSET Gateways, DropAll(held)
    PROVE  ProcTyped' /\ StraysTyped'
  <1>1. StraysTyped'
    BY SignalTyped DEF DropAll, StraysTyped
  <1>2. ProcTyped'
    BY TypeParts DEF DropAll, Dropped, ProcTyped
  <1> QED BY <1>1, <1>2

\* The end of a reload action.
LEMMA ReloadEndsTyped ==
    ASSUME TypeOK, NEW s \in Scenarios, NEW ok \in BOOLEAN, ReloadEnds(s, ok)
    PROVE  SuiteTyped' /\ HelperTyped' /\ pid' = pid
  <1>1. HelperTyped'
    BY TypeParts DEF ReloadEnds, HelperTyped
  <1>2. SuiteTyped'
    BY TypeParts DEF ReloadEnds, SuiteTyped, suiteVars
  <1> QED BY <1>1, <1>2 DEF ReloadEnds

\* Every step of the main thread and of the engine keeps the types.
LEMMA MainTyped ==
    ASSUME TypeOK, Bounded, MainStep \/ EngineReturns \/ Sweep
    PROVE  TypeOK'
  <1> USE TypeParts, TypePartsNext
  <1>a. This \in Gateways \/ next > NGateways
    BY SuiteAssumption DEF This, Gateways, SuiteTyped
  <1>b. Held \subseteq Gateways
    BY DEF Held
  <1>1. CASE SkipEarly
    BY <1>1, OverTyped, SkippedTyped DEF SkipEarly, ProcTyped, HelperTyped, StraysTyped,
       procVars, helperVars
  <1>2. CASE Spawn
    BY <1>2, <1>a DEF Spawn, SuiteTyped, ProcTyped, HelperTyped, StraysTyped, helperVars
  <1>3. CASE SpawnFails
    <2>1. SuiteTyped'
      BY <1>3, OverTyped, SkippedTyped DEF SpawnFails
    <2>2. ProcTyped'
      BY <1>3 DEF SpawnFails, Dropped, ProcTyped
    <2>3. StraysTyped'
      BY <1>3, <1>b, SignalTyped DEF SpawnFails, StraysTyped
    <2>4. HelperTyped'
      BY <1>3 DEF SpawnFails, HelperTyped, helperVars
    <2> QED BY <2>1, <2>2, <2>3, <2>4
  <1>4. CASE WaitReady
    <2>1. SuiteTyped'
      BY <1>4, SuiteAssumption DEF WaitReady, SuiteTyped, Bounded
    <2> QED BY <1>4, <2>1 DEF WaitReady, ProcTyped, HelperTyped, StraysTyped, procVars, helperVars
  <1>5. CASE NotReady
    BY <1>5, <1>b, OverTyped, SkippedTyped, DropTyped DEF NotReady, HelperTyped, helperVars
  <1>6. CASE ExitedEarly
    BY <1>6 DEF ExitedEarly, SuiteTyped, ProcTyped, HelperTyped, StraysTyped, helperVars
  <1>7. CASE DropUnstarted
    <2>1. Held \cup {This} \subseteq Gateways
      BY <1>7, <1>a, <1>b, SuiteAssumption DEF DropUnstarted, Bounded, SuiteTyped
    <2> QED BY <1>7, <2>1, OverTyped, SkippedTyped, DropTyped
            DEF DropUnstarted, HelperTyped, helperVars
  <1>8. CASE SpawnHelper
    BY <1>8 DEF SpawnHelper, SuiteTyped, ProcTyped, HelperTyped, StraysTyped, procVars
  <1>9. CASE StageFails
    BY <1>9, SuiteAssumption
    DEF StageFails, SuiteTyped, ProcTyped, HelperTyped, StraysTyped, procVars, helperVars
  <1>10. CASE Join
    <2>1. [Recorded EXCEPT !.outcome = "pending"] \in
             [outcome : {"pending", "skipped", "recorded", "aborted"}, fired : BOOLEAN,
              applied : BOOLEAN]
      BY DEF Recorded, SuiteTyped, HelperTyped
    <2>2. SuiteTyped'
      BY <1>10, <2>1 DEF Join, SuiteTyped
    <2> QED BY <1>10, <2>2 DEF Join, ProcTyped, HelperTyped, StraysTyped, procVars, helperVars
  <1>11. CASE LateError
    BY <1>11, <1>b, AbortTyped, DropTyped DEF LateError, HelperTyped, helperVars
  <1>12. CASE Terminate
    <2>1. {g \in {This} : st[g] \in {"up", "hung"}} \in SUBSET Gateways
      BY <1>12, <1>a, SuiteAssumption DEF Terminate, SuiteTyped
    <2>2. StraysTyped'
      BY <1>12, <2>1, SignalTyped DEF Terminate, StraysTyped
    <2>3. SuiteTyped'
      BY <1>12, SuiteAssumption DEF Terminate, SuiteTyped
    <2> QED BY <1>12, <2>2, <2>3 DEF Terminate, FileAfterStop, ProcTyped, HelperTyped, helperVars
  <1>13. CASE TerminateFails
    BY <1>13, <1>b, AbortTyped, OverTyped, SkippedTyped, DropTyped
    DEF TerminateFails, HelperTyped, helperVars
  <1>14. CASE Record
    <2>1. [report[cur] EXCEPT !.outcome = verdict] \in
             [outcome : {"pending", "skipped", "recorded", "aborted"}, fired : BOOLEAN,
              applied : BOOLEAN]
      BY DEF SuiteTyped
    <2>2. SuiteTyped'
      BY <1>14, <2>1, OverTyped DEF Record
    <2> QED BY <1>14, <2>2 DEF Record, ProcTyped, HelperTyped, StraysTyped, procVars, helperVars
  <1>15. CASE RecordFails
    BY <1>15, AbortTyped DEF RecordFails, ProcTyped, HelperTyped, StraysTyped, procVars, helperVars
  <1>16. CASE EngineReturns
    BY <1>16, SuiteAssumption
    DEF EngineReturns, RunReturns, SuiteTyped, ProcTyped, HelperTyped, StraysTyped, procVars
  <1>17. CASE SweepReturns
    BY <1>17 DEF SweepReturns, SuiteTyped, ProcTyped, HelperTyped, StraysTyped, procVars, helperVars
  <1>18. CASE SweepFails
    BY <1>18, <1>b, AbortTyped, DropTyped DEF SweepFails, HelperTyped, helperVars
  <1> QED BY <1>1, <1>2, <1>3, <1>4, <1>5, <1>6, <1>7, <1>8, <1>9, <1>10, <1>11, <1>12, <1>13,
             <1>14, <1>15, <1>16, <1>17, <1>18 DEF MainStep, Sweep

\* Every step of a helper thread keeps the types.
LEMMA HelperStepTyped ==
    ASSUME TypeOK, NEW s \in Scenarios, Watchdog(s) \/ Reload(s)
    PROVE  TypeOK'
  <1> USE TypeParts, TypePartsNext
  <1>a. First(s) \in Gateways
    BY SuiteAssumption DEF First, Gateways
  <1>1. CASE WatchdogLeaves(s)
    BY <1>1 DEF WatchdogLeaves, SuiteTyped, ProcTyped, HelperTyped, StraysTyped, suiteVars, procVars
  <1>2. CASE WatchdogExpires(s)
    BY <1>2 DEF WatchdogExpires, SuiteTyped, ProcTyped, HelperTyped, StraysTyped, suiteVars, procVars
  <1>3. CASE ForceKill(s)
    <2>1. StraysTyped'
      BY <1>3, SignalTyped DEF ForceKill, Victims, StraysTyped
    <2> QED BY <1>3, <2>1 DEF ForceKill, SuiteTyped, ProcTyped, HelperTyped, suiteVars
  <1>4. CASE ReloadBegins(s)
    BY <1>4, <1>a
    DEF ReloadBegins, SuiteTyped, ProcTyped, HelperTyped, StraysTyped, suiteVars, procVars
  <1>5. CASE ReloadFails(s)
    BY <1>5, ReloadEndsTyped DEF ReloadFails, ProcTyped, StraysTyped
  <1>6. CASE CloseEndpoint(s)
    BY <1>6, ReloadEndsTyped DEF CloseEndpoint, ProcTyped, StraysTyped
  <1>7. CASE WriteConfig(s)
    BY <1>7, <1>a
    DEF WriteConfig, SuiteTyped, ProcTyped, HelperTyped, StraysTyped, suiteVars
  <1>8. CASE SignalReload(s)
    <2>1. StraysTyped'
      BY <1>8, <1>a, SignalTyped DEF SignalReload, StraysTyped
    <2>2. SuiteTyped' /\ HelperTyped' /\ pid' = pid
      BY <1>8, ReloadEndsTyped DEF SignalReload, SuiteTyped, HelperTyped, suiteVars
    <2> QED BY <1>8, <2>1, <2>2 DEF SignalReload, ProcTyped
  <1>9. CASE Restore(s)
    BY <1>9, <1>a, ReloadEndsTyped DEF Restore, ProcTyped, StraysTyped, HelperTyped
  <1> QED BY <1>1, <1>2, <1>3, <1>4, <1>5, <1>6, <1>7, <1>8, <1>9 DEF Watchdog, Reload

\* A gateway that fails by itself keeps the types.
LEMMA FailsTyped ==
    ASSUME TypeOK, NEW g \in Gateways, Fails(g)
    PROVE  TypeOK'
  BY TypeParts, TypePartsNext
  DEF Fails, SuiteTyped, ProcTyped, HelperTyped, StraysTyped, suiteVars, helperVars

\* So does a step that changes nothing.
LEMMA UnchangedTyped ==
    ASSUME TypeOK, UNCHANGED vars
    PROVE  TypeOK'
  BY TypeParts, TypePartsNext
  DEF vars, SuiteTyped, ProcTyped, HelperTyped, StraysTyped, suiteVars, procVars, helperVars

(***************************************************************************)
(* The safety parts of the invariant.                                      *)
(***************************************************************************)
Safe == Bounded /\ Owned /\ Progress /\ UniquePids /\ Watching /\ KillsOnlyOwn

\* A scenario that is over with all its processes waited for, and no watchdog awake, leaves
\* a safe state, whether the suite goes on or ends.
LEMMA CleanEnd ==
    ASSUME IInv, main \notin {"run", "join"},
           \A g \in Gateways : ~Live(g)',
           helper' = helper, KillsOnlyOwn',
           main' \in {"start", "finished", "aborted"}, main' = "start" => next' = 1
    PROVE  Safe'
  <1>1. Bounded'
    BY SuiteAssumption DEF Bounded
  <1>2. Owned'
    BY DEF Owned
  <1>3. Progress'
    <2>1. ASSUME NEW g \in Gateways, main' = "start", g[2] < next'
          PROVE  FALSE
      BY <2>1, SuiteAssumption DEF Gateways
    <2> QED BY <2>1 DEF Progress
  <1>4. UniquePids'
    BY DEF UniquePids
  <1>5. Watching'
    BY DEF Watching, IInv
  <1> QED BY <1>1, <1>2, <1>3, <1>4, <1>5 DEF Safe

\* Over and Abort end a scenario in one of these ways.
LEMMA OverEnds ==
    ASSUME NEW outcome, Over(outcome) \/ Abort
    PROVE  main' \in {"start", "finished", "aborted"} /\ (main' = "start" => next' = 1)
  BY DEF Over, Abort

\* Everything the scenario holds is everything that is alive.
LEMMA HeldIsLive ==
    ASSUME Owned
    PROVE  Held = {g \in Gateways : Live(g)}
  BY DEF Owned, Held, Live

\* Dropping all handles leaves no process alive and signals no other.
LEMMA DropAllClean ==
    ASSUME IInv, DropAll(Held)
    PROVE  (\A g \in Gateways : ~Live(g)') /\ KillsOnlyOwn'
  <1>1. \A g \in Gateways : ~Live(g)'
    BY HeldIsLive DEF IInv, DropAll, Dropped, Live
  <1>2. strays' = strays
    BY HeldIsLive, SignalOwn DEF IInv, DropAll
  <1> QED BY <1>1, <1>2 DEF IInv, KillsOnlyOwn

\* A step that starts and ends no process, and moves neither the main thread nor a watchdog.
LEMMA SameProcesses ==
    ASSUME IInv, \A g \in Gateways : Live(g)' <=> Live(g),
           cur' = cur, main' = main, next' = next, kind' = kind, pid' = pid,
           \A s \in Scenarios : helper'[s] \in {"watching", "firing"} =>
                                   helper[s] \in {"watching", "firing"},
           KillsOnlyOwn'
    PROVE  Safe'
  <1>1. Bounded' /\ Owned'
    BY DEF IInv, Bounded, Owned
  <1>2. Progress'
    <2>1. This' = This
      BY DEF This
    <2>2. main = "ready" => Live(This)'
      BY <2>1, SuiteAssumption DEF IInv, Progress, TypeOK, Bounded, This, Gateways
    <2> QED BY <2>2 DEF IInv, Progress, This, Live
  <1>3. UniquePids'
    BY DEF IInv, UniquePids, This
  <1>4. Watching'
    BY DEF IInv, Watching
  <1> QED BY <1>1, <1>2, <1>3, <1>4 DEF Safe

\* The steps of the main thread that end a scenario.
LEMMA EndSafe ==
    ASSUME IInv,
           \/ SkipEarly \/ SpawnFails \/ NotReady \/ DropUnstarted \/ LateError \/ SweepFails
           \/ TerminateFails \/ Record \/ RecordFails
    PROVE  Safe'
  <1> DEFINE NoneLive == \A g \in Gateways : ~Live(g)'
  <1>a. /\ main' \in {"start", "finished", "aborted"} /\ (main' = "start" => next' = 1)
        /\ main \notin {"run", "join"} /\ helper' = helper
    BY OverEnds DEF SkipEarly, SpawnFails, NotReady, DropUnstarted, LateError, SweepFails,
       TerminateFails, Record, RecordFails, helperVars
  <1>b. \A g \in Gateways : g[2] \in Int /\ 1 <= g[2] /\ g[2] <= NGateways
    BY SuiteAssumption DEF Gateways
  <1>1. CASE SkipEarly
    <2>1. \A g \in Gateways : ~Live(g)
      BY <1>1, <1>b DEF SkipEarly, IInv, Progress
    <2>3. NoneLive
      BY <1>1, <2>1 DEF SkipEarly, Live, procVars
    <2>2. KillsOnlyOwn'
      BY <1>1 DEF SkipEarly, IInv, KillsOnlyOwn
    <2> QED BY <1>a, <2>2, <2>3, CleanEnd
  <1>2. CASE SpawnFails
    <2>1. NoneLive
      BY <1>2, HeldIsLive DEF SpawnFails, Dropped, IInv, Live
    <2>2. strays' = strays
      BY <1>2, HeldIsLive, SignalOwn DEF SpawnFails, IInv
    <2> QED BY <1>a, <2>1, <2>2, CleanEnd DEF IInv, KillsOnlyOwn
  <1>3. CASE NotReady \/ LateError \/ SweepFails \/ TerminateFails
    <2>1. DropAll(Held)
      BY <1>3 DEF NotReady, LateError, SweepFails, TerminateFails
    <2> QED BY <1>a, <2>1, DropAllClean, CleanEnd
  <1>4. CASE DropUnstarted
    <2>1. NoneLive
      BY <1>4, HeldIsLive DEF DropUnstarted, DropAll, Dropped, IInv, Live
    <2>2. Reached(This) = Nobody
      BY <1>4 DEF DropUnstarted, IInv, UniquePids, Reached, Holders, Live
    <2>3. \A g \in Held : Reached(g) = g
      BY HeldIsLive, ReachedOwn DEF IInv
    <2>4. strays' \subseteq strays \cup {[sig |-> "KILL", from |-> This, to |-> Nobody]}
      BY <1>4, <2>2, <2>3 DEF DropUnstarted, DropAll, Signal
    <2>5. KillsOnlyOwn'
      BY <2>4 DEF IInv, KillsOnlyOwn
    <2> QED BY <1>a, <2>1, <2>5, CleanEnd
  <1>5. CASE Record \/ RecordFails
    <2>1. \A g \in Gateways : ~Live(g)
      <3>1. next \in Int /\ NGateways \in Int
        BY SuiteAssumption DEF IInv, TypeOK
      <3> QED BY <1>5, <1>b, <3>1 DEF Record, RecordFails, IInv, Progress
    <2>3. NoneLive
      BY <1>5, <2>1 DEF Record, RecordFails, Live, procVars
    <2>2. KillsOnlyOwn'
      BY <1>5 DEF Record, RecordFails, IInv, KillsOnlyOwn
    <2> QED BY <1>a, <2>2, <2>3, CleanEnd
  <1> QED BY <1>1, <1>2, <1>3, <1>4, <1>5

\* The steps that start and stop one process.
LEMMA ProcessSafe ==
    ASSUME IInv, Spawn \/ WaitReady \/ ExitedEarly \/ Terminate
    PROVE  Safe'
  <1> USE SuiteAssumption
  <1>a. TypeOK /\ next \in Nat /\ NGateways \in Nat
    BY DEF IInv, TypeOK
  <1>b. next <= NGateways /\ This \in Gateways
    BY <1>a DEF IInv, Bounded, Spawn, WaitReady, ExitedEarly, Terminate, This, Gateways, TypeOK
  <1>c. \A g \in Gateways : g[2] \in Nat /\ 1 <= g[2] /\ g[2] <= NGateways /\ g = <<g[1], g[2]>>
    BY DEF Gateways
  <1>d. \A g \in Gateways : g[1] = cur /\ g[2] = next => g = This
    BY <1>c DEF This
  <1>1. CASE Spawn
    <2>1. PICK p \in Pids : Holders(p) = {} /\ pid' = [pid EXCEPT ![This] = p]
      BY <1>1 DEF Spawn
    <2>2. \A g \in Gateways : Live(g)' <=> Live(g) \/ g = This
      BY <1>1, <1>a, <1>b DEF Spawn, Live, TypeOK
    <2>3. Bounded' /\ Owned'
      BY <1>1, <1>b, <2>2 DEF Spawn, Bounded, Owned, IInv, This
    <2>4. Progress'
      BY <1>1, <1>a, <1>b, <1>c, <2>2 DEF Spawn, Progress, IInv, This
    <2>5. \A g \in Gateways : Live(g) => pid[g] # p
      BY <2>1 DEF Holders, Live
    <2>6. UniquePids'
      BY <1>1, <1>a, <1>b, <2>1, <2>2, <2>5 DEF Spawn, UniquePids, IInv, TypeOK
    <2>7. Watching' /\ KillsOnlyOwn'
      BY <1>1 DEF Spawn, Watching, KillsOnlyOwn, IInv, helperVars
    <2> QED BY <2>3, <2>4, <2>6, <2>7 DEF Safe
  <1>2. CASE WaitReady
    <2>1. \A g \in Gateways : Live(g)' <=> Live(g)
      BY <1>2 DEF WaitReady, Live, procVars
    <2>2. Bounded' /\ Owned'
      BY <1>2, <1>a, <1>b, <2>1 DEF WaitReady, Bounded, Owned, IInv
    <2>3. \A g \in Gateways : Live(g) => g[2] <= next
      BY <1>2 DEF WaitReady, Progress, IInv
    <2>4. \A g \in Gateways : g[1] = cur /\ g[2] <= next => Live(g)
      BY <1>2, <1>a, <1>c, <1>d DEF WaitReady, Progress, IInv
    <2>5. Progress'
      BY <1>2, <1>a, <1>b, <1>c, <2>1, <2>3, <2>4 DEF WaitReady, Progress
    <2>6. UniquePids' /\ Watching' /\ KillsOnlyOwn'
      BY <1>2, <2>1 DEF WaitReady, UniquePids, Watching, KillsOnlyOwn, IInv, procVars, helperVars
    <2> QED BY <2>2, <2>5, <2>6 DEF Safe
  <1>3. CASE ExitedEarly
    <2>1. \A g \in Gateways : Live(g)' <=> Live(g) /\ g # This
      BY <1>3, <1>a, <1>b DEF ExitedEarly, Live, TypeOK
    <2>2. Live(This)
      BY <1>3 DEF ExitedEarly, Live
    <2>3. Bounded' /\ Owned'
      BY <1>3, <1>b, <2>1 DEF ExitedEarly, Bounded, Owned, IInv
    <2>4. Progress'
      BY <1>3 DEF ExitedEarly, Progress
    <2>5. UniquePids'
      BY <1>3, <1>b, <2>1, <2>2 DEF ExitedEarly, UniquePids, IInv, This
    <2>6. Watching' /\ KillsOnlyOwn'
      BY <1>3 DEF ExitedEarly, Watching, KillsOnlyOwn, IInv, helperVars
    <2> QED BY <2>3, <2>4, <2>5, <2>6 DEF Safe
  <1>4. CASE Terminate
    <2>1. \A g \in Gateways : Live(g)' <=> Live(g) /\ g # This
      BY <1>4, <1>a, <1>b DEF Terminate, Live, TypeOK
    <2>2. Bounded' /\ Owned'
      BY <1>4, <2>1 DEF Terminate, Bounded, Owned, IInv
    <2>3. Progress'
      BY <1>4, <1>a, <1>c, <1>d, <2>1 DEF Terminate, Progress, Owned, IInv
    <2>4. UniquePids'
      BY <1>4, <2>1 DEF Terminate, UniquePids, IInv
    <2>5. strays' = strays
      BY <1>4, <1>b, SignalOwn DEF Terminate, IInv, Live
    <2>6. Watching' /\ KillsOnlyOwn'
      BY <1>4, <2>5 DEF Terminate, Watching, KillsOnlyOwn, IInv, helperVars
    <2> QED BY <2>2, <2>3, <2>4, <2>6 DEF Safe
  <1> QED BY <1>1, <1>2, <1>3, <1>4

\* The steps around the run, which start and stop no process.
LEMMA RunSafe ==
    ASSUME IInv, SpawnHelper \/ StageFails \/ EngineReturns \/ Join \/ SweepReturns
    PROVE  Safe'
  <1> USE SuiteAssumption
  <1>a. UNCHANGED <<kind, cur, st, pid, file, strays>>
    BY DEF SpawnHelper, StageFails, EngineReturns, RunReturns, Join, SweepReturns, procVars
  <1>b. \A g \in Gateways : Live(g)' <=> Live(g)
    BY <1>a DEF Live
  <1>c. main \in {"prepare", "run", "join", "sweep"} /\ main' \in {"run", "join", "sweep", "stop"}
    BY DEF SpawnHelper, StageFails, EngineReturns, RunReturns, Join, SweepReturns
  <1>d. main' \in {"join", "sweep", "stop"} => next' = 1
    BY DEF SpawnHelper, StageFails, EngineReturns, RunReturns, Join, SweepReturns, IInv, Progress
  <1>1. Bounded' /\ Owned' /\ UniquePids' /\ KillsOnlyOwn'
    BY <1>a, <1>b, <1>c DEF IInv, Bounded, Owned, UniquePids, KillsOnlyOwn
  <1>2. Progress'
    <2>1. \A g \in Gateways : g[2] >= 1
      BY DEF Gateways
    <2> QED BY <1>a, <1>b, <1>c, <1>d, <2>1 DEF IInv, Progress
  <1>3. Watching'
    <2>1. CASE SpawnHelper
      BY <2>1 DEF SpawnHelper, IInv, TypeOK, Watching
    <2>2. CASE StageFails
      BY <2>2 DEF StageFails, IInv, Watching, helperVars
    <2>3. CASE EngineReturns
      BY <2>3 DEF EngineReturns, RunReturns, IInv, Watching
    <2>4. CASE Join
      BY <2>4 DEF Join, HelperJoined, IInv, Watching, helperVars
    <2>5. CASE SweepReturns
      BY <2>5 DEF SweepReturns, IInv, Watching, helperVars
    <2> QED BY <2>1, <2>2, <2>3, <2>4, <2>5
  <1> QED BY <1>1, <1>2, <1>3 DEF Safe

\* The helper threads.
LEMMA HelperSafe ==
    ASSUME IInv, NEW s \in Scenarios, Watchdog(s) \/ Reload(s)
    PROVE  Safe'
  <1>a. TypeOK /\ First(s) \in Gateways
    BY SuiteAssumption DEF IInv, First, Gateways
  <1>b. UNCHANGED <<cur, main, next, kind, pid>>
    BY DEF Watchdog, WatchdogLeaves, WatchdogExpires, ForceKill, Reload, ReloadBegins,
       ReloadFails, CloseEndpoint, WriteConfig, SignalReload, Restore, ReloadEnds, suiteVars,
       procVars
  <1>c. \A r \in Scenarios : helper'[r] \in {"watching", "firing"} =>
                                helper[r] \in {"watching", "firing"}
    BY <1>a DEF Watchdog, WatchdogLeaves, WatchdogExpires, ForceKill, Reload, ReloadBegins,
       ReloadFails, CloseEndpoint, WriteConfig, SignalReload, Restore, ReloadEnds, TypeOK
  <1>1. CASE ForceKill(s)
    <2>1. \A g \in Victims(s) : Live(g)
      BY <1>1 DEF ForceKill, Victims, IInv, Watching, Progress
    <2>2. strays' = strays
      BY <1>1, <2>1, SignalOwn DEF ForceKill, Victims, IInv
    <2>3. \A g \in Gateways : Live(g)' <=> Live(g)
      BY <1>1, <1>a, ReachedAlive DEF ForceKill, Victims, Live
    <2> QED BY <1>b, <1>c, <2>2, <2>3, SameProcesses DEF IInv, KillsOnlyOwn
  <1>2. CASE SignalReload(s)
    <2>1. \A g \in Gateways : Live(g)' <=> Live(g)
      BY <1>2 DEF SignalReload, Live
    <2>2. \A h \in strays' : h \in strays \/ h.sig = "HUP"
      BY <1>2 DEF SignalReload, Signal
    <2>3. KillsOnlyOwn'
      BY <2>2 DEF IInv, KillsOnlyOwn
    <2> QED BY <1>b, <1>c, <2>1, <2>3, SameProcesses
  <1>3. CASE ~ForceKill(s) /\ ~SignalReload(s)
    <2>1. UNCHANGED <<st, strays>>
      BY <1>3 DEF Watchdog, WatchdogLeaves, WatchdogExpires, Reload, ReloadBegins,
         ReloadFails, CloseEndpoint, WriteConfig, Restore, procVars
    <2>2. \A g \in Gateways : Live(g)' <=> Live(g)
      BY <2>1 DEF Live
    <2> QED BY <1>b, <1>c, <2>1, <2>2, SameProcesses DEF IInv, KillsOnlyOwn
  <1> QED BY <1>1, <1>2, <1>3

\* A gateway fails by itself.
LEMMA FailsSafe ==
    ASSUME IInv, NEW g \in Gateways, Fails(g)
    PROVE  Safe'
  <1>1. \A h \in Gateways : Live(h)' <=> Live(h)
    BY DEF Fails, IInv, TypeOK, Live
  <1>2. UNCHANGED <<cur, main, next, kind, pid, helper, strays>>
    BY DEF Fails, suiteVars, helperVars
  <1> QED BY <1>1, <1>2, SameProcesses DEF IInv, KillsOnlyOwn

\* A step that changes nothing.
LEMMA UnchangedSafe ==
    ASSUME IInv, UNCHANGED vars
    PROVE  Safe'
  <1>1. UNCHANGED <<cur, main, next, kind, st, pid, helper, strays>>
    BY DEF vars, suiteVars, procVars, helperVars
  <1>2. \A h \in Gateways : Live(h)' <=> Live(h)
    BY <1>1 DEF Live
  <1> QED BY <1>1, <1>2, SameProcesses DEF IInv, KillsOnlyOwn

(***************************************************************************)
(* The theorems.                                                           *)
(***************************************************************************)
\* The invariant holds initially,
LEMMA InitIInv == Init => IInv
  <1> SUFFICES ASSUME Init PROVE IInv
    OBVIOUS
  <1> USE SuiteAssumption DEF Init
  <1>1. TypeOK
    BY DEF TypeOK, Pending, Scenarios, Gateways, Nobody
  <1>2. \A g \in Gateways : ~Live(g)
    BY DEF Live
  <1>3. Bounded /\ Owned /\ UniquePids /\ Watching /\ KillsOnlyOwn
    BY <1>2 DEF Bounded, Owned, UniquePids, Watching, KillsOnlyOwn
  <1>4. Progress
    <2>1. \A g \in Gateways : ~(g[2] < next)
      BY DEF Gateways
    <2> QED BY <1>2, <2>1 DEF Progress
  <1> QED BY <1>1, <1>3, <1>4 DEF IInv

\* and every step preserves it.
LEMMA NextIInv == IInv /\ [Next]_vars => IInv'
  <1> SUFFICES ASSUME IInv, [Next]_vars PROVE IInv'
    OBVIOUS
  <1>a. TypeOK /\ Bounded
    BY DEF IInv
  <1>b. IInv' <=> TypeOK' /\ Safe'
    BY DEF IInv, Safe
  <1>1. CASE MainStep \/ EngineReturns \/ Sweep
    <2>1. TypeOK'
      BY <1>1, <1>a, MainTyped
    <2>2. Safe'
      BY <1>1, EndSafe, ProcessSafe, RunSafe DEF MainStep, Sweep
    <2> QED BY <1>b, <2>1, <2>2
  <1>2. CASE \E s \in Scenarios : Watchdog(s) \/ Reload(s)
    BY <1>2, <1>a, <1>b, HelperStepTyped, HelperSafe
  <1>3. CASE \E g \in Gateways : Fails(g)
    BY <1>3, <1>a, <1>b, FailsTyped, FailsSafe
  <1>4. CASE Finished \/ UNCHANGED vars
    BY <1>4, <1>a, <1>b, UnchangedTyped, UnchangedSafe DEF Finished
  <1> QED BY <1>1, <1>2, <1>3, <1>4 DEF Next

\* The suite, its processes and its helper threads are well typed in every reachable state;
\* in particular the index of the gateway being started or stopped stays in its range.
THEOREM TypeCorrect == Spec => []TypeOK
  <1>1. IInv => TypeOK
    BY DEF IInv
  <1> QED BY <1>1, InitIInv, NextIInv, PTL DEF Spec

\* No gateway outlives its scenario, on any way out of run_gateway_scenario and
\* run_hotreload_scenario, for any number of gateways per path.
THEOREM NoOrphan == Spec => []NoOrphanGateway
  <1>1. IInv => NoOrphanGateway
    BY DEF IInv, Owned, NoOrphanGateway, Live
  <1> QED BY <1>1, InitIInv, NextIInv, PTL DEF Spec

\* The watchdog, terminate and the dropped handles never kill a process that merely has the
\* remembered id by now: the watchdog is joined before the first process is waited for.
THEOREM KillsSafe == Spec => []KillsOnlyOwn
  <1>1. IInv => KillsOnlyOwn
    BY DEF IInv
  <1> QED BY <1>1, InitIInv, NextIInv, PTL DEF Spec

(***************************************************************************)
(* What is recorded.  A scenario is recorded after its helper thread was   *)
(* joined, and a joined helper thread acts no more: it rewrites no         *)
(* configuration file behind terminate and sends no signal behind wait.    *)
(***************************************************************************)

\* Processes that have not been started yet.
Fresh ==
    /\ \A g \in Gateways : st[g] # "none" => g[1] <= cur
    /\ main = "start" => \A g \in Gateways : g[1] = cur /\ g[2] >= next => st[g] = "none"
    /\ main = "ready" => \A g \in Gateways : g[1] = cur /\ g[2] > next => st[g] = "none"

\* A reload thread is one of a hot-reload scenario, is not spawned before its processes are
\* ready, and ends with the reload_fired flag set.
Reloading ==
    /\ \A s \in Scenarios :
         helper[s] \in {"sleeping", "created", "write", "signal", "restore"} => kind[s] # "watched"
    /\ \A s \in Scenarios : helper[s] # "none" => s <= cur
    /\ helper[cur] # "none" => main \in {"run", "join", "sweep", "stop", "finished", "aborted"}
    /\ \A s \in Scenarios : helper[s] = "ended" => kind[s] = "watched" \/ fired[s]

\* Nothing is recorded of the current scenario and of those after it while the suite goes on.
PendingAhead ==
    main \notin {"finished", "aborted"} =>
        \A s \in Scenarios : s >= cur => report[s].outcome = "pending"

\* Only a process found to have exited while it started has been waited for before its file
\* was removed, if no reload thread writes it.
WatchedFiles ==
    \A g \in Gateways :
        (kind[g[1]] = "watched" /\ st[g] = "reaped") =>
            file[g] = "absent" \/ (main = "drop" /\ g = This)

\* What the report says of the reload of scenario s.
Reported(s) ==
    /\ kind[s] = "watched" \/ report[s].fired
    /\ report[s].applied = (kind[s] = "rotate_cert" /\ succeeded[s])

\* A scenario that is going to be recorded, in its sweep and while its processes are stopped,
Recording ==
    /\ main = "sweep" => verdict = "recorded"
    /\ (main \in {"sweep", "stop"} /\ verdict = "recorded") =>
         /\ helper[cur] = "ended" /\ Reported(cur)
         /\ \A g \in Gateways : g[1] = cur /\ g[2] < next => file[g] = "absent"

\* and one that has been recorded.
RecordedFinal ==
    \A s \in Scenarios :
        report[s].outcome = "recorded" =>
            /\ helper[s] = "ended" /\ Reported(s)
            /\ \A g \in Gateways : g[1] = s => file[g] = "absent"
            /\ \A h \in strays : h.from[1] # s

\* A signal goes astray only behind a scenario, or behind one that will not be recorded.
StraysBehind ==
    /\ \A h \in strays : h.from[1] <= cur
    /\ main \in {"start", "ready", "drop", "prepare", "run", "join"}
         \/ (main \in {"sweep", "stop"} /\ verdict = "recorded")
         => \A h \in strays : h.from[1] < cur

\* Inductive invariant of the report.
RInv == Fresh /\ Reloading /\ PendingAhead /\ WatchedFiles /\ Recording /\ RecordedFinal /\ StraysBehind

\* The values the report is about.
LEMMA ReportTypes ==
    ASSUME TypeOK
    PROVE  /\ cur \in Scenarios /\ cur \in Nat /\ next \in Nat /\ NGateways \in Nat /\ NScenarios \in Nat
           /\ \A s \in Scenarios : s \in Nat /\ First(s) \in Gateways /\ First(s)[1] = s
           /\ \A g \in Gateways : /\ g[1] \in Scenarios /\ g[1] \in Nat /\ g[2] \in Nat /\ 1 <= g[2]
                                  /\ g[2] <= NGateways /\ g = <<g[1], g[2]>>
           /\ \A h \in strays : h.from \in Gateways /\ h.from[1] \in Nat
           /\ This[1] = cur /\ This[2] = next
<1>1. NGateways \in Nat \ {0} /\ NScenarios \in Nat \ {0}
  BY SuiteAssumption
<1>2. \A g \in Gateways : /\ g[1] \in Scenarios /\ g[1] \in Nat /\ g[2] \in Nat /\ 1 <= g[2]
                          /\ g[2] <= NGateways /\ g = <<g[1], g[2]>>
  BY <1>1 DEF Gateways, Scenarios
<1>3. \A s \in Scenarios : s \in Nat /\ First(s) \in Gateways /\ First(s)[1] = s
  BY <1>1 DEF Gateways, Scenarios, First
<1>4. cur \in Scenarios /\ cur \in Nat /\ next \in Nat
  BY <1>1, <1>3 DEF TypeOK
<1>5. \A h \in strays : h.from \in Gateways
  BY DEF TypeOK
<1> QED
  BY <1>1, <1>2, <1>3, <1>4, <1>5 DEF This

\* What a step of a helper thread may do.
HelperActs(s) ==
    /\ UNCHANGED <<kind, cur, main, next, verdict, report>>
    /\ helper[s] \notin {"none", "ended"} /\ helper'[s] # "none"
    /\ \A g \in Gateways : (st'[g] = "none" <=> st[g] = "none") /\ (st'[g] = "reaped" <=> st[g] = "reaped")
    /\ \A r \in Scenarios : r # s => /\ helper'[r] = helper[r] /\ fired'[r] = fired[r]
                                     /\ succeeded'[r] = succeeded[r]
    /\ \A g \in Gateways : file'[g] = file[g] \/ (g = First(s) /\ kind[s] # "watched")
    /\ \A h \in strays' : h \in strays \/ (h.from = First(s) /\ helper[s] = "signal" /\ ~Live(First(s)))
    /\ helper'[s] \in {"sleeping", "created", "write", "signal", "restore"} => kind[s] # "watched"
    /\ helper'[s] = "ended" => kind[s] = "watched" \/ fired'[s]

\* The end of a reload action sets the fired flag.
LEMMA ReloadEndsActs ==
    ASSUME TypeOK, NEW s \in Scenarios, NEW ok \in BOOLEAN, ReloadEnds(s, ok)
    PROVE  /\ UNCHANGED <<kind, cur, main, next, verdict, report>>
           /\ helper'[s] = "ended" /\ fired'[s]
           /\ \A r \in Scenarios : r # s => /\ helper'[r] = helper[r] /\ fired'[r] = fired[r]
                                            /\ succeeded'[r] = succeeded[r]
<1>1. helper \in [Scenarios -> {"none", "watching", "firing", "sleeping", "created", "write",
                                "signal", "restore", "ended"}]
      /\ fired \in [Scenarios -> BOOLEAN] /\ succeeded \in [Scenarios -> BOOLEAN]
  BY DEF TypeOK
<1>2. /\ helper' = [helper EXCEPT ![s] = "ended"] /\ fired' = [fired EXCEPT ![s] = TRUE]
      /\ succeeded' = [succeeded EXCEPT ![s] = ok]
      /\ UNCHANGED <<kind, cur, main, next, verdict, report>>
  BY DEF ReloadEnds, suiteVars
<1> QED
  BY <1>1, <1>2

\* Every step of a helper thread is one of these.
LEMMA HelperStepActs ==
    ASSUME IInv, RInv, NEW s \in Scenarios, Watchdog(s) \/ Reload(s)
    PROVE  HelperActs(s)
<1>t. TypeOK
  BY DEF IInv
<1>f. /\ helper \in [Scenarios -> {"none", "watching", "firing", "sleeping", "created", "write",
                                   "signal", "restore", "ended"}]
      /\ file \in [Gateways -> {"absent", "valid", "invalid", "swapped"}] /\ First(s) \in Gateways
  BY <1>t, ReportTypes DEF TypeOK
<1>k. /\ helper[s] \in {"sleeping", "created", "write", "signal", "restore"} => kind[s] # "watched"
      /\ helper[s] \in {"watching", "firing"} => kind[s] = "watched"
  BY DEF RInv, Reloading, IInv, Watching
<1>1. CASE WatchdogLeaves(s) \/ WatchdogExpires(s)
  <2>1. /\ UNCHANGED <<kind, cur, main, next, verdict, report, st, file, strays, fired, succeeded>>
        /\ helper[s] = "watching" /\ helper' \in {[helper EXCEPT ![s] = "ended"], [helper EXCEPT ![s] = "firing"]}
    BY <1>1 DEF WatchdogLeaves, WatchdogExpires, suiteVars, procVars
  <2> QED
    BY <1>f, <1>k, <2>1 DEF HelperActs
<1>2. CASE ForceKill(s)
  <2>1. /\ UNCHANGED <<kind, cur, main, next, verdict, report, file, fired, succeeded>>
        /\ helper[s] = "firing" /\ helper' = [helper EXCEPT ![s] = "ended"]
    BY <1>2 DEF ForceKill, suiteVars
  <2>2. \A g \in Victims(s) : Live(g)
    BY <1>2 DEF ForceKill, Victims, IInv, Watching, Progress
  <2>3. strays' = strays
    BY <1>2, <2>2, SignalOwn DEF ForceKill, Victims, IInv
  <2>4. \A h \in Gateways : st'[h] = IF \E g \in Victims(s) : Reached(g) = h THEN "exited" ELSE st[h]
    BY <1>2 DEF ForceKill
  <2>5. \A h \in Gateways : (\E g \in Victims(s) : Reached(g) = h) => st[h] \in {"up", "hung", "exited"}
    BY <1>t, ReachedAlive DEF Victims, Live
  <2>6. \A g \in Gateways : (st'[g] = "none" <=> st[g] = "none") /\ (st'[g] = "reaped" <=> st[g] = "reaped")
    BY <2>4, <2>5
  <2> QED
    BY <1>f, <1>k, <2>1, <2>3, <2>6 DEF HelperActs
<1>3. CASE ReloadBegins(s)
  <2>1. /\ UNCHANGED <<kind, cur, main, next, verdict, report, st, file, strays, fired, succeeded>>
        /\ helper[s] = "sleeping"
    BY <1>3 DEF ReloadBegins, suiteVars, procVars
  <2>2. \E v \in {"created", "signal", "write"} : helper' = [helper EXCEPT ![s] = v]
    BY <1>3 DEF ReloadBegins
  <2> QED
    BY <1>f, <1>k, <2>1, <2>2 DEF HelperActs
<1>4. CASE ReloadFails(s) \/ CloseEndpoint(s)
  <2>1. (\E ok \in BOOLEAN : ReloadEnds(s, ok)) /\ UNCHANGED <<st, file, strays>>
        /\ helper[s] \in {"sleeping", "created", "write"}
    BY <1>4 DEF ReloadFails, CloseEndpoint
  <2> QED
    BY <1>t, <1>f, <2>1, ReloadEndsActs DEF HelperActs
<1>5. CASE WriteConfig(s)
  <2>1. /\ UNCHANGED <<kind, cur, main, next, verdict, report, st, strays, fired, succeeded>>
        /\ helper[s] = "write" /\ helper' = [helper EXCEPT ![s] = "signal"]
    BY <1>5 DEF WriteConfig, suiteVars
  <2>2. \A g \in Gateways : g # First(s) => file'[g] = file[g]
    BY <1>5, <1>f DEF WriteConfig
  <2> QED
    BY <1>f, <1>k, <2>1, <2>2 DEF HelperActs
<1>6. CASE SignalReload(s)
  <2>1. /\ helper[s] = "signal" /\ UNCHANGED <<st, file>>
    BY <1>6 DEF SignalReload
  <2>2. \A h \in strays' : h \in strays \/ (h.from = First(s) /\ ~Live(First(s)))
    <3>1. strays' = strays \cup {[sig |-> "HUP", from |-> g, to |-> Reached(g)] :
                                   g \in {h \in {First(s)} : Reached(h) # h}}
      BY <1>6 DEF SignalReload, Signal
    <3>2. Live(First(s)) => Reached(First(s)) = First(s)
      BY <1>f, ReachedOwn DEF IInv
    <3> QED
      BY <3>1, <3>2
  <2>3. CASE helper' = [helper EXCEPT ![s] = "restore"] /\ UNCHANGED <<suiteVars, succeeded, fired>>
    BY <1>f, <1>k, <2>1, <2>2, <2>3 DEF HelperActs, suiteVars
  <2>4. CASE ReloadEnds(s, TRUE)
    BY <1>t, <2>1, <2>2, <2>4, ReloadEndsActs DEF HelperActs
  <2> QED
    BY <1>6, <2>3, <2>4 DEF SignalReload
<1>7. CASE Restore(s)
  <2>1. helper[s] = "restore" /\ ReloadEnds(s, TRUE) /\ UNCHANGED <<st, strays>>
    BY <1>7 DEF Restore
  <2>2. \A g \in Gateways : g # First(s) => file'[g] = file[g]
    BY <1>7, <1>f DEF Restore
  <2> QED
    BY <1>t, <1>k, <2>1, <2>2, ReloadEndsActs DEF HelperActs
<1> QED
  BY <1>1, <1>2, <1>3, <1>4, <1>5, <1>6, <1>7 DEF Watchdog, Reload

\* A helper thread keeps the invariant of the report.
LEMMA HelperReport ==
    ASSUME IInv, RInv, NEW s \in Scenarios, HelperActs(s)
    PROVE  RInv'
<1> USE DEF HelperActs
<1>t. TypeOK
  BY DEF IInv
<1>1. Fresh' /\ PendingAhead'
  BY DEF RInv, Fresh, PendingAhead
<1>2. s <= cur /\ (s = cur => main \in {"run", "join", "sweep", "stop", "finished", "aborted"})
  BY DEF RInv, Reloading
<1>3. Reloading'
  <2>1. \A r \in Scenarios : helper'[r] \in {"sleeping", "created", "write", "signal", "restore"}
                               => kind'[r] # "watched"
    BY DEF RInv, Reloading
  <2>2. \A r \in Scenarios : helper'[r] # "none" => r <= cur'
    BY <1>2 DEF RInv, Reloading
  <2>3. helper'[cur'] # "none" => main' \in {"run", "join", "sweep", "stop", "finished", "aborted"}
    BY <1>t, <1>2, ReportTypes DEF RInv, Reloading
  <2>4. \A r \in Scenarios : helper'[r] = "ended" => kind'[r] = "watched" \/ fired'[r]
    BY DEF RInv, Reloading
  <2> QED
    BY <2>1, <2>2, <2>3, <2>4 DEF Reloading
<1>4. WatchedFiles'
  BY <1>t, ReportTypes DEF RInv, WatchedFiles, This
<1>5. \A r \in Scenarios : r # s => (Reported(r)' <=> Reported(r))
  BY DEF Reported
<1>6. \A g \in Gateways : g[1] # s => file'[g] = file[g]
  BY <1>t, ReportTypes
<1>7. Recording'
  BY <1>t, <1>5, <1>6, ReportTypes DEF RInv, Recording
<1>8. \A h \in strays' : h \in strays \/ h.from[1] = s
  BY <1>t, ReportTypes
<1>9. RecordedFinal'
  BY <1>5, <1>6, <1>8 DEF RInv, RecordedFinal
<1>10. StraysBehind'
  <2>1. \A h \in strays' : h.from[1] <= cur
    BY <1>2, <1>8 DEF RInv, StraysBehind
  <2>2. ASSUME \/ main \in {"start", "ready", "drop", "prepare", "run", "join"}
               \/ main \in {"sweep", "stop"} /\ verdict = "recorded",
               NEW h \in strays'
        PROVE  h.from[1] < cur
    <3>1. CASE h \in strays
      BY <2>2, <3>1 DEF RInv, StraysBehind
    <3>2. CASE h \notin strays
      <4>1. h.from = First(s) /\ helper[s] = "signal" /\ ~Live(First(s)) /\ h.from[1] = s
        BY <1>t, <3>2, ReportTypes
      <4>2. s # cur
        <5>1. CASE main \in {"run", "join"}
          BY <1>t, <4>1, <5>1, ReportTypes DEF IInv, Progress
        <5>2. CASE main \in {"sweep", "stop"} /\ verdict = "recorded"
          BY <4>1, <5>2 DEF RInv, Recording
        <5> QED
          BY <1>2, <2>2, <5>1, <5>2
      <4> QED
        BY <1>t, <1>2, <4>1, <4>2, ReportTypes
    <3> QED
      BY <3>1, <3>2
  <2> QED
    BY <2>1, <2>2 DEF StraysBehind
<1> QED
  BY <1>1, <1>3, <1>4, <1>7, <1>9, <1>10 DEF RInv

\* What a step that ends a scenario may do: the suite goes on with the next one or is over.
Closes ==
    /\ UNCHANGED <<kind, helper, fired, succeeded>>
    /\ main \notin {"finished", "aborted"}
    /\ (main' = "start" /\ cur' = cur + 1) \/ (main' \in {"finished", "aborted"} /\ cur' = cur)
    /\ \A g \in Gateways : st'[g] # "none" => g[1] <= cur
    /\ \A g \in Gateways : kind[g[1]] = "watched" /\ st'[g] = "reaped" => file'[g] = "absent"
    /\ \A g \in Gateways : g[1] # cur => file'[g] \in {file[g], "absent"}
    /\ \A h \in strays' : h \in strays \/ h.from[1] = cur
    /\ \A s \in Scenarios : s # cur => report'[s] = report[s]
    /\ report'[cur].outcome = "recorded" =>
         /\ main = "stop" /\ verdict = "recorded" /\ next > NGateways
         /\ UNCHANGED <<strays, file>>
         /\ report'[cur].fired = report[cur].fired /\ report'[cur].applied = report[cur].applied

\* The end of a scenario keeps the invariant of the report.
LEMMA ClosesReport ==
    ASSUME IInv, RInv, TypeOK', Closes
    PROVE  RInv'
<1> USE DEF Closes
<1>t. TypeOK
  BY DEF IInv
<1>c. cur \in Nat /\ cur' \in Nat /\ cur <= cur' /\ (main' = "start" => cur' = cur + 1)
  BY <1>t, ReportTypes
<1>1. Fresh'
  BY <1>t, <1>c, ReportTypes DEF Fresh
<1>2. Reloading'
  <2>1. \A s \in Scenarios : helper'[s] # "none" => s <= cur
    BY DEF RInv, Reloading
  <2>2. \A s \in Scenarios : helper'[s] # "none" => s <= cur'
    BY <1>t, <1>c, <2>1, ReportTypes
  <2>3. ASSUME helper'[cur'] # "none" PROVE main' \in {"run", "join", "sweep", "stop", "finished", "aborted"}
    <3>1. cur' \in Scenarios
      BY DEF TypeOK
    <3>2. cur' <= cur
      BY <2>1, <2>3, <3>1
    <3> QED
      BY <1>c, <3>2
  <2> QED
    BY <2>2, <2>3 DEF RInv, Reloading
<1>3. PendingAhead'
  BY <1>t, <1>c, ReportTypes DEF RInv, PendingAhead
<1>4. WatchedFiles' /\ Recording'
  BY DEF WatchedFiles, Recording
<1>5. RecordedFinal'
  <2> SUFFICES ASSUME NEW s \in Scenarios, report'[s].outcome = "recorded"
               PROVE  /\ helper'[s] = "ended" /\ Reported(s)'
                      /\ \A g \in Gateways : g[1] = s => file'[g] = "absent"
                      /\ \A h \in strays' : h.from[1] # s
    BY DEF RecordedFinal
  <2>1. CASE s # cur
    <3>1. report'[s] = report[s] /\ (Reported(s)' <=> Reported(s))
      BY <2>1 DEF Reported
    <3> QED
      BY <2>1, <3>1 DEF RInv, RecordedFinal
  <2>2. CASE s = cur
    <3>1. Recording /\ StraysBehind /\ main = "stop" /\ verdict = "recorded" /\ next > NGateways
          /\ UNCHANGED <<strays, file>>
      BY <2>2 DEF RInv
    <3>2. helper[cur] = "ended" /\ Reported(cur)
          /\ \A g \in Gateways : g[1] = cur /\ g[2] < next => file[g] = "absent"
      BY <3>1 DEF Recording
    <3>3. \A g \in Gateways : g[2] < next
      BY <1>t, <3>1, ReportTypes
    <3>4. \A h \in strays : h.from[1] # cur
      BY <1>t, <3>1, ReportTypes DEF StraysBehind
    <3>5. Reported(s)'
      BY <2>2, <3>2 DEF Reported
    <3> QED
      BY <2>2, <3>1, <3>2, <3>3, <3>4, <3>5
  <2> QED
    BY <2>1, <2>2
<1>6. StraysBehind'
  <2>1. \A h \in strays' : h.from[1] \in Nat /\ h.from[1] <= cur
    BY <1>t, ReportTypes DEF RInv, StraysBehind
  <2> QED
    BY <1>c, <2>1 DEF StraysBehind
<1> QED
  BY <1>1, <1>2, <1>3, <1>4, <1>5, <1>6 DEF RInv

\* Over and Abort go on or end the suite, and say what became of the current scenario.
LEMMA OverCloses ==
    ASSUME TypeOK, NEW o, Over(o)
    PROVE  /\ (main' = "start" /\ cur' = cur + 1) \/ (main' = "finished" /\ cur' = cur)
           /\ report'[cur] = o /\ \A s \in Scenarios : s # cur => report'[s] = report[s]
  BY ReportTypes DEF Over, Following, TypeOK

\* Abort ends the suite and records that of the current scenario alone.
LEMMA AbortCloses ==
    ASSUME TypeOK, Abort
    PROVE  /\ main' = "aborted" /\ cur' = cur /\ report'[cur].outcome = "aborted"
           /\ \A s \in Scenarios : s # cur => report'[s] = report[s]
  BY ReportTypes DEF Abort, TypeOK

\* Dropping the handles the scenario holds removes the files of their processes.
LEMMA DropAllCloses ==
    ASSUME IInv, RInv, DropAll(Held), kind' = kind, main # "drop"
    PROVE  /\ \A g \in Gateways : st'[g] # "none" => g[1] <= cur
           /\ \A g \in Gateways : kind[g[1]] = "watched" /\ st'[g] = "reaped" => file'[g] = "absent"
           /\ \A g \in Gateways : file'[g] \in {file[g], "absent"}
           /\ strays' = strays
<1>1. strays' = strays
  BY HeldIsLive, SignalOwn DEF IInv, DropAll
<1>2. \A g \in Gateways : /\ st'[g] = IF g \in Held THEN "reaped" ELSE st[g]
                          /\ file'[g] = IF g \in Held THEN "absent" ELSE file[g]
  BY DEF DropAll, Dropped
<1>3. \A g \in Held : g \in Gateways /\ g[1] = cur
  BY DEF Held
<1>4. \A g \in Gateways : st'[g] # "none" => g[1] <= cur
  BY <1>2, <1>3, ReportTypes DEF IInv, RInv, Fresh
<1>5. \A g \in Gateways : kind[g[1]] = "watched" /\ st'[g] = "reaped" => file'[g] = "absent"
  BY <1>2 DEF RInv, WatchedFiles
<1> QED
  BY <1>1, <1>2, <1>4, <1>5

\* The steps that end a scenario close it.
LEMMA EndReport ==
    ASSUME IInv, RInv,
           \/ SkipEarly \/ SpawnFails \/ NotReady \/ DropUnstarted \/ LateError \/ SweepFails
           \/ TerminateFails \/ Record \/ RecordFails
    PROVE  Closes
<1>t. TypeOK
  BY DEF IInv
<1>h. /\ UNCHANGED <<kind, helper, fired, succeeded>> /\ main \notin {"finished", "aborted"}
  BY DEF SkipEarly, SpawnFails, NotReady, DropUnstarted, LateError, SweepFails, TerminateFails,
         Record, RecordFails, helperVars
<1>s. Skipped.outcome = "skipped"
  BY DEF Skipped, Pending
<1>1. CASE SkipEarly \/ Record \/ RecordFails
  <2>1. UNCHANGED <<st, file, strays>> /\ main \in {"start", "stop"}
    BY <1>1 DEF SkipEarly, Record, RecordFails, procVars
  <2>2. /\ \A g \in Gateways : st'[g] # "none" => g[1] <= cur
        /\ \A g \in Gateways : kind[g[1]] = "watched" /\ st'[g] = "reaped" => file'[g] = "absent"
    BY <2>1 DEF RInv, Fresh, WatchedFiles
  <2>3. CASE SkipEarly
    BY <1>t, <1>h, <1>s, <2>1, <2>2, <2>3, OverCloses DEF SkipEarly, Closes
  <2>4. CASE RecordFails
    BY <1>t, <1>h, <2>1, <2>2, <2>4, AbortCloses DEF RecordFails, Closes
  <2>5. CASE Record
    <3>1. main = "stop" /\ next > NGateways /\ Over([report[cur] EXCEPT !.outcome = verdict])
      BY <2>5 DEF Record
    <3>2. report[cur] \in [outcome : {"pending", "skipped", "recorded", "aborted"},
                           fired : BOOLEAN, applied : BOOLEAN]
      BY <1>t, ReportTypes DEF TypeOK
    <3>3. /\ [report[cur] EXCEPT !.outcome = verdict].outcome = verdict
          /\ [report[cur] EXCEPT !.outcome = verdict].fired = report[cur].fired
          /\ [report[cur] EXCEPT !.outcome = verdict].applied = report[cur].applied
      BY <3>2
    <3>4. /\ (main' = "start" /\ cur' = cur + 1) \/ (main' = "finished" /\ cur' = cur)
          /\ report'[cur] = [report[cur] EXCEPT !.outcome = verdict]
          /\ \A s \in Scenarios : s # cur => report'[s] = report[s]
      BY <1>t, <3>1, OverCloses
    <3>5. /\ report'[cur].outcome = verdict /\ report'[cur].fired = report[cur].fired
          /\ report'[cur].applied = report[cur].applied
      BY <3>3, <3>4
    <3> QED
      BY <1>h, <2>1, <2>2, <3>1, <3>4, <3>5 DEF Closes
  <2> QED
    BY <1>1, <2>3, <2>4, <2>5
<1>2. CASE SpawnFails
  <2>1. /\ main = "start" /\ next <= NGateways /\ Over(Skipped)
        /\ \A g \in Gateways : st'[g] = IF g \in Held THEN "reaped" ELSE st[g]
        /\ \A g \in Gateways : file'[g] = IF g = This THEN "valid"
                                          ELSE IF g \in Held THEN "absent" ELSE file[g]
    BY <1>2 DEF SpawnFails, Dropped
  <2>2. strays' = strays
    BY <1>2, HeldIsLive, SignalOwn DEF SpawnFails, IInv
  <2>3. /\ This \in Gateways /\ This[1] = cur /\ This[2] = next
    BY <1>t, <2>1, SuiteAssumption DEF This, Gateways, TypeOK
  <2>4. st[This] = "none" /\ This \notin Held
    BY <1>t, <2>1, <2>3, ReportTypes DEF RInv, Fresh, Held
  <2>5. \A g \in Held : g[1] = cur
    BY DEF Held
  <2>6. \A g \in Gateways : st'[g] # "none" => g[1] <= cur
    BY <1>t, <2>1, <2>5, ReportTypes DEF RInv, Fresh
  <2>7. \A g \in Gateways : kind[g[1]] = "watched" /\ st'[g] = "reaped" => file'[g] = "absent"
    BY <2>1, <2>4 DEF RInv, WatchedFiles
  <2>8. \A g \in Gateways : g[1] # cur => file'[g] \in {file[g], "absent"}
    BY <2>1, <2>3
  <2> QED
    BY <1>t, <1>h, <1>s, <2>1, <2>2, <2>6, <2>7, <2>8, OverCloses DEF Closes
<1>3. CASE NotReady \/ LateError \/ SweepFails \/ TerminateFails
  <2>1. DropAll(Held) /\ main # "drop" /\ kind' = kind /\ (Over(Skipped) \/ Abort)
    BY <1>3 DEF NotReady, LateError, SweepFails, TerminateFails
  <2>2. /\ \A g \in Gateways : st'[g] # "none" => g[1] <= cur
        /\ \A g \in Gateways : kind[g[1]] = "watched" /\ st'[g] = "reaped" => file'[g] = "absent"
        /\ \A g \in Gateways : file'[g] \in {file[g], "absent"}
        /\ strays' = strays
    BY <2>1, DropAllCloses
  <2>3. /\ (main' = "start" /\ cur' = cur + 1) \/ (main' \in {"finished", "aborted"} /\ cur' = cur)
        /\ report'[cur].outcome # "recorded" /\ \A s \in Scenarios : s # cur => report'[s] = report[s]
    <3>1. CASE Over(Skipped)
      BY <1>t, <1>s, <3>1, OverCloses
    <3>2. CASE Abort
      BY <1>t, <3>2, AbortCloses
    <3> QED
      BY <2>1, <3>1, <3>2
  <2> QED
    BY <1>h, <2>2, <2>3 DEF Closes
<1>4. CASE DropUnstarted
  <2> DEFINE D == Held \cup {This}
  <2>1. /\ main = "drop" /\ Over(Skipped)
        /\ \A g \in Gateways : st'[g] = IF g \in D THEN "reaped" ELSE st[g]
        /\ \A g \in Gateways : file'[g] = IF g \in D THEN "absent" ELSE file[g]
    BY <1>4 DEF DropUnstarted, DropAll, Dropped
  <2>2. \A g \in D : g[1] = cur
    BY <1>t, ReportTypes DEF Held
  <2>3. \A h \in strays' : h \in strays \/ h.from \in D
    BY <1>4 DEF DropUnstarted, DropAll, Signal
  <2>4. \A g \in Gateways : st'[g] # "none" => g[1] <= cur
    BY <1>t, <2>1, <2>2, ReportTypes DEF RInv, Fresh
  <2>5. \A g \in Gateways : kind[g[1]] = "watched" /\ st'[g] = "reaped" => file'[g] = "absent"
    BY <2>1 DEF RInv, WatchedFiles
  <2> HIDE DEF D
  <2> QED
    BY <1>t, <1>h, <1>s, <2>1, <2>2, <2>3, <2>4, <2>5, OverCloses DEF Closes
<1> QED
  BY <1>1, <1>2, <1>3, <1>4

\* A gateway that fails by itself was started and has not been waited for.
LEMMA FailsReport ==
    ASSUME IInv, RInv, NEW g \in Gateways, Fails(g)
    PROVE  RInv'
<1>1. UNCHANGED <<kind, cur, main, next, verdict, report, file, helper, fired, succeeded, strays>>
  BY DEF Fails, suiteVars, helperVars
<1>2. \A h \in Gateways : (st'[h] = "none" <=> st[h] = "none") /\ (st'[h] = "reaped" <=> st[h] = "reaped")
  BY DEF Fails, IInv, TypeOK
<1>3. Fresh' /\ WatchedFiles'
  BY <1>1, <1>2 DEF RInv, Fresh, WatchedFiles, This
<1>4. Reloading' /\ PendingAhead' /\ StraysBehind'
  BY <1>1 DEF RInv, Reloading, PendingAhead, StraysBehind
<1>5. Recording' /\ RecordedFinal'
  BY <1>1 DEF RInv, Recording, RecordedFinal, Reported
<1> QED
  BY <1>3, <1>4, <1>5 DEF RInv

\* So does a step that changes nothing.
LEMMA UnchangedReport ==
    ASSUME RInv, UNCHANGED vars
    PROVE  RInv'
<1>1. UNCHANGED <<kind, cur, main, next, verdict, report, st, file, helper, fired, succeeded, strays>>
  BY DEF vars, suiteVars, procVars, helperVars
<1>2. Fresh' /\ WatchedFiles' /\ Reloading' /\ PendingAhead' /\ StraysBehind'
  BY <1>1 DEF RInv, Fresh, WatchedFiles, This, Reloading, PendingAhead, StraysBehind
<1>3. Recording' /\ RecordedFinal'
  BY <1>1 DEF RInv, Recording, RecordedFinal, Reported
<1> QED
  BY <1>2, <1>3 DEF RInv

\* The steps that start and stop one process.
LEMMA ProcessReport ==
    ASSUME IInv, RInv, Spawn \/ WaitReady \/ ExitedEarly \/ Terminate
    PROVE  RInv'
<1>t. TypeOK
  BY DEF IInv
<1>n. /\ cur \in Scenarios /\ cur \in Nat /\ next \in Nat /\ next <= NGateways /\ This \in Gateways
      /\ This[1] = cur /\ This[2] = next
  <2>1. next <= NGateways
    BY DEF IInv, Bounded, Spawn, WaitReady, ExitedEarly, Terminate
  <2> QED
    BY <1>t, <2>1, ReportTypes DEF This, Gateways, TypeOK
<1>o. \A g \in Gateways : g[1] = cur /\ g[2] = next => g = This
  BY <1>t, ReportTypes DEF This
<1>u. UNCHANGED <<kind, cur, verdict, report, helper, fired, succeeded>>
      /\ main \in {"start", "ready", "stop"} /\ main' \in {"start", "ready", "drop", "prepare", "stop"}
      /\ (main = "stop" <=> main' = "stop")
  BY DEF Spawn, WaitReady, ExitedEarly, Terminate, helperVars
<1>s. strays' = strays
  <2>1. CASE Terminate
    BY <1>n, <2>1, SignalOwn DEF Terminate, IInv, Live
  <2> QED
    BY <2>1 DEF Spawn, WaitReady, ExitedEarly
<1>1. PendingAhead' /\ StraysBehind'
  BY <1>u, <1>s DEF RInv, PendingAhead, StraysBehind
<1>2. Reloading'
  BY <1>u DEF RInv, Reloading
<1>3. \A g \in Gateways : g # This => st'[g] = st[g] /\ file'[g] = file[g]
  BY <1>t DEF Spawn, WaitReady, ExitedEarly, Terminate, procVars, TypeOK
<1>4. st'[This] # "none" => cur >= This[1]
  BY <1>n
<1>5. Fresh'
  <2>1. \A g \in Gateways : st'[g] # "none" => g[1] <= cur'
    BY <1>n, <1>u, <1>3 DEF RInv, Fresh
  <2>2. ASSUME main' = "start", NEW g \in Gateways, g[1] = cur, g[2] >= next' PROVE st'[g] = "none"
    <3>1. main = "ready" /\ next' = next + 1 /\ UNCHANGED st
      BY <1>u, <2>2 DEF Spawn, WaitReady, ExitedEarly, Terminate, procVars
    <3>2. g[2] > next
      BY <1>t, <1>n, <2>2, <3>1, ReportTypes
    <3> QED
      BY <2>2, <3>1, <3>2 DEF RInv, Fresh
  <2>3. ASSUME main' = "ready", NEW g \in Gateways, g[1] = cur, g[2] > next' PROVE st'[g] = "none"
    <3>1. main = "start" /\ next' = next
      BY <1>u, <2>3 DEF Spawn, WaitReady, ExitedEarly, Terminate
    <3>2. g # This /\ g[2] >= next
      BY <1>t, <1>n, <2>3, <3>1, ReportTypes
    <3> QED
      BY <1>3, <2>3, <3>1, <3>2 DEF RInv, Fresh
  <2> QED
    BY <1>u, <2>1, <2>2, <2>3 DEF Fresh
<1>6. WatchedFiles'
  <2>1. st'[This] = "reaped" => file'[This] = "absent" \/ (main' = "drop" /\ This' = This)
    <3>1. CASE Spawn
      BY <1>t, <1>n, <3>1 DEF Spawn, TypeOK
    <3>2. CASE WaitReady
      BY <3>2 DEF WaitReady, procVars
    <3>3. CASE ExitedEarly
      BY <3>3 DEF ExitedEarly, This
    <3>4. CASE Terminate
      BY <1>t, <1>n, <3>4 DEF Terminate, FileAfterStop, TypeOK
    <3> QED
      BY <3>1, <3>2, <3>3, <3>4
  <2> QED
    BY <1>u, <1>3, <2>1 DEF RInv, WatchedFiles
<1>7. Recording'
  <2> SUFFICES ASSUME main' = "stop", verdict' = "recorded"
               PROVE  /\ helper'[cur'] = "ended" /\ Reported(cur)'
                      /\ \A g \in Gateways : g[1] = cur' /\ g[2] < next' => file'[g] = "absent"
    BY <1>u DEF Recording
  <2>1. Terminate /\ next' = next + 1 /\ file'[This] = "absent"
    BY <1>t, <1>u, <1>n DEF Spawn, WaitReady, ExitedEarly, Terminate, FileAfterStop, TypeOK
  <2>2. /\ helper[cur] = "ended" /\ Reported(cur)
        /\ \A g \in Gateways : g[1] = cur /\ g[2] < next => file[g] = "absent"
    BY <1>u DEF RInv, Recording
  <2>3. \A g \in Gateways : g[1] = cur /\ g[2] < next' => file'[g] = "absent"
    BY <1>t, <1>n, <1>o, <1>3, <2>1, <2>2, ReportTypes
  <2> QED
    BY <1>u, <2>2, <2>3 DEF Reported
<1>8. RecordedFinal'
  <2>1. \A s \in Scenarios : report'[s].outcome = "recorded" => s # cur
    BY <1>n, <1>u DEF RInv, PendingAhead
  <2>2. \A s \in Scenarios : Reported(s)' <=> Reported(s)
    BY <1>u DEF Reported
  <2> QED
    BY <1>n, <1>u, <1>s, <1>3, <2>1, <2>2 DEF RInv, RecordedFinal
<1> QED
  BY <1>1, <1>2, <1>5, <1>6, <1>7, <1>8 DEF RInv

\* The steps around the run.
LEMMA RunReport ==
    ASSUME IInv, RInv, SpawnHelper \/ StageFails \/ EngineReturns \/ Join \/ SweepReturns
    PROVE  RInv'
<1>t. TypeOK
  BY DEF IInv
<1>n. cur \in Scenarios /\ cur \in Nat
  BY <1>t, ReportTypes
<1>u. /\ UNCHANGED <<kind, cur, st, file, strays, fired, succeeded>>
      /\ main \in {"prepare", "run", "join", "sweep"} /\ main' \in {"run", "join", "sweep", "stop"}
  BY DEF SpawnHelper, StageFails, EngineReturns, RunReturns, Join, SweepReturns, procVars, helperVars
<1>v. \A s \in Scenarios : s # cur => helper'[s] = helper[s] /\ report'[s] = report[s]
  BY <1>t, <1>n DEF SpawnHelper, StageFails, EngineReturns, RunReturns, Join, SweepReturns,
                   helperVars, TypeOK
<1>w. /\ helper'[cur] = helper[cur]
         \/ (main' = "run" /\ helper'[cur] = IF kind[cur] = "watched" THEN "watching" ELSE "sleeping")
      /\ report'[cur].outcome = "pending"
  <2>1. report[cur].outcome = "pending"
    BY <1>n, <1>u DEF RInv, PendingAhead
  <2>2. CASE SpawnHelper
    BY <1>t, <1>n, <2>1, <2>2 DEF SpawnHelper, TypeOK
  <2>3. CASE StageFails \/ EngineReturns \/ SweepReturns
    BY <2>1, <2>3 DEF StageFails, EngineReturns, RunReturns, SweepReturns, helperVars
  <2>4. CASE Join
    <3>1. helper' = helper /\ report'[cur] \in {report[cur], [Recorded EXCEPT !.outcome = "pending"]}
      BY <1>t, <1>n, <2>4 DEF Join, helperVars, TypeOK
    <3>2. [Recorded EXCEPT !.outcome = "pending"].outcome = "pending"
      BY DEF Recorded
    <3> QED
      BY <2>1, <3>1, <3>2
  <2> QED
    BY <2>2, <2>3, <2>4
<1>1. Fresh'
  BY <1>u DEF RInv, Fresh
<1>2. Reloading'
  BY <1>n, <1>u, <1>v, <1>w DEF RInv, Reloading
<1>3. PendingAhead'
  BY <1>u, <1>v, <1>w DEF RInv, PendingAhead
<1>4. WatchedFiles'
  BY <1>u DEF RInv, WatchedFiles
<1>5. StraysBehind'
  <2>1. main = "sweep" => verdict = "recorded"
    BY DEF RInv, Recording
  <2> QED
    BY <1>u, <2>1 DEF RInv, StraysBehind
<1>6. RecordedFinal'
  <2>1. \A s \in Scenarios : s # cur => (Reported(s)' <=> Reported(s))
    BY <1>u, <1>v DEF Reported
  <2> QED
    BY <1>u, <1>v, <1>w, <2>1 DEF RInv, RecordedFinal
<1>7. Recording'
  <2>1. CASE SweepReturns
    <3>1. /\ verdict = "recorded" /\ helper[cur] = "ended" /\ Reported(cur) /\ next = 1
          /\ UNCHANGED <<cur, next, verdict, helper, report>>
      BY <2>1 DEF SweepReturns, RInv, Recording, IInv, Progress, helperVars
    <3>2. \A g \in Gateways : ~(g[2] < next)
      BY <1>t, <3>1, ReportTypes
    <3> QED
      BY <1>u, <3>1, <3>2 DEF Recording, Reported
  <2>2. CASE Join
    <3>1. next' = 1 /\ helper[cur] = "ended" /\ helper' = helper /\ cur' = cur
      BY <2>2 DEF Join, HelperJoined, IInv, Progress, helperVars
    <3>2. \A g \in Gateways : ~(g[2] < next')
      BY <1>t, <3>1, ReportTypes
    <3>3. verdict' = "recorded" => report'[cur] = [Recorded EXCEPT !.outcome = "pending"]
      BY <1>t, <1>n, <2>2 DEF Join, TypeOK
    <3>4. verdict' = "recorded" => /\ report'[cur].fired = fired[cur]
                                   /\ report'[cur].applied = (kind[cur] = "rotate_cert" /\ succeeded[cur])
      BY <3>3 DEF Recorded
    <3>5. kind[cur] = "watched" \/ fired[cur]
      BY <1>n, <3>1 DEF RInv, Reloading
    <3>6. verdict' = "recorded" => Reported(cur)'
      BY <1>u, <3>1, <3>4, <3>5 DEF Reported
    <3>7. main' = "sweep" => verdict' = "recorded"
      BY <2>2 DEF Join
    <3> QED
      BY <1>u, <3>1, <3>2, <3>6, <3>7 DEF Recording
  <2>3. CASE SpawnHelper \/ StageFails \/ EngineReturns
    BY <2>3 DEF SpawnHelper, StageFails, EngineReturns, RunReturns, Recording
  <2> QED
    BY <2>1, <2>2, <2>3
<1> QED
  BY <1>1, <1>2, <1>3, <1>4, <1>5, <1>6, <1>7 DEF RInv

\* Every step preserves the invariant of the report.
LEMMA NextRInv == IInv /\ RInv /\ [Next]_vars => RInv'
<1> SUFFICES ASSUME IInv, RInv, [Next]_vars PROVE RInv'
  OBVIOUS
<1>1. CASE MainStep \/ EngineReturns \/ Sweep
  <2>1. TypeOK'
    BY NextIInv DEF IInv
  <2> QED
    BY <1>1, <2>1, EndReport, ClosesReport, ProcessReport, RunReport DEF MainStep, Sweep
<1>2. CASE \E s \in Scenarios : Watchdog(s) \/ Reload(s)
  BY <1>2, HelperStepActs, HelperReport
<1>3. CASE \E g \in Gateways : Fails(g)
  BY <1>3, FailsReport
<1>4. CASE Finished \/ UNCHANGED vars
  BY <1>4, UnchangedReport DEF Finished
<1> QED
  BY <1>1, <1>2, <1>3, <1>4 DEF Next

\* It holds initially: nothing is started, written or recorded.
LEMMA InitRInv == Init => RInv
<1> SUFFICES ASSUME Init PROVE RInv
  OBVIOUS
<1>1. TypeOK /\ strays = {} /\ main = "start" /\ cur \in Scenarios
  BY InitIInv DEF IInv, Init, TypeOK
<1>2. /\ \A g \in Gateways : st[g] = "none"
      /\ \A s \in Scenarios : helper[s] = "none" /\ report[s].outcome = "pending"
  BY DEF Init, Pending
<1> QED
  BY <1>1, <1>2 DEF RInv, Fresh, Reloading, PendingAhead, WatchedFiles, Recording, RecordedFinal,
                    StraysBehind

\* A recorded scenario has left no configuration file behind, whatever its reload thread
\* wrote and when; neither has a watched scenario that is over, however it ended, of the
\* processes it had started.
THEOREM ConfigSafe == Spec => []ConfigRemoved
<1>1. IInv /\ RInv => ConfigRemoved
  <2> SUFFICES ASSUME IInv, RInv, NEW g \in Gateways, st[g] = "reaped",
                      \/ report[g[1]].outcome = "recorded"
                      \/ kind[g[1]] = "watched" /\ report[g[1]].outcome # "pending"
               PROVE  file[g] = "absent"
    BY DEF ConfigRemoved
  <2>1. g[1] \in Scenarios /\ cur \in Scenarios /\ cur \in Nat /\ This[1] = cur
    BY ReportTypes DEF IInv
  <2>2. CASE report[g[1]].outcome = "recorded"
    BY <2>1, <2>2 DEF RInv, RecordedFinal
  <2>3. CASE kind[g[1]] = "watched" /\ report[g[1]].outcome # "pending"
    <3>1. main = "drop" => g # This
      BY <2>1, <2>3 DEF RInv, PendingAhead
    <3> QED
      BY <2>3, <3>1 DEF RInv, WatchedFiles
  <2> QED
    BY <2>2, <2>3
<1> QED
  BY <1>1, InitIInv, NextIInv, InitRInv, NextRInv, PTL DEF Spec

\* A recorded hot-reload result is about a reload that was over when the result was taken; a
\* certificate swap reported as applied was signalled to the gateway it was meant for.
THEOREM ReloadReportSafe == Spec => []ReloadReportFinal
<1>1. IInv /\ RInv => ReloadReportFinal
  <2> SUFFICES ASSUME IInv, RInv, NEW s \in Scenarios, report[s].outcome = "recorded",
                      kind[s] \in ReloadActions
               PROVE  /\ report[s].fired /\ helper[s] = "ended"
                      /\ report[s].applied = (kind[s] = "rotate_cert" /\ succeeded[s])
                      /\ report[s].applied => \A h \in strays : h.from # First(s)
    BY DEF ReloadReportFinal
  <2>1. helper[s] = "ended" /\ Reported(s) /\ \A h \in strays : h.from[1] # s
    BY DEF RInv, RecordedFinal
  <2>2. kind[s] # "watched" /\ First(s)[1] = s
    BY ReportTypes DEF ReloadActions, IInv
  <2> QED
    BY <2>1, <2>2 DEF Reported
<1> QED
  BY <1>1, InitIInv, NextIInv, InitRInv, NextRInv, PTL DEF Spec
===============================================================================
