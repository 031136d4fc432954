--------------------------- MODULE GatewayScenario ---------------------------
(***************************************************************************)
(* The life of the gateway processes of a suite: commands.rs runs its      *)
(* gateway scenarios one after the other, and for each one starts the      *)
(* gateway processes, hands them to the run engine while a helper thread   *)
(* watches or reloads them, and stops them (gateway/process.rs and         *)
(* gateway/mod.rs).  The helper is                                         *)
(*   the watchdog  of an ordinary scenario, which force-kills the          *)
(*                 processes by pid when the run exceeds its budget;       *)
(*   the reload thread of a hot-reload scenario, which changes the         *)
(*                 configuration file and signals the first process by pid *)
(*                 once its trigger time has passed.                       *)
(* Both remember process ids, and the operating system hands the id of a   *)
(* process that has been waited for to the next one it starts.             *)
(***************************************************************************)
EXTENDS Integers, FiniteSets

CONSTANTS
    NScenarios,     \* bound: scenarios of the suite
    NGateways,      \* gateway processes of one path (one, or two for a chained topology)
    Pids,           \* bound: process ids the operating system has to give
    Kinds           \* scenario kinds to explore: "watched" or a reload action

ReloadActions == {"invalid_config", "rotate_cert", "update_profile", "manage"}

ASSUME SuiteAssumption ==
    /\ NScenarios \in Nat \ {0} /\ NGateways \in Nat \ {0}
    /\ Kinds \subseteq {"watched"} \cup ReloadActions
ASSUME PidsAssumption == IsFiniteSet(Pids) /\ Cardinality(Pids) >= NGateways

VARIABLES
    kind,       \* the kind of each scenario
    cur,        \* the scenario being executed
    main,       \* program counter of the main thread
    next,       \* the gateway to be started or stopped next
    verdict,    \* what becomes of the current scenario once its gateways are stopped
    st,         \* each gateway process: "none", "up", "hung", "exited" (a zombie), "reaped"
    pid,        \* and its process id
    file,       \* and its configuration file
    helper,     \* program counter of each scenario's helper thread
    backup,     \* what the reload thread read from the configuration file
    done,       \* the watchdog_done flag
    succeeded,  \* the reload_succeeded flag
    fired,      \* the reload_fired flag
    report,     \* per scenario: what was recorded of it
    strays      \* history: signals sent by pid that did not reach the process meant

suiteVars  == <<kind, cur, main, next, verdict, report>>
procVars   == <<st, pid, file>>
helperVars == <<helper, backup, done, succeeded, fired>>
vars       == <<suiteVars, procVars, helperVars, strays>>

Scenarios == 1 .. NScenarios
Gateways  == Scenarios \X (1 .. NGateways)

\* The process of the current scenario that start_gateways and shutdown are working on.
This == <<cur, next>>

\* The processes the current scenario holds.
Held == {g \in Gateways : g[1] = cur /\ st[g] \in {"up", "hung", "exited"}}

\* What is recorded of a scenario before it is over.
Pending == [outcome |-> "pending", fired |-> FALSE, applied |-> FALSE]

Init ==
    /\ kind \in [Scenarios -> Kinds]
    /\ cur = 1 /\ main = "start" /\ next = 1 /\ verdict = "skipped"
    /\ st = [g \in Gateways |-> "none"]
    /\ pid = [g \in Gateways |-> 0]
    /\ file = [g \in Gateways |-> "absent"]
    /\ helper = [s \in Scenarios |-> "none"]
    /\ backup = [s \in Scenarios |-> "absent"]
    /\ done = [s \in Scenarios |-> FALSE]
    /\ succeeded = [s \in Scenarios |-> FALSE]
    /\ fired = [s \in Scenarios |-> FALSE]
    /\ report = [s \in Scenarios |-> Pending]
    /\ strays = {}

(***************************************************************************)
(* Signals are sent to a process id, whoever has it by then.               *)
(***************************************************************************)
Nobody == <<0, 0>>

Holders(p) == {g \in Gateways : pid[g] = p /\ st[g] \in {"up", "hung", "exited"}}

\* The process a signal to the remembered id of gateway g reaches.
Reached(g) == IF Holders(pid[g]) = {} THEN Nobody ELSE CHOOSE h \in Holders(pid[g]) : TRUE

\* A signal is sent to the remembered id of each of the given processes.
Signal(sig, gs) ==
    strays' = strays \cup {[sig |-> sig, from |-> g, to |-> Reached(g)] :
                             g \in {h \in gs : Reached(h) # h}}

(***************************************************************************)
(* Starting the processes: start_gateways, GatewayProcess::spawn and       *)
(* wait_ready.                                                             *)
(***************************************************************************)

\* Regression: dropping a handle forgets the process instead of killing it.
Dropped_Forgotten(held) == st

\* Dropping process handles kills and waits for the processes of those not yet finished.
Dropped(held) == [g \in Gateways |-> IF g \in held THEN "reaped" ELSE st[g]]

\* Every handle is dropped: SIGKILL by pid, wait, remove the configuration file.
DropAll(held) ==
    /\ st' = Dropped(held)
    /\ file' = [g \in Gateways |-> IF g \in held THEN "absent" ELSE file[g]]
    /\ Signal("KILL", held)

\* Regression: the loop over the scenarios runs once too often.
Following_PastEnd == cur + 1

\* The scenario the loop takes next; the last one stays where it is.
Following == IF cur = NScenarios THEN cur ELSE cur + 1

\* The current scenario is over and the suite goes on with the next one.
Over(outcome) ==
    /\ report' = [report EXCEPT ![cur] = outcome]
    /\ main' = IF cur = NScenarios THEN "finished" ELSE "start"
    /\ cur' = Following
    /\ next' = 1
    /\ verdict' = "skipped"

Skipped == [Pending EXCEPT !.outcome = "skipped"]

\* An error is propagated with `?`: the suite ends here.
Abort ==
    /\ main' = "aborted"
    /\ report' = [report EXCEPT ![cur].outcome = "aborted"]
    /\ UNCHANGED <<cur, next, verdict>>

\* The scenario is skipped before any process is started (no security material).
SkipEarly ==
    /\ main = "start" /\ next = 1
    /\ Over(Skipped)
    /\ UNCHANGED <<kind, procVars, helperVars, strays>>

\* The configuration is written and the process started.
Spawn ==
    /\ main = "start" /\ next <= NGateways
    /\ file' = [file EXCEPT ![This] = "valid"]
    /\ \E p \in Pids :
         /\ Holders(p) = {}
         /\ pid' = [pid EXCEPT ![This] = p]
    /\ st' = [st EXCEPT ![This] = "up"]
    /\ main' = "ready"
    /\ UNCHANGED <<kind, cur, next, verdict, report, helperVars, strays>>

\* The process cannot be started; the configuration stays behind, no handle owns it yet.
SpawnFails ==
    /\ main = "start" /\ next <= NGateways
    /\ st' = Dropped(Held)
    /\ file' = [g \in Gateways |-> IF g = This THEN "valid"
                                   ELSE IF g \in Held THEN "absent" ELSE file[g]]
    /\ Signal("KILL", Held)
    /\ Over(Skipped)
    /\ UNCHANGED <<kind, pid, helperVars>>

\* Every listener answers: the process is ready and the next one is started.
WaitReady ==
    /\ main = "ready" /\ st[This] = "up"
    /\ next' = next + 1
    /\ main' = IF next = NGateways THEN "prepare" ELSE "start"
    /\ UNCHANGED <<kind, cur, verdict, report, procVars, helperVars, strays>>

\* The process never answers: all handles are dropped.
NotReady ==
    /\ main = "ready"
    /\ DropAll(Held)
    /\ Over(Skipped)
    /\ UNCHANGED <<kind, pid, helperVars>>

\* try_wait finds that the process has exited, and so waits for it: its id is free by the
\* time its handle is dropped with the others.
ExitedEarly ==
    /\ main = "ready" /\ st[This] = "exited"
    /\ st' = [st EXCEPT ![This] = "reaped"]
    /\ main' = "drop"
    /\ UNCHANGED <<kind, cur, next, verdict, report, pid, file, helperVars, strays>>

DropUnstarted ==
    /\ main = "drop"
    /\ DropAll(Held \cup {This})
    /\ Over(Skipped)
    /\ UNCHANGED <<kind, pid, helperVars>>

(***************************************************************************)
(* The run, and the end of the helper thread.                              *)
(***************************************************************************)

\* The helper thread is spawned and the engine takes over.
SpawnHelper ==
    /\ main = "prepare"
    /\ helper' = [helper EXCEPT ![cur] = IF kind[cur] = "watched" THEN "watching" ELSE "sleeping"]
    /\ main' = "run"
    /\ UNCHANGED <<kind, cur, next, verdict, report, procVars, backup, done, succeeded, fired,
                   strays>>

\* A rotation scenario that cannot stage its second identity is stopped again.
StageFails ==
    /\ main = "prepare" /\ kind[cur] = "rotate_cert"
    /\ main' = "stop" /\ next' = 1 /\ verdict' = "skipped"
    /\ UNCHANGED <<kind, cur, report, procVars, helperVars, strays>>

\* The engine returns: statistics, statistics without a message, or an error.  The watchdog
\* is told; the reload thread is not, and a failed hot-reload run does not wait for it.
RunReturns(result) ==
    /\ main = "run"
    /\ done' = [done EXCEPT ![cur] = (kind[cur] = "watched")]
    /\ verdict' = IF result = "ok" THEN "recorded" ELSE "skipped"
    /\ main' = IF result = "failed" /\ kind[cur] # "watched" THEN "stop" ELSE "join"
    /\ next' = 1
    /\ UNCHANGED <<kind, cur, report, procVars, helper, backup, succeeded, fired, strays>>

EngineReturns == \E result \in {"ok", "empty", "failed"} : RunReturns(result)

\* Regression: the helper thread is detached.
HelperJoined_Detached == TRUE

\* The helper thread has ended.
HelperJoined == helper[cur] = "ended"

\* What a recorded scenario says of its reload: the flags as they are after the join.
Recorded ==
    [outcome |-> "recorded", fired |-> fired[cur],
     applied |-> kind[cur] = "rotate_cert" /\ succeeded[cur]]

\* The helper is joined; a management action that did not succeed makes it a skip.  A watched
\* scenario with statistics may ask for a saturation sweep, and nothing watches that.
Join ==
    /\ main = "join" /\ HelperJoined
    /\ main' \in {"stop"} \cup (IF kind[cur] = "watched" /\ verdict = "recorded" THEN {"sweep"} ELSE {})
    /\ verdict' = IF kind[cur] = "manage" /\ ~succeeded[cur] THEN "skipped" ELSE verdict
    /\ report' = [report EXCEPT ![cur] = IF verdict' = "recorded"
                                         THEN [Recorded EXCEPT !.outcome = "pending"] ELSE @]
    /\ UNCHANGED <<kind, cur, next, procVars, helperVars, strays>>

\* The engine has run once per offered rate through the same gateway.
SweepReturns ==
    /\ main = "sweep"
    /\ main' = "stop"
    /\ UNCHANGED <<kind, cur, next, verdict, report, procVars, helperVars, strays>>

\* A run of the sweep fails: the handles are dropped and the suite ends.
SweepFails ==
    /\ main = "sweep"
    /\ DropAll(Held)
    /\ Abort
    /\ UNCHANGED <<kind, pid, helperVars>>

Sweep == SweepReturns \/ SweepFails

\* Any other error between the join and the shutdown of a watched scenario (calibration, a
\* result file): the handles are dropped and the suite ends.
LateError ==
    /\ main = "stop" /\ next = 1 /\ verdict = "recorded" /\ kind[cur] = "watched"
    /\ DropAll(Held)
    /\ Abort
    /\ UNCHANGED <<kind, pid, helperVars>>

(***************************************************************************)
(* Stopping the processes: RunningPath::shutdown and terminate.            *)
(***************************************************************************)

\* Regression: the configuration file is kept after the process is gone.
FileAfterStop_Kept(g) == file[g]

\* The configuration file of a process that has been stopped.
FileAfterStop(g) == "absent"

\* SIGTERM, a grace period, SIGKILL; the process is waited for and its file removed.  A
\* zombie is only waited for.
Terminate ==
    /\ main = "stop" /\ next <= NGateways
    /\ Signal("TERM", {g \in {This} : st[g] \in {"up", "hung"}})
    /\ st' = [st EXCEPT ![This] = "reaped"]
    /\ file' = [file EXCEPT ![This] = FileAfterStop(This)]
    /\ next' = next + 1
    /\ UNCHANGED <<kind, cur, main, verdict, report, pid, helperVars>>

\* Waiting for a process fails: the rest is dropped, and the error ends the suite unless the
\* scenario was failing anyway and ignores it.
TerminateFails ==
    /\ main = "stop" /\ next <= NGateways
    /\ DropAll(Held)
    /\ IF kind[cur] = "watched" /\ verdict = "skipped" THEN Over(Skipped) ELSE Abort
    /\ UNCHANGED <<kind, pid, helperVars>>

\* Everything is stopped: the result is written, or the reason for skipping it.
Record ==
    /\ main = "stop" /\ next > NGateways
    /\ Over([report[cur] EXCEPT !.outcome = verdict])
    /\ UNCHANGED <<kind, procVars, helperVars, strays>>

\* The result, or the reason, cannot be written.
RecordFails ==
    /\ main = "stop" /\ next > NGateways
    /\ Abort
    /\ UNCHANGED <<kind, procVars, helperVars, strays>>

\* What the main thread does by itself; EngineReturns and Sweep also need the gateways to
\* cooperate.
MainStep ==
    \/ SkipEarly \/ Spawn \/ SpawnFails \/ WaitReady \/ NotReady
    \/ ExitedEarly \/ DropUnstarted
    \/ SpawnHelper \/ StageFails \/ Join \/ LateError
    \/ Terminate \/ TerminateFails \/ Record \/ RecordFails

(***************************************************************************)
(* The watchdog thread.                                                    *)
(***************************************************************************)

\* The flag is seen, in the polling loop or after it.
WatchdogLeaves(s) ==
    /\ helper[s] = "watching" /\ done[s]
    /\ helper' = [helper EXCEPT ![s] = "ended"]
    /\ UNCHANGED <<suiteVars, procVars, backup, done, succeeded, fired, strays>>

\* The budget is used up and the flag was not set when it was looked at.
WatchdogExpires(s) ==
    /\ helper[s] = "watching" /\ ~done[s]
    /\ helper' = [helper EXCEPT ![s] = "firing"]
    /\ UNCHANGED <<suiteVars, procVars, backup, done, succeeded, fired, strays>>

\* Regression: only the first process of the path is killed.
Victims_First(s) == {<<s, 1>>}

\* The processes the watchdog remembers.
Victims(s) == {g \in Gateways : g[1] = s}

\* force_kill: SIGKILL to every remembered id.
ForceKill(s) ==
    /\ helper[s] = "firing"
    /\ Signal("KILL", Victims(s))
    /\ st' = [h \in Gateways |-> IF \E g \in Victims(s) : Reached(g) = h THEN "exited" ELSE st[h]]
    /\ helper' = [helper EXCEPT ![s] = "ended"]
    /\ UNCHANGED <<suiteVars, pid, file, backup, done, succeeded, fired>>

Watchdog(s) == WatchdogLeaves(s) \/ WatchdogExpires(s) \/ ForceKill(s)

(***************************************************************************)
(* The reload thread: it acts on the first process of the path.            *)
(***************************************************************************)
First(s) == <<s, 1>>

\* The action is over: its status is stored, then the fired flag.
ReloadEnds(s, ok) ==
    /\ helper' = [helper EXCEPT ![s] = "ended"]
    /\ succeeded' = [succeeded EXCEPT ![s] = ok]
    /\ fired' = [fired EXCEPT ![s] = TRUE]
    /\ backup' = [backup EXCEPT ![s] = "absent"]
    /\ UNCHANGED <<suiteVars, pid, done>>

\* The trigger time has passed: the configuration is read, a management endpoint created,
\* or, for a profile update, nothing precedes the signal.
ReloadBegins(s) ==
    /\ helper[s] = "sleeping"
    /\ kind[s] = "manage" => st[First(s)] = "up"
    /\ backup' = [backup EXCEPT ![s] = IF kind[s] \in {"invalid_config", "rotate_cert"}
                                       THEN file[First(s)] ELSE @]
    /\ helper' = [helper EXCEPT ![s] = CASE kind[s] = "manage" -> "created"
                                         [] kind[s] = "update_profile" -> "signal"
                                         [] OTHER -> "write"]
    /\ UNCHANGED <<suiteVars, procVars, done, succeeded, fired, strays>>

\* The action fails: an RPC error, or no configuration to rotate certificates in.
ReloadFails(s) ==
    /\ \/ helper[s] \in {"sleeping", "created"} /\ kind[s] = "manage"
       \/ helper[s] = "write" /\ kind[s] = "rotate_cert"
    /\ ReloadEnds(s, FALSE)
    /\ UNCHANGED <<st, file, strays>>

\* The new management endpoint is closed again.
CloseEndpoint(s) ==
    /\ helper[s] = "created" /\ st[First(s)] = "up"
    /\ ReloadEnds(s, TRUE)
    /\ UNCHANGED <<st, file, strays>>

\* The configuration is replaced: by an invalid one, or by one with the other identity,
\* which needs the old one to have been read.
WriteConfig(s) ==
    /\ helper[s] = "write"
    /\ kind[s] = "rotate_cert" => backup[s] # "absent"
    /\ file' = [file EXCEPT ![First(s)] =
                   IF kind[s] = "rotate_cert" THEN "swapped" ELSE "invalid"]
    /\ helper' = [helper EXCEPT ![s] = "signal"]
    /\ UNCHANGED <<suiteVars, st, pid, backup, done, succeeded, fired, strays>>

\* SIGHUP to the remembered id; whether it arrives is not looked at.
SignalReload(s) ==
    /\ helper[s] = "signal"
    /\ Signal("HUP", {First(s)})
    /\ \/ /\ kind[s] = "invalid_config"
          /\ helper' = [helper EXCEPT ![s] = "restore"]
          /\ UNCHANGED <<suiteVars, pid, backup, done, succeeded, fired>>
       \/ /\ kind[s] # "invalid_config"
          /\ ReloadEnds(s, TRUE)
    /\ UNCHANGED <<st, file>>

\* The valid configuration is written back, if there was one.
Restore(s) ==
    /\ helper[s] = "restore"
    /\ file' = [file EXCEPT ![First(s)] = IF backup[s] = "absent" THEN @ ELSE backup[s]]
    /\ ReloadEnds(s, TRUE)
    /\ UNCHANGED <<st, strays>>

Reload(s) ==
    \/ ReloadBegins(s) \/ ReloadFails(s) \/ CloseEndpoint(s)
    \/ WriteConfig(s) \/ SignalReload(s) \/ Restore(s)

(***************************************************************************)
(* The gateway processes themselves.                                       *)
(***************************************************************************)

\* A process stops relaying without exiting, or it exits.
Fails(g) ==
    /\ \/ st[g] = "up" /\ st' = [st EXCEPT ![g] = "hung"]
       \/ st[g] \in {"up", "hung"} /\ st' = [st EXCEPT ![g] = "exited"]
    /\ UNCHANGED <<suiteVars, pid, file, helperVars, strays>>

\* The loop over the scenarios has ended; a detached helper thread may still act while the
\* reports are written.
Finished == main \in {"finished", "aborted"} /\ UNCHANGED vars

Next ==
    \/ MainStep \/ EngineReturns \/ Sweep
    \/ \E s \in Scenarios : Watchdog(s) \/ Reload(s)
    \/ \E g \in Gateways : Fails(g)
    \/ Finished

Spec == Init /\ [][Next]_vars

NoneHung == \A g \in Held : st[g] # "hung"

\* The main and the helper threads run; the engine returns, also from the runs of a sweep,
\* once no gateway holds its connections without relaying or closing them.
Fairness ==
    /\ WF_vars(MainStep)
    /\ WF_vars(NoneHung /\ EngineReturns) /\ WF_vars(NoneHung /\ Sweep)
    /\ \A s \in Scenarios : WF_vars(Watchdog(s)) /\ WF_vars(Reload(s))

FairSpec == Spec /\ Fairness

(***************************************************************************)
(* Properties.                                                             *)
(***************************************************************************)

\* Type invariant of the suite, its processes and their helper threads.
TypeOK ==
    /\ kind \in [Scenarios -> Kinds] /\ cur \in Scenarios
    /\ main \in {"start", "ready", "drop", "prepare", "run", "join", "sweep", "stop",
                 "finished", "aborted"}
    /\ next \in 1 .. NGateways + 1 /\ verdict \in {"skipped", "recorded"}
    /\ st \in [Gateways -> {"none", "up", "hung", "exited", "reaped"}]
    /\ pid \in [Gateways -> Pids \cup {0}]
    /\ file \in [Gateways -> {"absent", "valid", "invalid", "swapped"}]
    /\ helper \in [Scenarios -> {"none", "watching", "firing", "sleeping", "created", "write",
                                 "signal", "restore", "ended"}]
    /\ backup \in [Scenarios -> {"absent", "valid", "invalid", "swapped"}]
    /\ done \in [Scenarios -> BOOLEAN] /\ succeeded \in [Scenarios -> BOOLEAN]
    /\ fired \in [Scenarios -> BOOLEAN]
    /\ report \in [Scenarios -> [outcome : {"pending", "skipped", "recorded", "aborted"},
                                 fired : BOOLEAN, applied : BOOLEAN]]
    /\ strays \subseteq [sig : {"KILL", "TERM", "HUP"}, from : Gateways,
                         to : Gateways \cup {Nobody}]

\* No gateway outlives its scenario.  On every way out (a process that does not start or
\* does not get ready behind one that did, a failed run, a stop that fails half-way, an
\* error after the run) all the processes of a scenario have been waited for before the
\* next scenario starts its own.
NoOrphanGateway ==
    \A g \in Gateways :
        st[g] \in {"up", "hung", "exited"} => g[1] = cur /\ main \notin {"finished", "aborted"}

\* A stale process id is never killed: a termination signal of the watchdog, of terminate or
\* of a dropped handle reaches the process it is meant for, or (a process that was found to
\* have exited while it started) none at all, but never the process that has the id now.
KillsOnlyOwn == \A h \in strays : h.sig \in {"KILL", "TERM"} => h.to = Nobody

\* A recorded scenario has left no configuration file behind, although its reload thread
\* rewrites that file concurrently; neither has a watched scenario that is over, however it
\* ended, of the processes it had spawned.
ConfigRemoved ==
    \A g \in Gateways :
        LET outcome == report[g[1]].outcome IN
        (/\ st[g] = "reaped"
         /\ outcome = "recorded" \/ (kind[g[1]] = "watched" /\ outcome # "pending"))
            => file[g] = "absent"

\* A recorded hot-reload result is about a reload that happened: the action was over when
\* the result was taken, its outcome is the one reported, and a certificate swap reported
\* as applied was both written and signalled.
ReloadReportFinal ==
    \A s \in Scenarios :
        (report[s].outcome = "recorded" /\ kind[s] \in ReloadActions) =>
            /\ report[s].fired /\ helper[s] = "ended"
            /\ report[s].applied = (kind[s] = "rotate_cert" /\ succeeded[s])
            /\ report[s].applied => \A h \in strays : h.from # First(s)

\* A watched scenario ends, even if a gateway hangs and takes the engine with it; unless it
\* hangs in the saturation sweep, by which time the watchdog has been joined.
WatchedScenarioEnds ==
    \A s \in Scenarios :
        (cur = s /\ kind[s] = "watched") ~>
            (cur # s \/ main \in {"finished", "aborted"} \/ (main = "sweep" /\ ~NoneHung))

(***************************************************************************)
(* What the repository's comments say and the code does not do.            *)
(***************************************************************************)

\* commands.rs, SAFETY comments of the reload thread: "`pid` is the PID of the live gateway
\* child process spawned and owned by `dut`".
ReloadSignalsOwnGateway == \A h \in strays : h.sig # "HUP"

\* commands.rs, comment of the watchdog: "a single scenario must never be able to hang the
\* whole suite".
ScenarioNeverHangsSuite ==
    \A s \in Scenarios :
        (cur = s /\ kind[s] = "watched") ~> (cur # s \/ main \in {"finished", "aborted"})
===============================================================================
