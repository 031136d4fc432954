----------------------------- MODULE SuiteResume -----------------------------
(***************************************************************************)
(* The result directory of a suite that may be interrupted and resumed:    *)
(* the loop of commands.rs over the scenarios (run_config, finish_context) *)
(* and the artifacts report/results.rs writes for each of them.            *)
(*                                                                         *)
(* A scenario's artifacts are written one file after the other, each by    *)
(* creating or truncating the file and then filling it.  The process may   *)
(* stop between any two steps: it is killed, or a write fails and `?` ends *)
(* the suite.  It is then started again with --resume: scenarios that have *)
(* a terminal artifact are skipped, and the tables at the top of the tree  *)
(* are rebuilt from the files on disk.  What lives in memory only (the     *)
(* comparison rows and the ceilings of the comparison groups) is gone.     *)
(***************************************************************************)
EXTENDS Integers, Sequences, FiniteSets

CONSTANTS
    NScenarios,     \* bound: scenarios of the suite
    Kinds,          \* scenario kinds to explore
    MaxLaunches,    \* bound: times the suite is started
    TornWrites      \* may a stop leave the file being written empty?

(***************************************************************************)
(* "plain"       a loopback or gateway scenario;                           *)
(* "streams"     a multi-stream scenario;                                  *)
(* "reload"      a hot-reload scenario;                                    *)
(* "throughput"  a row of a comparison group that sets the group's         *)
(*               ceiling, and                                              *)
(* "latency"     a row of it that is paced off that ceiling.               *)
(***************************************************************************)
ASSUME SuiteAssumption ==
    /\ NScenarios \in Nat /\ MaxLaunches \in Nat /\ TornWrites \in BOOLEAN
    /\ Kinds \subseteq {"plain", "streams", "reload", "throughput", "latency"}

Scenarios == 1 .. NScenarios

Artifacts == {"config", "summary", "runs", "summary_row", "skip", "skip_row", "streams",
              "stream_summary", "hotreload"}

\* Those that show that a scenario has been recorded.
Terminal == {"summary", "skip", "stream_summary", "hotreload"}

VARIABLES
    kind,       \* the kind of each scenario
    main,       \* "down", "next", "write", "finish" or "finished"
    launch,     \* number of the running process
    cur,        \* the scenario being looked at
    unwritten,  \* artifacts of it still to be written
    disk,       \* per scenario and artifact: the process that wrote it, 0 if none has
    torn,       \* per scenario: artifacts that were left empty
    comparisons,\* in memory: the comparison rows recorded
    captured,   \* in memory: the throughput rows the group's ceiling is the minimum of
    paced,      \* per latency row: the rows it was paced off, when it was measured
    tabled,     \* is there a summary.csv at the top of the tree?
    summary,    \* the table summary.csv: its rows, each with the artifact it was built from
    skipped,    \* the table skipped.csv
    compared    \* the table interface_comparison.csv

memVars    == <<comparisons, captured>>
tableVars  == <<tabled, summary, skipped, compared>>
resumeVars == <<kind, main, launch, cur, unwritten, disk, torn, memVars, paced, tableVars>>

OnDisk(s, a) == disk[s][a] # 0

ResumeInit ==
    /\ kind \in [Scenarios -> Kinds]
    \* the matrix generator puts the throughput rows of a group first
    /\ \A i, j \in Scenarios : kind[i] = "latency" /\ kind[j] = "throughput" => j < i
    /\ main = "down" /\ launch = 0 /\ cur = 1 /\ unwritten = << >>
    /\ disk = [s \in Scenarios |-> [a \in Artifacts |-> 0]]
    /\ torn = [s \in Scenarios |-> {}]
    /\ comparisons = {} /\ captured = {}
    /\ paced = [s \in Scenarios |-> {}]
    /\ tabled = FALSE /\ summary = {} /\ skipped = {} /\ compared = {}

(***************************************************************************)
(* The loop over the scenarios.                                            *)
(***************************************************************************)

\* prepare_context: a fresh directory the first time, then the existing one.
LaunchProcess ==
    /\ main \in {"down", "finished"} /\ launch < MaxLaunches
    /\ launch' = launch + 1
    /\ main' = "next" /\ cur' = 1 /\ unwritten' = << >>
    /\ comparisons' = {} /\ captured' = {}
    /\ UNCHANGED <<kind, disk, torn, paced, tableVars>>

\* Regression: a result counts as recorded only with the last artifact of the common ones.
Recorded_RowOnly(s) == OnDisk(s, "summary_row") \/ OnDisk(s, "skip")

\* scenario_recorded: any terminal artifact is a file.
Recorded(s) == \E a \in Terminal : OnDisk(s, a)

\* Regression: a resumed process runs every scenario again.
Pending_All == TRUE

\* The scenario has not been recorded by an earlier process.
Pending == ~Recorded(cur)

\* The scenario after the current one.
Following == cur + 1

SkipRecorded ==
    /\ main = "next" /\ cur <= NScenarios
    /\ ~Pending
    /\ cur' = Following
    /\ UNCHANGED <<kind, main, launch, unwritten, disk, torn, memVars, paced, tableVars>>

\* Regression: the summary is written before the configuration it refers to.
Common_SummaryFirst == <<"summary", "config", "runs", "summary_row">>

\* What record_scenario writes.
Common == <<"config", "summary", "runs", "summary_row">>

\* The artifacts of a measured scenario, in the order they are written.
ArtifactsOf(s) ==
    CASE kind[s] = "streams" -> <<"streams", "stream_summary">> \o Common
      [] kind[s] = "reload"  -> Common \o <<"hotreload">>
      [] OTHER               -> Common

\* Regression: a latency row keeps the rate of the configuration.
Rate_Own == {}

\* comparison_rate: the ceiling a latency row is paced off is the one known by then.
Rate == captured

\* The scenario is run and has a result.
Measure ==
    /\ main = "next" /\ cur <= NScenarios /\ Pending
    /\ unwritten' = ArtifactsOf(cur)
    /\ paced' = [paced EXCEPT ![cur] = IF kind[cur] = "latency" THEN Rate ELSE {}]
    /\ main' = "write"
    /\ UNCHANGED <<kind, launch, cur, disk, torn, memVars, tableVars>>

\* The scenario cannot be run, or its run has no result.  A multi-stream run may turn out
\* to have none after its streams were recorded.
Skip ==
    /\ main = "next" /\ cur <= NScenarios /\ Pending
    /\ \/ unwritten' = <<"skip", "skip_row">>
       \/ kind[cur] = "streams" /\ unwritten' = <<"streams", "stream_summary", "skip", "skip_row">>
    /\ main' = "write"
    /\ UNCHANGED <<kind, launch, cur, disk, torn, memVars, paced, tableVars>>

\* The next artifact is written.  Once its row is on disk, a comparison scenario is added
\* to the comparison rows.
WriteArtifact ==
    /\ main = "write" /\ unwritten # << >>
    /\ disk' = [disk EXCEPT ![cur][Head(unwritten)] = launch]
    /\ torn' = [torn EXCEPT ![cur] = @ \ {Head(unwritten)}]
    /\ unwritten' = Tail(unwritten)
    /\ comparisons' = IF Head(unwritten) = "summary_row" /\ kind[cur] \in {"throughput", "latency"}
                      THEN comparisons \cup {cur} ELSE comparisons
    /\ UNCHANGED <<kind, main, launch, cur, captured, paced, tableVars>>

\* capture_comparison_ceiling: a throughput row that was not overloaded counts.
ScenarioDone ==
    /\ main = "write" /\ unwritten = << >>
    /\ \/ UNCHANGED captured
       \/ /\ kind[cur] = "throughput" /\ cur \in comparisons
          /\ captured' = captured \cup {cur}
    /\ main' = "next" /\ cur' = Following
    /\ UNCHANGED <<kind, launch, unwritten, disk, torn, comparisons, paced, tableVars>>

(***************************************************************************)
(* The tables: ResultDir::finish.                                          *)
(***************************************************************************)

\* The artifact a scenario's row in summary.csv is taken from: its own row, or the row
\* reconstructed from its summary and its configuration.
RowSource(s) == IF OnDisk(s, "summary_row") THEN "summary_row" ELSE "summary"

\* rebuild_summary: an empty row file is counted but adds no row; an empty summary gives a
\* row without figures.
SummaryRows ==
    {[scenario |-> s, from |-> RowSource(s)] :
        s \in {r \in Scenarios :
                  /\ OnDisk(r, "summary_row") \/ OnDisk(r, "summary")
                  /\ "summary_row" \notin torn[r]}}

\* rebuild_skipped, likewise; a row taken from an empty file names no scenario.
SkippedRows ==
    {s \in Scenarios : /\ OnDisk(s, "skip_row") \/ OnDisk(s, "skip")
                       /\ (IF OnDisk(s, "skip_row") THEN "skip_row" ELSE "skip") \notin torn[s]}

StartFinish ==
    /\ main = "next" /\ cur > NScenarios
    /\ main' = "finish" /\ unwritten' = <<"summary", "skipped", "compared">>
    /\ UNCHANGED <<kind, launch, cur, disk, torn, memVars, paced, tableVars>>

\* The tables are written one after the other; without comparison rows in memory the
\* comparison table is left as it is.
WriteTable ==
    /\ main = "finish"
    /\ \/ /\ Head(unwritten) = "summary"
          /\ tabled' = TRUE /\ summary' = SummaryRows /\ UNCHANGED <<skipped, compared>>
       \/ /\ Head(unwritten) = "skipped"
          /\ skipped' = SkippedRows /\ UNCHANGED <<tabled, summary, compared>>
       \/ /\ Head(unwritten) = "compared"
          /\ compared' = IF comparisons = {} THEN compared ELSE comparisons
          /\ UNCHANGED <<tabled, summary, skipped>>
    /\ unwritten' = Tail(unwritten)
    /\ main' = IF Len(unwritten) = 1 THEN "finished" ELSE "finish"
    /\ UNCHANGED <<kind, launch, cur, disk, torn, memVars, paced>>

\* The report command rebuilds the first two tables of an interrupted suite, the second
\* only if it is not stopped in between; where there is a summary.csv it only reads.
Report ==
    /\ main = "down" /\ launch > 0 /\ ~tabled
    /\ tabled' = TRUE /\ summary' = SummaryRows
    /\ skipped' \in {skipped, SkippedRows}
    /\ UNCHANGED <<kind, main, launch, cur, unwritten, disk, torn, memVars, paced, compared>>

(***************************************************************************)
(* The process stops: it is killed, or an error ends the suite.            *)
(***************************************************************************)
Stop ==
    /\ main \in {"next", "write", "finish"}
    /\ main' = "down"
    /\ \/ UNCHANGED <<disk, torn>>
       \/ /\ TornWrites /\ main = "write" /\ unwritten # << >>
          /\ disk' = [disk EXCEPT ![cur][Head(unwritten)] = launch]
          /\ torn' = [torn EXCEPT ![cur] = @ \cup {Head(unwritten)}]
    /\ UNCHANGED <<kind, launch, cur, unwritten, memVars, paced, tableVars>>

\* No further launch is considered.
Ended == main \in {"down", "finished"} /\ launch = MaxLaunches /\ UNCHANGED resumeVars

ResumeNext ==
    \/ LaunchProcess
    \/ SkipRecorded \/ Measure \/ Skip \/ WriteArtifact \/ ScenarioDone
    \/ StartFinish \/ WriteTable \/ Report
    \/ Stop
    \/ Ended

ResumeSpec == ResumeInit /\ [][ResumeNext]_resumeVars

(***************************************************************************)
(* Properties.                                                             *)
(***************************************************************************)

\* Type invariant of the suite and of its result directory.
ResumeTypeOK ==
    /\ kind \in [Scenarios -> Kinds]
    /\ main \in {"down", "next", "write", "finish", "finished"}
    /\ launch \in 0 .. MaxLaunches /\ cur \in 1 .. NScenarios + 1
    /\ unwritten \in Seq(Artifacts \cup {"skipped", "compared"})
    /\ disk \in [Scenarios -> [Artifacts -> 0 .. MaxLaunches]]
    /\ torn \in [Scenarios -> SUBSET Artifacts]
    /\ comparisons \subseteq Scenarios /\ captured \subseteq Scenarios
    /\ paced \in [Scenarios -> SUBSET Scenarios]
    /\ tabled \in BOOLEAN
    /\ summary \subseteq [scenario : Scenarios, from : {"summary_row", "summary"}]
    /\ skipped \subseteq Scenarios /\ compared \subseteq Scenarios

Summarised == {r.scenario : r \in summary}

\* A finished suite accounts for its scenarios, however often it was stopped and wherever:
\* each is in at most one of the tables, never measured by one process and skipped by
\* another; and one whose files are whole is in exactly one of them, except for a
\* multi-stream scenario stopped between its two groups of artifacts.
AccountedFor ==
    main = "finished" =>
        /\ Summarised \cap skipped = {}
        /\ \A s \in Scenarios :
             (/\ torn[s] = {}
              /\ OnDisk(s, "stream_summary") => OnDisk(s, "summary") \/ OnDisk(s, "skip"))
                => s \in Summarised \cup skipped

\* Every row of summary.csv is one measurement: the configuration, the summary and the
\* row it is taken from were all written, and by the same process.
RowIsOneMeasurement ==
    \A r \in summary :
        LET d == disk[r.scenario]
        IN  d["config"] # 0 /\ d["summary"] = d["config"] /\ d[r.from] = d["config"]

\* What is recorded is kept: once an earlier process has left a terminal artifact of a
\* scenario, whole or not, no later one touches any artifact of that scenario.
RecordedIsKept ==
    [][\A s \in Scenarios :
          (\E a \in Terminal : disk[s][a] \in 1 .. launch - 1) => disk'[s] = disk[s]]_resumeVars

\* The latency rows of a comparison are comparable if they come from one process: they are
\* paced off the same ceiling, which is that of the throughput rows the process captured.
PacedAlike ==
    \A s \in Scenarios :
        (kind[s] = "latency" /\ disk[s]["summary"] = launch /\ launch # 0) => paced[s] = captured

(***************************************************************************)
(* What the repository's comments say and the code does not do.            *)
(***************************************************************************)

\* results.rs, ResultDir: the tables are rebuilt from the files on disk, "so an interrupted
\* or resumed run still yields a complete table".
EveryScenarioListed == main = "finished" => Scenarios = Summarised \cup skipped
===============================================================================
