------------------------- MODULE SuiteResume_proofs -------------------------
(***************************************************************************)
(* Proofs about the result directory of an interrupted suite, for any      *)
(* number of scenarios, kinds and launches, with and without torn writes.  *)
(***************************************************************************)
EXTENDS SuiteResume, SequenceTheorems, TLAPS

\* While a scenario's artifacts are written, they are artifacts, and the scenario exists.
WritesArtifacts ==
    /\ main = "write" => cur \in Scenarios /\ unwritten \in Seq(Artifacts)
    /\ main = "finish" => unwritten # << >>

\* A scenario is written by a process only if none before it has left a terminal artifact.
FreshWhenWritten ==
    main = "write" => \A a \in Terminal : disk[cur][a] \in {0, launch}

\* Inductive invariant.
IInv == ResumeTypeOK /\ WritesArtifacts /\ FreshWhenWritten

\* What a scenario has to be written is a sequence of artifacts.
LEMMA WrittenType ==
    ASSUME NEW s \in Scenarios
    PROVE  ArtifactsOf(s) \in Seq(Artifacts)
<1>1. Common \in Seq(Artifacts)
  BY DEF Common, Artifacts
<1>2. <<"streams", "stream_summary">> \in Seq(Artifacts) /\ <<"hotreload">> \in Seq(Artifacts)
  BY DEF Artifacts
<1>3. /\ <<"streams", "stream_summary">> \o Common \in Seq(Artifacts)
      /\ Common \o <<"hotreload">> \in Seq(Artifacts)
  BY <1>1, <1>2, ConcatProperties
<1> QED
  BY <1>1, <1>3 DEF ArtifactsOf

\* A sequence of artifacts is one of artifacts and tables.
LEMMA ArtifactSeqs ==
    ASSUME NEW q \in Seq(Artifacts)
    PROVE  q \in Seq(Artifacts \cup {"skipped", "compared"})
  OBVIOUS

\* The rows of the rebuilt tables are well typed.
LEMMA TablesType ==
    /\ SummaryRows \subseteq [scenario : Scenarios, from : {"summary_row", "summary"}]
    /\ SkippedRows \subseteq Scenarios
  BY DEF SummaryRows, SkippedRows, RowSource

\* The initial states satisfy the invariant: the directory is empty.
LEMMA InitIInv == ResumeInit => IInv
<1> SUFFICES ASSUME ResumeInit PROVE IInv
  OBVIOUS
<1>1. cur \in 1 .. NScenarios + 1 /\ launch \in 0 .. MaxLaunches
  BY SuiteAssumption DEF ResumeInit
<1>2. unwritten \in Seq(Artifacts \cup {"skipped", "compared"})
  BY DEF ResumeInit
<1>3. disk \in [Scenarios -> [Artifacts -> 0 .. MaxLaunches]]
  BY SuiteAssumption DEF ResumeInit
<1>4. torn \in [Scenarios -> SUBSET Artifacts] /\ paced \in [Scenarios -> SUBSET Scenarios]
  BY DEF ResumeInit
<1>5. ResumeTypeOK
  BY <1>1, <1>2, <1>3, <1>4 DEF ResumeInit, ResumeTypeOK
<1> QED
  BY <1>5 DEF ResumeInit, IInv, WritesArtifacts, FreshWhenWritten

\* Every step of the suite preserves the invariant.
LEMMA StepIInv == IInv /\ [ResumeNext]_resumeVars => IInv'
<1> SUFFICES ASSUME IInv, [ResumeNext]_resumeVars PROVE IInv'
  OBVIOUS
<1> USE SuiteAssumption
<1>1. CASE LaunchProcess
  <2>1. ResumeTypeOK'
    BY <1>1 DEF IInv, ResumeTypeOK, LaunchProcess, tableVars, Scenarios
  <2> QED
    BY <2>1, <1>1 DEF IInv, WritesArtifacts, FreshWhenWritten, LaunchProcess
<1>2. CASE SkipRecorded
  <2>1. ResumeTypeOK'
    BY <1>2 DEF IInv, ResumeTypeOK, SkipRecorded, Following, memVars, tableVars
  <2> QED
    BY <2>1, <1>2 DEF IInv, WritesArtifacts, FreshWhenWritten, SkipRecorded
<1>3. CASE Measure
  <2>1. cur \in Scenarios
    BY <1>3 DEF IInv, ResumeTypeOK, Measure, Scenarios
  <2>2. unwritten' \in Seq(Artifacts) /\ unwritten' \in Seq(Artifacts \cup {"skipped", "compared"})
    BY <1>3, <2>1, WrittenType, ArtifactSeqs DEF Measure
  <2>3. paced' \in [Scenarios -> SUBSET Scenarios]
    BY <1>3, <2>1 DEF IInv, ResumeTypeOK, Measure, Rate
  <2>4. ResumeTypeOK'
    BY <1>3, <2>2, <2>3 DEF IInv, ResumeTypeOK, Measure, memVars, tableVars
  <2>5. \A a \in Terminal : disk[cur][a] = 0
    BY <1>3 DEF Measure, Pending, Recorded, OnDisk
  <2> QED
    BY <2>1, <2>2, <2>4, <2>5, <1>3
    DEF IInv, WritesArtifacts, FreshWhenWritten, Measure
<1>4. CASE Skip
  <2>1. cur \in Scenarios
    BY <1>4 DEF IInv, ResumeTypeOK, Skip, Scenarios
  <2>2. unwritten' \in Seq(Artifacts) /\ unwritten' \in Seq(Artifacts \cup {"skipped", "compared"})
    <3>1. /\ <<"skip", "skip_row">> \in Seq(Artifacts)
          /\ <<"streams", "stream_summary", "skip", "skip_row">> \in Seq(Artifacts)
      BY DEF Artifacts
    <3> QED
      BY <1>4, <3>1, ArtifactSeqs DEF Skip
  <2>3. ResumeTypeOK'
    BY <1>4, <2>2 DEF IInv, ResumeTypeOK, Skip, memVars, tableVars
  <2>4. \A a \in Terminal : disk[cur][a] = 0
    BY <1>4 DEF Skip, Pending, Recorded, OnDisk
  <2> QED
    BY <2>1, <2>2, <2>3, <2>4, <1>4
    DEF IInv, WritesArtifacts, FreshWhenWritten, Skip
<1>5. CASE WriteArtifact
  <2>1. cur \in Scenarios /\ unwritten \in Seq(Artifacts) /\ unwritten # << >>
    BY <1>5 DEF IInv, WritesArtifacts, WriteArtifact
  <2>2. Head(unwritten) \in Artifacts /\ Tail(unwritten) \in Seq(Artifacts)
    BY <2>1
  <2>3. unwritten' \in Seq(Artifacts \cup {"skipped", "compared"})
    BY <1>5, <2>2, ArtifactSeqs DEF WriteArtifact
  <2>4. /\ disk' \in [Scenarios -> [Artifacts -> 0 .. MaxLaunches]]
        /\ \A a \in Artifacts : disk'[cur][a] \in {disk[cur][a], launch}
    BY <1>5, <2>1, <2>2 DEF IInv, ResumeTypeOK, WriteArtifact
  <2>5. torn' \in [Scenarios -> SUBSET Artifacts] /\ comparisons' \subseteq Scenarios
    BY <1>5, <2>1 DEF IInv, ResumeTypeOK, WriteArtifact
  <2>6. ResumeTypeOK'
    BY <1>5, <2>3, <2>4, <2>5 DEF IInv, ResumeTypeOK, WriteArtifact, tableVars
  <2>7. FreshWhenWritten'
    BY <1>5, <2>4 DEF IInv, FreshWhenWritten, WriteArtifact, Terminal, Artifacts
  <2> QED
    BY <1>5, <2>1, <2>2, <2>6, <2>7 DEF IInv, WritesArtifacts, WriteArtifact
<1>6. CASE ScenarioDone
  <2>1. cur \in Scenarios
    BY <1>6 DEF IInv, WritesArtifacts, ScenarioDone
  <2>2. cur' \in 1 .. NScenarios + 1
    BY <1>6, <2>1 DEF ScenarioDone, Following, Scenarios
  <2>3. captured' \subseteq Scenarios
    BY <1>6, <2>1 DEF IInv, ResumeTypeOK, ScenarioDone
  <2>4. ResumeTypeOK'
    BY <1>6, <2>2, <2>3 DEF IInv, ResumeTypeOK, ScenarioDone, tableVars
  <2> QED
    BY <2>4, <1>6 DEF IInv, WritesArtifacts, FreshWhenWritten, ScenarioDone
<1>7. CASE StartFinish
  <2>1. unwritten' \in Seq(Artifacts \cup {"skipped", "compared"}) /\ unwritten' # << >>
    BY <1>7 DEF StartFinish, Artifacts
  <2>2. ResumeTypeOK'
    BY <1>7, <2>1 DEF IInv, ResumeTypeOK, StartFinish, memVars, tableVars
  <2> QED
    BY <2>1, <2>2, <1>7 DEF IInv, WritesArtifacts, FreshWhenWritten, StartFinish
<1>8. CASE WriteTable
  <2> DEFINE A == Artifacts \cup {"skipped", "compared"}
  <2>1. unwritten \in Seq(A) /\ unwritten # << >>
    BY <1>8 DEF IInv, ResumeTypeOK, WritesArtifacts, WriteTable
  <2>2. Tail(unwritten) \in Seq(A) /\ (Len(unwritten) # 1 => Tail(unwritten) # << >>)
    <3>1. Tail(unwritten) \in Seq(A) /\ Len(Tail(unwritten)) = Len(unwritten) - 1 /\ Len(unwritten) \in Nat
      BY <2>1, HeadTailProperties
    <3>2. Len(<< >>) = 0
      BY EmptySeq
    <3> QED
      BY <3>1, <3>2
  <2>3. /\ tabled' \in BOOLEAN
        /\ summary' \subseteq [scenario : Scenarios, from : {"summary_row", "summary"}]
        /\ skipped' \subseteq Scenarios /\ compared' \subseteq Scenarios
    BY <1>8, TablesType DEF IInv, ResumeTypeOK, WriteTable
  <2>4. ResumeTypeOK'
    BY <1>8, <2>2, <2>3 DEF IInv, ResumeTypeOK, WriteTable, memVars
  <2> QED
    BY <1>8, <2>2, <2>4 DEF IInv, WritesArtifacts, FreshWhenWritten, WriteTable
<1>9. CASE Report
  <2>1. ResumeTypeOK'
    BY <1>9, TablesType DEF IInv, ResumeTypeOK, Report, memVars
  <2> QED
    BY <2>1, <1>9 DEF IInv, WritesArtifacts, FreshWhenWritten, Report
<1>10. CASE Stop
  <2>1. ASSUME main = "write", unwritten # << >>
        PROVE  Head(unwritten) \in Artifacts
    BY <2>1 DEF IInv, WritesArtifacts
  <2>2. /\ disk' \in [Scenarios -> [Artifacts -> 0 .. MaxLaunches]]
        /\ torn' \in [Scenarios -> SUBSET Artifacts]
    <3>1. CASE UNCHANGED <<disk, torn>>
      BY <3>1 DEF IInv, ResumeTypeOK
    <3>2. CASE ~UNCHANGED <<disk, torn>>
      <4>1. /\ main = "write" /\ unwritten # << >>
            /\ disk' = [disk EXCEPT ![cur][Head(unwritten)] = launch]
            /\ torn' = [torn EXCEPT ![cur] = @ \cup {Head(unwritten)}]
        BY <1>10, <3>2 DEF Stop
      <4> QED
        BY <2>1, <4>1 DEF IInv, ResumeTypeOK
    <3> QED
      BY <3>1, <3>2
  <2>3. ResumeTypeOK'
    BY <1>10, <2>2 DEF IInv, ResumeTypeOK, Stop, memVars, tableVars
  <2> QED
    BY <2>3, <1>10 DEF IInv, WritesArtifacts, FreshWhenWritten, Stop
<1>11. CASE UNCHANGED resumeVars
  BY <1>11 DEF IInv, ResumeTypeOK, WritesArtifacts, FreshWhenWritten, resumeVars, memVars, tableVars
<1> QED
  BY <1>1, <1>2, <1>3, <1>4, <1>5, <1>6, <1>7, <1>8, <1>9, <1>10, <1>11 DEF ResumeNext, Ended

\* The invariant holds of every reachable state.
LEMMA Invariance == ResumeSpec => []IInv
  BY InitIInv, StepIInv, PTL DEF ResumeSpec

\* Every reachable state of an interrupted and resumed suite is well typed.
THEOREM TypeCorrect == ResumeSpec => []ResumeTypeOK
<1>1. IInv => ResumeTypeOK
  BY DEF IInv
<1> QED
  BY <1>1, Invariance, PTL

\* No process ever touches an artifact of a scenario for which an earlier process left a
\* terminal artifact, wherever and however often the suite was stopped.
THEOREM KeptSafe == ResumeSpec => RecordedIsKept
<1> DEFINE Kept == \A s \in Scenarios :
                      (\E a \in Terminal : disk[s][a] \in 1 .. launch - 1) => disk'[s] = disk[s]
<1>1. ASSUME IInv, [ResumeNext]_resumeVars PROVE [Kept]_resumeVars
  <2>1. CASE UNCHANGED disk
    BY <2>1
  <2>2. ASSUME main = "write", NEW k \in Artifacts,
               disk' = [disk EXCEPT ![cur][k] = launch]
        PROVE  Kept
    <3>1. \A a \in Terminal : disk[cur][a] \notin 1 .. launch - 1
      <4>1. launch \in Nat
        BY <1>1, SuiteAssumption DEF IInv, ResumeTypeOK
      <4>2. \A a \in Terminal : disk[cur][a] = 0 \/ disk[cur][a] = launch
        BY <1>1, <2>2 DEF IInv, FreshWhenWritten
      <4> QED
        BY <4>1, <4>2
    <3>2. \A s \in Scenarios : s # cur => disk'[s] = disk[s]
      BY <1>1, <2>2 DEF IInv, ResumeTypeOK
    <3> QED
      BY <3>1, <3>2
  <2>3. CASE WriteArtifact
    <3>1. main = "write" /\ unwritten \in Seq(Artifacts) /\ unwritten # << >>
      BY <1>1, <2>3 DEF IInv, WritesArtifacts, WriteArtifact
    <3>2. Head(unwritten) \in Artifacts
      BY <3>1
    <3> QED
      BY <2>2, <2>3, <3>1, <3>2 DEF WriteArtifact
  <2>4. CASE Stop
    BY <1>1, <2>1, <2>2, <2>4 DEF IInv, WritesArtifacts, Stop
  <2> QED
    BY <1>1, <2>1, <2>3, <2>4
    DEF ResumeNext, resumeVars, LaunchProcess, SkipRecorded, Measure, Skip, ScenarioDone, StartFinish,
        WriteTable, Report, Ended
<1> QED
  BY <1>1, Invariance, PTL DEF ResumeSpec, RecordedIsKept

(***************************************************************************)
(* Rows of the summary are of one measurement.  The property is about what *)
(* is on disk; it rests on the order in which artifacts are written, so    *)
(* the invariant follows the list of those still to be written.            *)
(***************************************************************************)

\* Which artifact may follow which.
Order == {<<"streams", "stream_summary">>, <<"stream_summary", "config">>,
          <<"stream_summary", "skip">>, <<"skip", "skip_row">>, <<"config", "summary">>,
          <<"summary", "runs">>, <<"runs", "summary_row">>, <<"summary_row", "hotreload">>}

\* The artifacts still to be written follow each other in that order.
InOrder(q) == \A i \in 1 .. Len(q) - 1 : <<q[i], q[i + 1]>> \in Order

\* What the process has written of the scenario by the time artifact a is next.
Ready(a, d) ==
    /\ a \in {"streams", "stream_summary", "config"} => d["summary"] = 0 /\ d["summary_row"] = 0
    /\ a = "summary" => d["config"] = launch /\ d["summary"] = 0 /\ d["summary_row"] = 0
    /\ a \in {"runs", "summary_row"} =>
         d["config"] = launch /\ d["summary"] = launch /\ d["summary_row"] = 0

\* A summary is of the process that wrote the configuration, a row of the one that wrote both.
OneMeasurement(d) ==
    /\ d["summary"] # 0 => d["config"] = d["summary"]
    /\ d["summary_row"] # 0 => d["summary"] = d["summary_row"]

\* Artifacts are written in order, by a process that has a number.
Orderly ==
    /\ main # "down" => launch > 0
    /\ main = "write" => InOrder(unwritten) /\ (unwritten # << >> => Ready(Head(unwritten), disk[cur]))

\* Inductive invariant of the provenance of rows.
RInv ==
    /\ Orderly
    /\ \A s \in Scenarios : OneMeasurement(disk[s])
    /\ RowIsOneMeasurement

\* Writing the artifact that is next keeps every scenario of one measurement, and the rows
\* of the summary table true.
LEMMA WriteKeepsRows ==
    ASSUME IInv, RInv, main = "write", unwritten # << >>, summary' = summary,
           disk' = [disk EXCEPT ![cur][Head(unwritten)] = launch]
    PROVE  /\ \A s \in Scenarios : OneMeasurement(disk'[s])
           /\ RowIsOneMeasurement'
<1> DEFINE h == Head(unwritten)
<1>1. cur \in Scenarios /\ h \in Artifacts /\ launch > 0 /\ launch \in Nat
  <2>1. cur \in Scenarios /\ unwritten \in Seq(Artifacts)
    BY DEF IInv, WritesArtifacts
  <2>2. launch \in Nat /\ launch > 0
    BY SuiteAssumption DEF IInv, ResumeTypeOK, RInv, Orderly
  <2> QED
    BY <2>1, <2>2, HeadTailProperties
<1>2. Ready(h, disk[cur])
  BY DEF RInv, Orderly
<1>3. /\ \A s \in Scenarios : s # cur => disk'[s] = disk[s]
      /\ \A a \in Artifacts : disk'[cur][a] = IF a = h THEN launch ELSE disk[cur][a]
  BY <1>1 DEF IInv, ResumeTypeOK
<1>4. /\ disk'[cur]["config"] = IF h = "config" THEN launch ELSE disk[cur]["config"]
      /\ disk'[cur]["summary"] = IF h = "summary" THEN launch ELSE disk[cur]["summary"]
      /\ disk'[cur]["summary_row"] = IF h = "summary_row" THEN launch ELSE disk[cur]["summary_row"]
  BY <1>3 DEF Artifacts
<1>5. OneMeasurement(disk'[cur])
  BY <1>1, <1>2, <1>4 DEF RInv, OneMeasurement, Ready
<1>6. ASSUME NEW r \in summary, r.scenario = cur
      PROVE  /\ disk'[cur]["config"] # 0 /\ disk'[cur]["summary"] = disk'[cur]["config"]
             /\ disk'[cur][r.from] = disk'[cur]["config"]
  <2>1. /\ disk[cur]["config"] # 0 /\ disk[cur]["summary"] = disk[cur]["config"]
        /\ disk[cur][r.from] = disk[cur]["config"]
    BY <1>6 DEF RInv, RowIsOneMeasurement
  <2>2. r.from \in {"summary_row", "summary"}
    BY <1>6 DEF IInv, ResumeTypeOK
  <2>3. h # "config" /\ h # "summary"
    BY <2>1, <1>2 DEF Ready
  <2>4. h = "summary_row" => r.from = "summary"
    BY <2>1, <2>2, <1>2 DEF Ready
  <2> QED
    BY <2>1, <2>2, <2>3, <2>4, <1>4
<1>7. RowIsOneMeasurement'
  <2> SUFFICES ASSUME NEW r \in summary
               PROVE  /\ disk'[r.scenario]["config"] # 0
                      /\ disk'[r.scenario]["summary"] = disk'[r.scenario]["config"]
                      /\ disk'[r.scenario][r.from] = disk'[r.scenario]["config"]
    BY DEF RowIsOneMeasurement
  <2>1. r.scenario \in Scenarios
    BY DEF IInv, ResumeTypeOK
  <2> QED
    BY <2>1, <1>3, <1>6 DEF RInv, RowIsOneMeasurement
<1> QED
  BY <1>3, <1>5, <1>7 DEF RInv

\* A table rebuilt from scenarios that are each of one measurement has only such rows.
LEMMA RebuiltRows ==
    ASSUME IInv, RInv, summary' = SummaryRows, UNCHANGED disk
    PROVE  RowIsOneMeasurement'
<1> SUFFICES ASSUME NEW r \in SummaryRows
             PROVE  /\ disk[r.scenario]["config"] # 0
                    /\ disk[r.scenario]["summary"] = disk[r.scenario]["config"]
                    /\ disk[r.scenario][r.from] = disk[r.scenario]["config"]
  BY DEF RowIsOneMeasurement
<1>1. PICK s \in Scenarios : /\ disk[s]["summary_row"] # 0 \/ disk[s]["summary"] # 0
                             /\ r = [scenario |-> s, from |-> RowSource(s)]
  BY DEF SummaryRows, OnDisk
<1>2. OneMeasurement(disk[s])
  BY DEF RInv
<1>3. disk[s]["config"] # 0 /\ disk[s]["summary"] = disk[s]["config"]
  BY <1>1, <1>2 DEF OneMeasurement
<1>4. disk[s][RowSource(s)] = disk[s]["config"]
  BY <1>2, <1>3 DEF OneMeasurement, RowSource, OnDisk
<1> QED
  BY <1>1, <1>3, <1>4

\* A scenario about to be written has no summary and no row yet.
LEMMA PendingFresh ==
    ASSUME IInv, RInv, Pending, cur \in Scenarios
    PROVE  disk[cur]["summary"] = 0 /\ disk[cur]["summary_row"] = 0
<1>1. disk[cur]["summary"] = 0
  BY DEF Pending, Recorded, OnDisk, Terminal
<1> QED
  BY <1>1 DEF RInv, OneMeasurement

\* Two lists in order make one, if the second may follow the first.
LEMMA ConcatInOrder ==
    ASSUME NEW p \in Seq(Artifacts), NEW q \in Seq(Artifacts), p # << >>, q # << >>,
           InOrder(p), InOrder(q), <<p[Len(p)], q[1]>> \in Order
    PROVE  InOrder(p \o q) /\ p \o q # << >> /\ Head(p \o q) = Head(p)
<1> DEFINE w == p \o q
           m == Len(p)
           n == Len(q)
<1>1. m \in Nat \ {0} /\ n \in Nat \ {0}
  BY EmptySeq
<1>2. w \in Seq(Artifacts) /\ Len(w) = m + n
  BY ConcatProperties
<1>3. \A i \in 1 .. m + n : w[i] = IF i <= m THEN p[i] ELSE q[i - m]
  BY ConcatProperties
<1>4. ASSUME NEW i \in 1 .. Len(w) - 1
      PROVE  <<w[i], w[i + 1]>> \in Order
  <2>1. i \in 1 .. m + n /\ i + 1 \in 1 .. m + n
    BY <1>1, <1>2
  <2>2. CASE i < m
    <3>1. w[i] = p[i] /\ w[i + 1] = p[i + 1] /\ i \in 1 .. m - 1
      BY <1>1, <1>3, <2>1, <2>2
    <3> QED
      BY <3>1 DEF InOrder
  <2>3. CASE i = m
    <3>1. w[i] = p[m] /\ w[i + 1] = q[1]
      BY <1>1, <1>3, <2>1, <2>3
    <3> QED
      BY <3>1
  <2>4. CASE i > m
    <3>1. w[i] = q[i - m] /\ w[i + 1] = q[(i - m) + 1] /\ i - m \in 1 .. n - 1
      BY <1>1, <1>2, <1>3, <2>1, <2>4
    <3> QED
      BY <3>1 DEF InOrder
  <2>5. i < m \/ i = m \/ i > m
    <3> HIDE DEF m, n
    <3> QED
      BY <1>1, <2>1
  <2> QED
    BY <2>2, <2>3, <2>4, <2>5
<1>5. w # << >> /\ Head(w) = Head(p)
  <2>1. w # << >>
    BY <1>1, <1>2, EmptySeq
  <2>2. Head(w) = w[1] /\ Head(p) = p[1] /\ w[1] = p[1]
    BY <1>1, <1>2, <1>3, <2>1
  <2> QED
    BY <2>1, <2>2
<1> QED
  BY <1>4, <1>5 DEF InOrder

\* The artifacts of a measured scenario are in order, and the first one is ready.
LEMMA WrittenInOrder ==
    ASSUME NEW s \in Scenarios
    PROVE  /\ InOrder(ArtifactsOf(s)) /\ ArtifactsOf(s) # << >>
           /\ Head(ArtifactsOf(s)) \in {"config", "streams"}
<1> DEFINE first == <<"streams", "stream_summary">>
           last  == <<"hotreload">>
<1>1. /\ Common \in Seq(Artifacts) /\ Common # << >> /\ InOrder(Common)
      /\ Head(Common) = "config" /\ Common[1] = "config" /\ Common[Len(Common)] = "summary_row"
  BY DEF Common, Artifacts, InOrder, Order
<1>2. /\ first \in Seq(Artifacts) /\ first # << >> /\ InOrder(first)
      /\ Head(first) = "streams" /\ first[Len(first)] = "stream_summary"
  BY DEF Artifacts, InOrder, Order
<1>3. last \in Seq(Artifacts) /\ last # << >> /\ InOrder(last) /\ last[1] = "hotreload"
  BY DEF Artifacts, InOrder
<1>4. InOrder(first \o Common) /\ first \o Common # << >> /\ Head(first \o Common) = "streams"
  <2>1. <<first[Len(first)], Common[1]>> \in Order
    BY <1>1, <1>2 DEF Order
  <2> HIDE DEF first
  <2> QED
    BY <1>1, <1>2, <2>1, ConcatInOrder
<1>5. InOrder(Common \o last) /\ Common \o last # << >> /\ Head(Common \o last) = "config"
  <2>1. <<Common[Len(Common)], last[1]>> \in Order
    BY <1>1, <1>3 DEF Order
  <2> HIDE DEF last
  <2> QED
    BY <1>1, <1>3, <2>1, ConcatInOrder
<1> QED
  BY <1>1, <1>4, <1>5 DEF ArtifactsOf

\* Every step preserves the provenance of rows.
LEMMA StepRInv == IInv /\ RInv /\ [ResumeNext]_resumeVars => RInv'
<1> SUFFICES ASSUME IInv, RInv, [ResumeNext]_resumeVars PROVE RInv'
  OBVIOUS
<1> USE SuiteAssumption
<1>1. CASE LaunchProcess
  <2>1. launch' > 0
    BY <1>1 DEF LaunchProcess, IInv, ResumeTypeOK
  <2> QED
    BY <1>1, <2>1 DEF LaunchProcess, RInv, Orderly, RowIsOneMeasurement, tableVars
<1>2. CASE SkipRecorded
  BY <1>2 DEF SkipRecorded, RInv, Orderly, RowIsOneMeasurement, tableVars
<1>3. CASE Measure
  <2>1. cur \in Scenarios
    BY <1>3 DEF IInv, ResumeTypeOK, Measure, Scenarios
  <2>2. disk[cur]["summary"] = 0 /\ disk[cur]["summary_row"] = 0
    BY <1>3, <2>1, PendingFresh DEF Measure
  <2>3. InOrder(unwritten)' /\ Ready(Head(unwritten), disk[cur])'
    BY <1>3, <2>1, <2>2, WrittenInOrder DEF Measure, InOrder, Ready
  <2>4. Orderly'
    BY <1>3, <2>3 DEF Measure, RInv, Orderly
  <2> QED
    BY <1>3, <2>4 DEF Measure, RInv, RowIsOneMeasurement, tableVars
<1>4. CASE Skip
  <2>1. cur \in Scenarios
    BY <1>4 DEF IInv, ResumeTypeOK, Skip, Scenarios
  <2>2. disk[cur]["summary"] = 0 /\ disk[cur]["summary_row"] = 0
    BY <1>4, <2>1, PendingFresh DEF Skip
  <2>3. /\ InOrder(<<"skip", "skip_row">>)
        /\ InOrder(<<"streams", "stream_summary", "skip", "skip_row">>)
    BY DEF InOrder, Order
  <2>4. InOrder(unwritten)' /\ Head(unwritten)' \in {"skip", "streams"}
    BY <1>4, <2>3 DEF Skip, InOrder
  <2>5. Ready(Head(unwritten), disk[cur])'
    BY <1>4, <2>2, <2>4 DEF Skip, Ready
  <2>6. Orderly'
    BY <1>4, <2>4, <2>5 DEF Skip, RInv, Orderly
  <2> QED
    BY <1>4, <2>6 DEF Skip, RInv, RowIsOneMeasurement, tableVars
<1>5. CASE WriteArtifact
  <2>1. /\ main = "write" /\ unwritten # << >> /\ summary' = summary
        /\ disk' = [disk EXCEPT ![cur][Head(unwritten)] = launch]
        /\ unwritten' = Tail(unwritten) /\ main' = main /\ launch' = launch /\ cur' = cur
    BY <1>5 DEF WriteArtifact, tableVars
  <2>2. RowIsOneMeasurement' /\ \A s \in Scenarios : OneMeasurement(disk'[s])
    BY <2>1, WriteKeepsRows
  <2>3. /\ cur \in Scenarios /\ unwritten \in Seq(Artifacts) /\ InOrder(unwritten)
        /\ Ready(Head(unwritten), disk[cur])
    BY <2>1 DEF IInv, WritesArtifacts, RInv, Orderly
  <2>4. /\ Tail(unwritten) \in Seq(Artifacts) /\ Head(unwritten) \in Artifacts
        /\ Len(Tail(unwritten)) = Len(unwritten) - 1 /\ Len(unwritten) \in Nat
        /\ \A i \in 1 .. Len(Tail(unwritten)) : Tail(unwritten)[i] = unwritten[i + 1]
    BY <2>1, <2>3, HeadTailProperties
  <2>5. InOrder(Tail(unwritten))
    BY <2>3, <2>4 DEF InOrder
  <2>6. ASSUME Tail(unwritten) # << >>
        PROVE  Ready(Head(Tail(unwritten)), disk'[cur])
    <3>1. Len(Tail(unwritten)) >= 1
      BY <2>4, <2>6, EmptySeq
    <3>2. Head(unwritten) = unwritten[1] /\ Head(Tail(unwritten)) = unwritten[2] /\ 1 \in 1 .. Len(unwritten) - 1
      BY <2>3, <2>4, <3>1
    <3>3. <<Head(unwritten), Head(Tail(unwritten))>> \in Order
      BY <2>3, <3>2 DEF InOrder
    <3>4. /\ disk'[cur]["config"] = IF Head(unwritten) = "config" THEN launch ELSE disk[cur]["config"]
          /\ disk'[cur]["summary"] = IF Head(unwritten) = "summary" THEN launch ELSE disk[cur]["summary"]
          /\ disk'[cur]["summary_row"] = IF Head(unwritten) = "summary_row" THEN launch ELSE disk[cur]["summary_row"]
      BY <2>1, <2>3, <2>4 DEF IInv, ResumeTypeOK, Artifacts
    <3> QED
      BY <2>3, <3>3, <3>4 DEF Ready, Order
  <2>7. Orderly'
    BY <2>1, <2>5, <2>6 DEF RInv, Orderly, InOrder, Ready
  <2> QED
    BY <2>2, <2>7 DEF RInv
<1>6. CASE ScenarioDone
  BY <1>6 DEF ScenarioDone, RInv, Orderly, RowIsOneMeasurement, tableVars
<1>7. CASE StartFinish
  BY <1>7 DEF StartFinish, RInv, Orderly, RowIsOneMeasurement, tableVars
<1>8. CASE WriteTable
  <2>1. Orderly' /\ UNCHANGED disk
    BY <1>8 DEF WriteTable, RInv, Orderly
  <2>2. RowIsOneMeasurement'
    <3>1. CASE summary' = SummaryRows
      BY <2>1, <3>1, RebuiltRows
    <3>2. CASE summary' = summary
      BY <2>1, <3>2 DEF RInv, RowIsOneMeasurement
    <3> QED
      BY <1>8, <3>1, <3>2 DEF WriteTable
  <2> QED
    BY <2>1, <2>2 DEF RInv
<1>9. CASE Report
  <2>1. RowIsOneMeasurement'
    BY <1>9, RebuiltRows DEF Report
  <2> QED
    BY <1>9, <2>1 DEF Report, RInv, Orderly
<1>10. CASE Stop
  <2>1. Orderly' /\ summary' = summary
    BY <1>10 DEF Stop, Orderly, tableVars
  <2>2. CASE UNCHANGED disk
    BY <2>1, <2>2 DEF RInv, RowIsOneMeasurement
  <2>3. CASE ~UNCHANGED disk
    <3>1. /\ main = "write" /\ unwritten # << >>
          /\ disk' = [disk EXCEPT ![cur][Head(unwritten)] = launch]
      BY <1>10, <2>3 DEF Stop
    <3> QED
      BY <2>1, <3>1, WriteKeepsRows DEF RInv
  <2> QED
    BY <2>2, <2>3
<1>11. CASE UNCHANGED resumeVars
  BY <1>11 DEF resumeVars, tableVars, RInv, Orderly, InOrder, Ready, RowIsOneMeasurement
<1> QED
  BY <1>1, <1>2, <1>3, <1>4, <1>5, <1>6, <1>7, <1>8, <1>9, <1>10, <1>11 DEF ResumeNext, Ended

\* Every row of summary.csv is one measurement, whenever the table is built and wherever
\* the suite was stopped before.
THEOREM RowsSafe == ResumeSpec => []RowIsOneMeasurement
<1>1. ResumeInit => RInv
  BY DEF ResumeInit, RInv, Orderly, OneMeasurement, RowIsOneMeasurement, Artifacts
<1>2. RInv => RowIsOneMeasurement
  BY DEF RInv
<1> QED
  BY <1>1, <1>2, StepRInv, Invariance, PTL DEF ResumeSpec

(***************************************************************************)
(* A finished suite accounts for its scenarios.  A scenario is measured or *)
(* skipped, and never both: what is on disk says which, and what is next   *)
(* to be written agrees with it.                                           *)
(***************************************************************************)

\* What is on disk of the scenario by the time artifact a is next.
Decided(a, d) ==
    /\ a \in {"streams", "stream_summary"} => d["summary"] = 0 /\ d["skip"] = 0
    /\ a \in {"config", "summary", "runs", "summary_row", "hotreload"} => d["skip"] = 0
    /\ a \in {"runs", "summary_row", "hotreload"} => d["summary"] # 0
    /\ a \in {"skip", "skip_row"} => d["summary"] = 0
    /\ a = "skip_row" => d["skip"] # 0

\* A scenario has a summary or a reason for skipping it; rows and reload results follow them.
OneVerdict(d) ==
    /\ d["summary"] = 0 \/ d["skip"] = 0
    /\ d["skip_row"] # 0 => d["skip"] # 0
    /\ d["hotreload"] # 0 => d["summary"] # 0

\* What is being written ends in a terminal artifact.
EndsRecorded == Recorded(cur) \/ \E i \in 1 .. Len(unwritten) : unwritten[i] \in Terminal

\* The tables still to be written, and those that are up to date.
TablesBuilt ==
    /\ main = "finish" => unwritten \in {<<"summary", "skipped", "compared">>,
                                    <<"skipped", "compared">>, <<"compared">>}
    /\ main = "finish" /\ Len(unwritten) < 3 => summary = SummaryRows
    /\ main = "finish" /\ Len(unwritten) < 2 => skipped = SkippedRows
    /\ main = "finished" => summary = SummaryRows /\ skipped = SkippedRows

\* The loop leaves no scenario behind that is not recorded.
NoneLeftOut ==
    /\ main \in {"next", "write", "finish", "finished"} =>
         \A s \in Scenarios : s < cur => Recorded(s)
    /\ main \in {"finish", "finished"} => cur > NScenarios

\* Inductive invariant of the tables.
AInv ==
    /\ main = "write" => EndsRecorded /\ (unwritten # << >> => Decided(Head(unwritten), disk[cur]))
    /\ \A s \in Scenarios : OneVerdict(disk[s])
    /\ NoneLeftOut
    /\ TablesBuilt

(***************************************************************************)
(* Pacing.  The ceiling is that of the running process, and grows only     *)
(* before the first latency row, which comes after all throughput rows.    *)
(***************************************************************************)
ThroughputFirst ==
    \A i, j \in Scenarios : kind[i] = "latency" /\ kind[j] = "throughput" => j < i

\* No artifact is of a later process, and a summary of this one is of a scenario the loop
\* has come to.
Reached ==
    /\ \A s \in Scenarios, a \in Artifacts : disk[s][a] <= launch
    /\ launch # 0 => \A s \in Scenarios :
         disk[s]["summary"] = launch => s < cur \/ (s = cur /\ main \in {"write", "down"})

\* A latency row whose summary is still to be written was paced off the ceiling.
PacedWhenMeasured ==
    (main = "write" /\ kind[cur] = "latency" /\ \E i \in 1 .. Len(unwritten) : unwritten[i] = "summary")
        => paced[cur] = captured

\* Inductive invariant of the pacing.
PInv == ThroughputFirst /\ Reached /\ PacedWhenMeasured /\ PacedAlike

\* What writing the artifact that is next does to the disk.
LEMMA DiskAfterWrite ==
    ASSUME IInv, main = "write", unwritten # << >>,
           disk' = [disk EXCEPT ![cur][Head(unwritten)] = launch]
    PROVE  /\ cur \in Scenarios /\ unwritten \in Seq(Artifacts) /\ Head(unwritten) \in Artifacts
           /\ Len(unwritten) \in Nat /\ 1 \in 1 .. Len(unwritten) /\ Head(unwritten) = unwritten[1]
           /\ \A s \in Scenarios : s # cur => disk'[s] = disk[s]
           /\ \A a \in Artifacts : disk'[cur][a] = IF a = Head(unwritten) THEN launch ELSE disk[cur][a]
<1>1. cur \in Scenarios /\ unwritten \in Seq(Artifacts)
  BY DEF IInv, WritesArtifacts
<1>2. Head(unwritten) \in Artifacts /\ Len(unwritten) \in Nat /\ 1 \in 1 .. Len(unwritten) /\ Head(unwritten) = unwritten[1]
  BY <1>1
<1> QED
  BY <1>1, <1>2 DEF IInv, ResumeTypeOK

\* The disk is written one artifact at a time, while a scenario is written.
LEMMA DiskStep ==
    ASSUME [ResumeNext]_resumeVars
    PROVE  \/ UNCHANGED disk
           \/ /\ main = "write" /\ unwritten # << >> /\ UNCHANGED <<launch, cur, captured, paced>>
              /\ disk' = [disk EXCEPT ![cur][Head(unwritten)] = launch]
              /\ main' = "down" \/ (main' = "write" /\ unwritten' = Tail(unwritten))
<1>1. CASE WriteArtifact
  BY <1>1 DEF WriteArtifact, tableVars
<1>2. CASE Stop
  BY <1>2 DEF Stop, memVars
<1> QED
  BY <1>1, <1>2 DEF ResumeNext, LaunchProcess, SkipRecorded, Measure, Skip, ScenarioDone, StartFinish,
     WriteTable, Report, Ended, resumeVars

\* The values the pacing is about.
LEMMA Numbers ==
    ASSUME IInv
    PROVE  /\ launch \in Nat /\ cur \in Nat /\ NScenarios \in Nat /\ MaxLaunches \in Nat
           /\ \A s \in Scenarios : s \in Nat /\ 1 <= s /\ s <= NScenarios
           /\ \A s \in Scenarios, a \in Artifacts : disk[s][a] \in Nat
           /\ "summary" \in Artifacts
<1>1. launch \in 0 .. MaxLaunches /\ cur \in 1 .. NScenarios + 1
  BY DEF IInv, ResumeTypeOK
<1>2. \A s \in Scenarios, a \in Artifacts : disk[s][a] \in 0 .. MaxLaunches
  BY DEF IInv, ResumeTypeOK
<1>3. NScenarios \in Nat /\ MaxLaunches \in Nat
  BY SuiteAssumption
<1>4. \A s \in Scenarios : s \in Nat /\ 1 <= s /\ s <= NScenarios
  BY <1>3 DEF Scenarios
<1>5. launch \in Nat /\ cur \in Nat
  BY <1>1, <1>3
<1>6. \A s \in Scenarios, a \in Artifacts : disk[s][a] \in Nat
  BY <1>2, <1>3
<1> QED
  BY <1>3, <1>4, <1>5, <1>6 DEF Artifacts

\* A step that leaves the disk, the ceiling and the pacing alone.
LEMMA PacingKept ==
    ASSUME IInv, PInv, UNCHANGED <<kind, disk, launch, captured, paced>>,
           \/ cur' = cur + 1
           \/ cur' = cur /\ (main \in {"write", "down"} => main' \in {"write", "down"}),
           main' = "write" => main = "write" /\ unwritten' = unwritten /\ cur' = cur
    PROVE  PInv'
<1>1. Reached'
  BY Numbers DEF PInv, Reached
<1>2. PacedWhenMeasured' /\ PacedAlike'
  BY DEF PInv, PacedWhenMeasured, PacedAlike
<1> QED
  BY <1>1, <1>2 DEF PInv, ThroughputFirst

\* Every step preserves the invariant of the pacing.
LEMMA StepPInv == IInv /\ PInv /\ [ResumeNext]_resumeVars => PInv'
<1> SUFFICES ASSUME IInv, PInv, [ResumeNext]_resumeVars PROVE PInv'
  OBVIOUS
<1>k. kind' = kind /\ ThroughputFirst'
  BY DEF ResumeNext, LaunchProcess, SkipRecorded, Measure, Skip, WriteArtifact, ScenarioDone, StartFinish,
         WriteTable, Report, Stop, Ended, resumeVars, PInv, ThroughputFirst
<1>1. CASE LaunchProcess
  <2>1. /\ launch' = launch + 1 /\ disk' = disk /\ main' = "next"
    BY <1>1 DEF LaunchProcess
  <2>2. \A s \in Scenarios, a \in Artifacts :
           disk'[s][a] <= launch' /\ disk'[s][a] # launch'
    BY <2>1, Numbers DEF PInv, Reached
  <2>3. Reached' /\ PacedWhenMeasured' /\ PacedAlike'
    BY <2>1, <2>2, Numbers DEF Reached, PacedWhenMeasured, PacedAlike
  <2> QED
    BY <1>k, <2>3 DEF PInv
<1>2. CASE SkipRecorded
  BY <1>2, PacingKept DEF SkipRecorded, Following, memVars
<1>3. CASE Measure
  <2>1. cur \in Scenarios /\ disk[cur]["summary"] = 0
    BY <1>3, Numbers DEF Measure, Pending, Recorded, OnDisk, Terminal, Scenarios, IInv, ResumeTypeOK
  <2>2. /\ UNCHANGED <<disk, launch, captured, cur>> /\ main = "next" /\ main' = "write"
        /\ paced'[cur] = IF kind[cur] = "latency" THEN captured ELSE {}
        /\ \A s \in Scenarios : s # cur => paced'[s] = paced[s]
    BY <1>3, <2>1 DEF Measure, Rate, memVars, IInv, ResumeTypeOK
  <2>3. Reached'
    BY <2>2 DEF PInv, Reached
  <2>4. PacedWhenMeasured' /\ PacedAlike'
    BY <1>k, <2>1, <2>2 DEF PInv, PacedWhenMeasured, PacedAlike
  <2> QED
    BY <1>k, <2>3, <2>4 DEF PInv
<1>4. CASE Skip
  <2>1. /\ UNCHANGED <<disk, launch, captured, cur, paced>> /\ main = "next" /\ main' = "write"
    BY <1>4 DEF Skip, memVars
  <2>2. kind[cur] = "latency" => unwritten' = <<"skip", "skip_row">>
    BY <1>4 DEF Skip
  <2>3. Reached' /\ PacedAlike'
    BY <1>k, <2>1 DEF PInv, Reached, PacedAlike
  <2>4. PacedWhenMeasured'
    <3>1. \A i \in 1 .. Len(<<"skip", "skip_row">>) : <<"skip", "skip_row">>[i] # "summary"
      OBVIOUS
    <3> QED
      BY <1>k, <2>1, <2>2, <3>1 DEF PacedWhenMeasured
  <2> QED
    BY <1>k, <2>3, <2>4 DEF PInv
<1>5. ASSUME ~UNCHANGED disk PROVE PInv'
  <2>1. /\ main = "write" /\ unwritten # << >> /\ UNCHANGED <<launch, cur, captured, paced>>
        /\ disk' = [disk EXCEPT ![cur][Head(unwritten)] = launch]
        /\ main' = "down" \/ (main' = "write" /\ unwritten' = Tail(unwritten))
    BY <1>5, DiskStep
  <2>2. /\ cur \in Scenarios /\ unwritten \in Seq(Artifacts) /\ Head(unwritten) \in Artifacts
        /\ Len(unwritten) \in Nat /\ 1 \in 1 .. Len(unwritten) /\ Head(unwritten) = unwritten[1]
        /\ \A s \in Scenarios : s # cur => disk'[s] = disk[s]
        /\ \A a \in Artifacts : disk'[cur][a] = IF a = Head(unwritten) THEN launch ELSE disk[cur][a]
    BY <2>1, DiskAfterWrite
  <2>3. \A s \in Scenarios, a \in Artifacts : disk'[s][a] <= launch
    BY <2>2, Numbers DEF PInv, Reached
  <2>4. \A s \in Scenarios : s # cur => disk'[s]["summary"] = disk[s]["summary"]
    BY <2>2
  <2>5. Reached'
    BY <2>1, <2>2, <2>3, <2>4 DEF PInv, Reached
  <2>6. Head(unwritten) = "summary" /\ kind[cur] = "latency" => paced[cur] = captured
    BY <2>1, <2>2 DEF PInv, PacedWhenMeasured
  <2>7. disk'[cur]["summary"] = launch => Head(unwritten) = "summary" \/ disk[cur]["summary"] = launch
    BY <2>2 DEF Artifacts
  <2>8. PacedAlike'
    BY <1>k, <2>1, <2>2, <2>4, <2>6, <2>7 DEF PInv, PacedAlike
  <2>9. PacedWhenMeasured'
    <3>1. \A i \in 1 .. Len(Tail(unwritten)) : i + 1 \in 1 .. Len(unwritten) /\ Tail(unwritten)[i] = unwritten[i + 1]
      BY <2>1, <2>2
    <3> QED
      BY <1>k, <2>1, <3>1 DEF PInv, PacedWhenMeasured
  <2> QED
    BY <1>k, <2>5, <2>8, <2>9 DEF PInv
<1>6. CASE WriteArtifact /\ UNCHANGED disk
  <2>1. /\ main = "write" /\ unwritten # << >> /\ main' = main /\ unwritten' = Tail(unwritten)
        /\ UNCHANGED <<disk, launch, cur, captured, paced>>
    BY <1>6 DEF WriteArtifact, tableVars
  <2>2. unwritten \in Seq(Artifacts)
    BY <2>1 DEF IInv, WritesArtifacts
  <2>3. \A i \in 1 .. Len(Tail(unwritten)) : i + 1 \in 1 .. Len(unwritten) /\ Tail(unwritten)[i] = unwritten[i + 1]
    BY <2>1, <2>2
  <2>4. Reached' /\ PacedAlike' /\ PacedWhenMeasured'
    BY <1>k, <2>1, <2>3 DEF PInv, Reached, PacedAlike, PacedWhenMeasured
  <2> QED
    BY <1>k, <2>4 DEF PInv
<1>7. CASE ScenarioDone
  <2>1. /\ UNCHANGED <<kind, disk, launch, paced>> /\ main = "write" /\ main' = "next"
        /\ cur' = cur + 1 /\ (captured' = captured \/ kind[cur] = "throughput")
    BY <1>7 DEF ScenarioDone, Following
  <2>2. CASE captured' = captured
    BY <2>1, <2>2, PacingKept
  <2>3. CASE captured' # captured
    <3>1. cur \in Scenarios /\ kind[cur] = "throughput"
      BY <2>1, <2>3 DEF IInv, WritesArtifacts
    <3>2. \A s \in Scenarios :
             kind[s] = "latency" /\ disk[s]["summary"] = launch => launch = 0
      BY <2>1, <3>1, Numbers DEF PInv, ThroughputFirst, Reached
    <3>3. Reached'
      BY <2>1, Numbers DEF PInv, Reached
    <3>4. PacedAlike' /\ PacedWhenMeasured'
      BY <1>k, <2>1, <3>2 DEF PacedAlike, PacedWhenMeasured
    <3> QED
      BY <1>k, <3>3, <3>4 DEF PInv
  <2> QED
    BY <2>2, <2>3
<1>8. CASE StartFinish \/ WriteTable \/ Report
  BY <1>8, PacingKept DEF StartFinish, WriteTable, Report, memVars
<1>9. CASE Stop /\ UNCHANGED disk
  BY <1>9, PacingKept DEF Stop, memVars
<1>10. CASE UNCHANGED resumeVars
  BY <1>10, PacingKept DEF resumeVars, memVars
<1> QED
  BY <1>1, <1>2, <1>3, <1>4, <1>5, <1>6, <1>7, <1>8, <1>9, <1>10 DEF ResumeNext, Ended

\* The latency rows of a comparison that one process recorded were paced off one ceiling, the
\* one the process ends with, wherever earlier processes were stopped.
THEOREM PacingSafe == ResumeSpec => []PacedAlike
<1>1. ResumeInit => PInv
  <2> SUFFICES ASSUME ResumeInit PROVE PInv
    OBVIOUS
  <2>1. \A s \in Scenarios, a \in Artifacts : disk[s][a] = 0
    BY DEF ResumeInit
  <2> QED
    BY <2>1 DEF ResumeInit, PInv, ThroughputFirst, Reached, PacedWhenMeasured, PacedAlike
<1>2. PInv => PacedAlike
  BY DEF PInv
<1> QED
  BY <1>1, <1>2, StepPInv, Invariance, PTL DEF ResumeSpec

\* A list of at least two artifacts keeps its second when another is appended.
LEMMA SecondKept ==
    ASSUME NEW p \in Seq(Artifacts), NEW q \in Seq(Artifacts), Len(p) >= 2
    PROVE  2 \in 1 .. Len(p \o q) /\ (p \o q)[2] = p[2]
<1>1. Len(p) \in Nat /\ Len(q) \in Nat /\ Len(p \o q) = Len(p) + Len(q)
  BY ConcatProperties
<1>2. \A i \in 1 .. Len(p) + Len(q) : (p \o q)[i] = IF i <= Len(p) THEN p[i] ELSE q[i - Len(p)]
  BY ConcatProperties
<1> QED
  BY <1>1, <1>2

\* What is to be written of a measured or a skipped scenario holds a terminal artifact.
LEMMA HoldsTerminal ==
    /\ \A s \in Scenarios : \E i \in 1 .. Len(ArtifactsOf(s)) : ArtifactsOf(s)[i] \in Terminal
    /\ \E i \in 1 .. Len(<<"skip", "skip_row">>) : <<"skip", "skip_row">>[i] \in Terminal
    /\ \E i \in 1 .. Len(<<"streams", "stream_summary", "skip", "skip_row">>) :
         <<"streams", "stream_summary", "skip", "skip_row">>[i] \in Terminal
<1>1. ASSUME NEW s \in Scenarios
      PROVE  \E i \in 1 .. Len(ArtifactsOf(s)) : ArtifactsOf(s)[i] \in Terminal
  <2> DEFINE first == <<"streams", "stream_summary">>
             last  == <<"hotreload">>
  <2>1. /\ Common \in Seq(Artifacts) /\ Len(Common) = 4 /\ Common[2] = "summary"
    BY DEF Common, Artifacts
  <2>2. /\ first \in Seq(Artifacts) /\ last \in Seq(Artifacts) /\ Len(first) = 2
        /\ first[2] = "stream_summary"
    BY DEF Artifacts
  <2>3. 2 \in 1 .. Len(first \o Common) /\ (first \o Common)[2] = "stream_summary"
    <3>1. Len(first) >= 2
      BY <2>1, <2>2
    <3> HIDE DEF first
    <3>2. 2 \in 1 .. Len(first \o Common) /\ (first \o Common)[2] = first[2]
      BY <2>1, <2>2, <3>1, SecondKept, Zenon
    <3> QED
      BY <2>1, <2>2, <3>2
  <2>4. 2 \in 1 .. Len(Common \o last) /\ (Common \o last)[2] = "summary"
    <3>1. Len(Common) >= 2
      BY <2>1, <2>2
    <3> HIDE DEF last
    <3>2. 2 \in 1 .. Len(Common \o last) /\ (Common \o last)[2] = Common[2]
      BY <2>1, <2>2, <3>1, SecondKept, Zenon
    <3> QED
      BY <2>1, <2>2, <3>2
  <2>5. 2 \in 1 .. Len(Common)
    BY <2>1
  <2>6. ArtifactsOf(s) \in {first \o Common, Common \o last, Common}
    BY DEF ArtifactsOf
  <2> HIDE DEF first, last
  <2> QED
    BY <2>1, <2>3, <2>4, <2>5, <2>6 DEF Terminal
<1>2. \E i \in 1 .. Len(<<"skip", "skip_row">>) : <<"skip", "skip_row">>[i] \in Terminal
  <2>1. 1 \in 1 .. Len(<<"skip", "skip_row">>) /\ <<"skip", "skip_row">>[1] = "skip"
    OBVIOUS
  <2> QED
    BY <2>1 DEF Terminal
<1>3. \E i \in 1 .. Len(<<"streams", "stream_summary", "skip", "skip_row">>) :
         <<"streams", "stream_summary", "skip", "skip_row">>[i] \in Terminal
  <2>1. /\ 2 \in 1 .. Len(<<"streams", "stream_summary", "skip", "skip_row">>)
        /\ <<"streams", "stream_summary", "skip", "skip_row">>[2] = "stream_summary"
    OBVIOUS
  <2> QED
    BY <2>1 DEF Terminal
<1> QED
  BY <1>1, <1>2, <1>3

\* Writing the artifact that is next keeps one verdict, and decides the one after it.
LEMMA WriteDecides ==
    ASSUME IInv, RInv, AInv, main = "write", unwritten # << >>,
           disk' = [disk EXCEPT ![cur][Head(unwritten)] = launch], cur' = cur
    PROVE  /\ \A s \in Scenarios : OneVerdict(disk'[s])
           /\ \A s \in Scenarios : Recorded(s) => Recorded(s)'
           /\ Tail(unwritten) # << >> => Decided(Head(Tail(unwritten)), disk'[cur])
           /\ Recorded(cur)' \/ \E i \in 1 .. Len(Tail(unwritten)) : Tail(unwritten)[i] \in Terminal
<1> DEFINE h == Head(unwritten)
<1>1. /\ cur \in Scenarios /\ unwritten \in Seq(Artifacts) /\ h \in Artifacts
      /\ Len(unwritten) \in Nat /\ 1 \in 1 .. Len(unwritten) /\ h = unwritten[1]
      /\ \A s \in Scenarios : s # cur => disk'[s] = disk[s]
      /\ \A a \in Artifacts : disk'[cur][a] = IF a = h THEN launch ELSE disk[cur][a]
  BY DiskAfterWrite
<1>2. launch # 0 /\ InOrder(unwritten)
  BY Numbers DEF RInv, Orderly
<1>3. Decided(h, disk[cur]) /\ OneVerdict(disk[cur])
  BY <1>1 DEF AInv
<1>4. /\ disk'[cur]["summary"] = IF h = "summary" THEN launch ELSE disk[cur]["summary"]
      /\ disk'[cur]["skip"] = IF h = "skip" THEN launch ELSE disk[cur]["skip"]
      /\ disk'[cur]["skip_row"] = IF h = "skip_row" THEN launch ELSE disk[cur]["skip_row"]
      /\ disk'[cur]["hotreload"] = IF h = "hotreload" THEN launch ELSE disk[cur]["hotreload"]
  BY <1>1 DEF Artifacts
<1>5. OneVerdict(disk'[cur])
  BY <1>2, <1>3, <1>4 DEF OneVerdict, Decided
<1>6. \A a \in Artifacts : (disk[cur][a] # 0 => disk'[cur][a] # 0) /\ (a = h => disk'[cur][a] # 0)
  BY <1>1, <1>2
<1>7. \A s \in Scenarios : Recorded(s) => Recorded(s)'
  BY <1>1, <1>6 DEF Recorded, OnDisk, Terminal, Artifacts
<1>8. ASSUME Tail(unwritten) # << >>
      PROVE  Decided(Head(Tail(unwritten)), disk'[cur])
  <2>1. Len(unwritten) - 1 >= 1 /\ Head(Tail(unwritten)) = unwritten[2]
    BY <1>1, <1>8
  <2>2. <<h, Head(Tail(unwritten))>> \in Order
    <3>1. 1 \in 1 .. Len(unwritten) - 1
      BY <1>1, <2>1
    <3>2. <<unwritten[1], unwritten[1 + 1]>> \in Order
      BY <1>2, <3>1 DEF InOrder
    <3> QED
      BY <1>1, <2>1, <3>2
  <2> DEFINE n == Head(Tail(unwritten))
             d == disk[cur]
             e == disk'[cur]
  <2>3. /\ n = "stream_summary" => h = "streams"
        /\ n = "config" => h = "stream_summary"
        /\ n = "summary" => h = "config"
        /\ n = "runs" => h = "summary"
        /\ n = "summary_row" => h = "runs"
        /\ n = "hotreload" => h = "summary_row"
        /\ n = "skip" => h = "stream_summary"
        /\ n = "skip_row" => h = "skip"
        /\ n # "streams"
    BY <2>2 DEF Order
  <2>4. /\ e["summary"] = IF h = "summary" THEN launch ELSE d["summary"]
        /\ e["skip"] = IF h = "skip" THEN launch ELSE d["skip"]
    BY <1>4
  <2>5. Decided(h, d)
    BY <1>3
  <2> HIDE DEF h, n, d, e
  <2>6. n \in {"streams", "stream_summary"} => e["summary"] = 0 /\ e["skip"] = 0
    BY <2>3, <2>4, <2>5 DEF Decided
  <2>7. n \in {"config", "summary", "runs", "summary_row", "hotreload"} => e["skip"] = 0
    BY <2>3, <2>4, <2>5 DEF Decided
  <2>8. n \in {"runs", "summary_row", "hotreload"} => e["summary"] # 0
    BY <1>2, <2>3, <2>4, <2>5 DEF Decided
  <2>9. n \in {"skip", "skip_row"} => e["summary"] = 0
    BY <2>3, <2>4, <2>5 DEF Decided
  <2>10. n = "skip_row" => e["skip"] # 0
    BY <1>2, <2>3, <2>4 DEF Decided
  <2>11. Decided(n, e)
    BY <2>6, <2>7, <2>8, <2>9, <2>10 DEF Decided
  <2> QED
    BY <2>11 DEF n, e
<1>9. Recorded(cur)' \/ \E i \in 1 .. Len(Tail(unwritten)) : Tail(unwritten)[i] \in Terminal
  <2>1. CASE Recorded(cur)
    BY <1>1, <1>7, <2>1
  <2>2. CASE h \in Terminal
    BY <1>6, <2>2 DEF Recorded, OnDisk, Terminal, Artifacts
  <2>3. CASE ~Recorded(cur) /\ h \notin Terminal
    <3>1. PICK i \in 1 .. Len(unwritten) : unwritten[i] \in Terminal
      BY <2>3 DEF AInv, EndsRecorded
    <3>2. i - 1 \in 1 .. Len(Tail(unwritten)) /\ Tail(unwritten)[i - 1] = unwritten[i]
      BY <1>1, <2>3, <3>1
    <3> QED
      BY <3>1, <3>2
  <2> QED
    BY <2>1, <2>2, <2>3
<1> QED
  BY <1>1, <1>5, <1>7, <1>8, <1>9 DEF AInv

\* A step that leaves the disk, the tables and what was left behind alone.
LEMMA TablesKept ==
    ASSUME IInv, AInv, UNCHANGED disk, main' \in {"next", "write", "down"},
           main' # "down" => main # "down" /\ (cur' = cur \/ (cur' = cur + 1 /\ Recorded(cur))),
           main' = "write" => EndsRecorded' /\ (unwritten' # << >> => Decided(Head(unwritten'), disk[cur']))
    PROVE  AInv'
<1>1. \A s \in Scenarios : Recorded(s)' = Recorded(s) /\ OneVerdict(disk'[s])
  BY DEF Recorded, OnDisk, AInv
<1>2. NoneLeftOut'
  <2>1. ASSUME NEW s \in Scenarios, main' # "down", s < cur' PROVE Recorded(s)'
    <3>1. s < cur \/ (s = cur /\ Recorded(cur))
      BY <2>1, Numbers
    <3>2. main \in {"next", "write", "finish", "finished"}
      BY <2>1 DEF IInv, ResumeTypeOK
    <3> QED
      BY <1>1, <3>1, <3>2 DEF AInv, NoneLeftOut
  <2> QED
    BY <2>1 DEF NoneLeftOut
<1>3. TablesBuilt'
  BY DEF TablesBuilt
<1> QED
  BY <1>1, <1>2, <1>3 DEF AInv

\* What the tables are built from does not change while they are written and kept.
LEMMA SourcesKept ==
    ASSUME UNCHANGED <<disk, torn>>
    PROVE  SummaryRows' = SummaryRows /\ SkippedRows' = SkippedRows
  BY DEF SummaryRows, SkippedRows, RowSource, OnDisk

\* Every step preserves the invariant of the tables.
LEMMA StepAInv == IInv /\ RInv /\ AInv /\ [ResumeNext]_resumeVars => AInv'
<1> SUFFICES ASSUME IInv, RInv, AInv, [ResumeNext]_resumeVars PROVE AInv'
  OBVIOUS
<1>t. main \in {"down", "next", "write", "finish", "finished"}
  BY DEF IInv, ResumeTypeOK
<1>1. CASE LaunchProcess
  <2>1. /\ UNCHANGED disk /\ main' = "next" /\ cur' = 1
    BY <1>1 DEF LaunchProcess
  <2>2. \A s \in Scenarios : OneVerdict(disk'[s]) /\ ~(s < cur')
    BY <2>1, Numbers DEF AInv
  <2>3. NoneLeftOut' /\ TablesBuilt'
    BY <2>1, <2>2 DEF NoneLeftOut, TablesBuilt
  <2> QED
    BY <2>1, <2>2, <2>3 DEF AInv
<1>2. CASE SkipRecorded
  BY <1>2, TablesKept DEF SkipRecorded, Pending, Following
<1>3. CASE Measure \/ Skip
  <2>1. /\ UNCHANGED <<disk, cur>> /\ main = "next" /\ main' = "write" /\ Pending /\ cur \in Scenarios
    BY <1>3, Numbers DEF Measure, Skip, Scenarios, IInv, ResumeTypeOK
  <2>2. disk[cur]["summary"] = 0 /\ disk[cur]["skip"] = 0
    BY <2>1 DEF Pending, Recorded, OnDisk, Terminal
  <2>3. EndsRecorded'
    BY <1>3, <2>1, HoldsTerminal DEF Measure, Skip, EndsRecorded
  <2>4. Head(unwritten') \in {"config", "streams", "skip"}
    <3>1. CASE Measure
      BY <2>1, <3>1, WrittenInOrder DEF Measure
    <3>2. CASE Skip
      BY <3>2 DEF Skip
    <3> QED
      BY <1>3, <3>1, <3>2
  <2>5. Decided(Head(unwritten'), disk[cur'])
    BY <2>1, <2>2, <2>4 DEF Decided
  <2> QED
    BY <2>1, <2>3, <2>5, TablesKept
<1>4. CASE WriteArtifact
  <2>1. /\ main = "write" /\ unwritten # << >> /\ main' = "write" /\ cur' = cur /\ unwritten' = Tail(unwritten)
        /\ disk' = [disk EXCEPT ![cur][Head(unwritten)] = launch]
    BY <1>4 DEF WriteArtifact
  <2>2. /\ \A s \in Scenarios : OneVerdict(disk'[s])
        /\ \A s \in Scenarios : Recorded(s) => Recorded(s)'
        /\ unwritten' # << >> => Decided(Head(unwritten'), disk'[cur'])
        /\ Recorded(cur)' \/ \E i \in 1 .. Len(unwritten') : unwritten'[i] \in Terminal
    BY <2>1, WriteDecides
  <2>3. NoneLeftOut' /\ TablesBuilt' /\ EndsRecorded'
    BY <2>1, <2>2 DEF AInv, NoneLeftOut, TablesBuilt, EndsRecorded
  <2> QED
    BY <2>1, <2>2, <2>3 DEF AInv
<1>5. CASE ScenarioDone
  <2>1. /\ UNCHANGED disk /\ main = "write" /\ main' = "next" /\ cur' = cur + 1 /\ unwritten = << >>
    BY <1>5 DEF ScenarioDone, Following
  <2>2. Recorded(cur)
    BY <2>1, EmptySeq DEF AInv, EndsRecorded
  <2> QED
    BY <2>1, <2>2, TablesKept
<1>6. CASE StartFinish
  <2>1. /\ UNCHANGED <<disk, cur>> /\ main = "next" /\ main' = "finish" /\ cur > NScenarios
        /\ unwritten' = <<"summary", "skipped", "compared">> /\ Len(unwritten') = 3
    BY <1>6 DEF StartFinish
  <2>2. NoneLeftOut'
    BY <2>1 DEF AInv, NoneLeftOut, Recorded, OnDisk
  <2>3. TablesBuilt'
    BY <2>1 DEF TablesBuilt
  <2> QED
    BY <2>1, <2>2, <2>3 DEF AInv
<1>7. CASE WriteTable
  <2>1. /\ UNCHANGED <<disk, torn, cur>> /\ main = "finish" /\ unwritten' = Tail(unwritten)
        /\ main' = IF Len(unwritten) = 1 THEN "finished" ELSE "finish"
    BY <1>7 DEF WriteTable
  <2>2. NoneLeftOut' /\ \A s \in Scenarios : OneVerdict(disk'[s])
    BY <2>1 DEF AInv, NoneLeftOut, Recorded, OnDisk
  <2>3. SummaryRows' = SummaryRows /\ SkippedRows' = SkippedRows
    BY <2>1, SourcesKept
  <2>4. TablesBuilt'
    <3>1. CASE unwritten = <<"summary", "skipped", "compared">>
      <4>1. Head(unwritten) = "summary" /\ unwritten' = <<"skipped", "compared">> /\ Len(unwritten) = 3 /\ Len(unwritten') = 2
        BY <2>1, <3>1
      <4>2. summary' = SummaryRows
        BY <1>7, <4>1 DEF WriteTable
      <4>3. main' = "finish" /\ ~(Len(unwritten') < 2)
        BY <2>1, <4>1
      <4>4. unwritten' \in {<<"summary", "skipped", "compared">>, <<"skipped", "compared">>, <<"compared">>}
        BY <4>1
      <4> QED
        BY <2>3, <4>2, <4>3, <4>4 DEF TablesBuilt
    <3>2. CASE unwritten = <<"skipped", "compared">>
      <4>1. Head(unwritten) = "skipped" /\ unwritten' = <<"compared">> /\ Len(unwritten) = 2 /\ Len(unwritten') = 1
        BY <2>1, <3>2
      <4>2. skipped' = SkippedRows /\ summary' = summary
        BY <1>7, <4>1 DEF WriteTable
      <4>3. summary = SummaryRows
        BY <2>1, <4>1 DEF AInv, TablesBuilt
      <4> QED
        BY <2>1, <2>3, <4>1, <4>2, <4>3 DEF TablesBuilt
    <3>3. CASE unwritten = <<"compared">>
      <4>1. Head(unwritten) = "compared" /\ Len(unwritten) = 1
        BY <3>3
      <4>2. skipped' = skipped /\ summary' = summary
        BY <1>7, <4>1 DEF WriteTable
      <4>3. summary = SummaryRows /\ skipped = SkippedRows
        BY <2>1, <4>1 DEF AInv, TablesBuilt
      <4> QED
        BY <2>1, <2>3, <4>1, <4>2, <4>3 DEF TablesBuilt
    <3> QED
      BY <2>1, <3>1, <3>2, <3>3 DEF AInv, TablesBuilt
  <2> QED
    BY <2>1, <2>2, <2>4 DEF AInv
<1>8. CASE Report
  BY <1>8, TablesKept DEF Report
<1>9. CASE Stop
  <2>1. main' = "down" /\ cur' = cur
    BY <1>9 DEF Stop
  <2>2. CASE UNCHANGED disk
    BY <2>1, <2>2, TablesKept
  <2>3. CASE ~UNCHANGED disk
    <3>1. /\ main = "write" /\ unwritten # << >>
          /\ disk' = [disk EXCEPT ![cur][Head(unwritten)] = launch]
      BY <1>9, <2>3 DEF Stop
    <3>2. \A s \in Scenarios : OneVerdict(disk'[s])
      BY <2>1, <3>1, WriteDecides
    <3> QED
      BY <2>1, <3>2 DEF AInv, NoneLeftOut, TablesBuilt
  <2> QED
    BY <2>2, <2>3
<1>10. CASE UNCHANGED resumeVars
  <2>1. UNCHANGED <<disk, torn, main, cur, unwritten, summary, skipped>>
    BY <1>10 DEF resumeVars, tableVars
  <2>2. SummaryRows' = SummaryRows /\ SkippedRows' = SkippedRows
    BY <2>1, SourcesKept
  <2> QED
    BY <2>1, <2>2 DEF AInv, NoneLeftOut, TablesBuilt, EndsRecorded, Recorded, OnDisk
<1> QED
  BY <1>1, <1>2, <1>3, <1>4, <1>5, <1>6, <1>7, <1>8, <1>9, <1>10 DEF ResumeNext, Ended

\* A finished suite accounts for its scenarios, wherever and however often it was stopped:
\* none is in both tables, and none whose files are whole is missing, a multi-stream
\* scenario stopped between its two groups of artifacts excepted.
THEOREM AccountSafe == ResumeSpec => []AccountedFor
<1>1. ResumeInit => RInv /\ AInv
  <2> SUFFICES ASSUME ResumeInit PROVE RInv /\ AInv
    OBVIOUS
  <2>1. \A s \in Scenarios, a \in Artifacts : disk[s][a] = 0
    BY DEF ResumeInit
  <2>2. \A s \in Scenarios : OneVerdict(disk[s]) /\ OneMeasurement(disk[s])
    BY <2>1 DEF OneVerdict, OneMeasurement, Artifacts
  <2>3. main = "down" /\ summary = {}
    BY DEF ResumeInit
  <2> QED
    BY <2>2, <2>3 DEF AInv, RInv, Orderly, RowIsOneMeasurement, NoneLeftOut, TablesBuilt
<1>2. ASSUME IInv, RInv, AInv PROVE AccountedFor
  <2> SUFFICES ASSUME main = "finished"
               PROVE  /\ Summarised \cap skipped = {}
                      /\ \A s \in Scenarios :
                           (torn[s] = {} /\ (OnDisk(s, "stream_summary") =>
                                               OnDisk(s, "summary") \/ OnDisk(s, "skip")))
                              => s \in Summarised \cup skipped
    BY DEF AccountedFor
  <2>1. summary = SummaryRows /\ skipped = SkippedRows
    BY <1>2 DEF AInv, TablesBuilt
  <2>2. Summarised = {s \in Scenarios : /\ OnDisk(s, "summary_row") \/ OnDisk(s, "summary")
                                        /\ "summary_row" \notin torn[s]}
    <3> DEFINE S == {s \in Scenarios : /\ OnDisk(s, "summary_row") \/ OnDisk(s, "summary")
                                       /\ "summary_row" \notin torn[s]}
    <3>1. summary = {[scenario |-> s, from |-> RowSource(s)] : s \in S}
      BY <2>1 DEF SummaryRows
    <3>2. \A s \in S : [scenario |-> s, from |-> RowSource(s)].scenario = s
      OBVIOUS
    <3> HIDE DEF S
    <3>3. Summarised = S
      BY <3>1, <3>2 DEF Summarised
    <3> QED
      BY <3>3 DEF S
  <2>3. ASSUME NEW s \in Scenarios
        PROVE  /\ OnDisk(s, "summary_row") => OnDisk(s, "summary")
               /\ OnDisk(s, "skip_row") => OnDisk(s, "skip")
               /\ OnDisk(s, "hotreload") => OnDisk(s, "summary")
               /\ ~(OnDisk(s, "summary") /\ OnDisk(s, "skip"))
    BY <1>2 DEF RInv, AInv, OneMeasurement, OneVerdict, OnDisk
  <2>4. Summarised \cap skipped = {}
    BY <2>1, <2>2, <2>3 DEF SkippedRows
  <2>5. ASSUME NEW s \in Scenarios, torn[s] = {},
               OnDisk(s, "stream_summary") => OnDisk(s, "summary") \/ OnDisk(s, "skip")
        PROVE  s \in Summarised \cup skipped
    <3>1. s < cur
      BY <1>2, Numbers DEF AInv, NoneLeftOut
    <3>2. Recorded(s)
      BY <1>2, <3>1 DEF AInv, NoneLeftOut
    <3>3. OnDisk(s, "summary") \/ OnDisk(s, "skip")
      BY <2>3, <2>5, <3>2 DEF Recorded, Terminal
    <3> QED
      BY <2>1, <2>2, <2>5, <3>3 DEF SkippedRows
  <2> QED
    BY <2>4, <2>5
<1> QED
  BY <1>1, <1>2, StepRInv, StepAInv, Invariance, PTL DEF ResumeSpec
===============================================================================
