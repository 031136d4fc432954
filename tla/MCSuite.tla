------------------------------ MODULE MCSuite ------------------------------
(* The suite as its driver and its host live through it, and as its result directory   *)
(* records it over launches and stops, on small instances: a behaviour is of one or    *)
(* the other.                                                                          *)
EXTENDS MCSuiteRun, MCSuiteResume

suiteVars == <<vars, resumeVars>>

NoSuite ==
    /\ HostInit
    /\ suite = Written(<< >>) /\ host = Host({}, 0) /\ todo = << >>
    /\ pc = "done" /\ path = "none" /\ dut = NoDut /\ opened = 0
    /\ ceilings = << >> /\ ceiling = NoCeiling /\ row = NoRow /\ recorded = {}
    /\ outcome = "none" /\ disturbances = 0

NoLaunch ==
    /\ kind = [s \in Scenarios |-> CHOOSE k \in Kinds : TRUE]
    /\ main = "down" /\ launch = MaxLaunches /\ cur = 1 /\ unwritten = << >>
    /\ disk = [s \in Scenarios |-> [a \in Artifacts |-> 0]]
    /\ torn = [s \in Scenarios |-> {}]
    /\ comparisons = {} /\ captured = {} /\ paced = [s \in Scenarios |-> {}]
    /\ tabled = TRUE /\ summary = {} /\ skipped = {} /\ compared = {}

SuiteInit == (Init /\ NoLaunch) \/ (ResumeInit /\ NoSuite)

SuiteNext ==
    \/ Next /\ UNCHANGED resumeVars
    \/ ResumeNext /\ UNCHANGED vars

SuiteSpec == SuiteInit /\ [][SuiteNext]_suiteVars /\ WF_vars(Progress)
=============================================================================
