----------------------------- MODULE Distributed -----------------------------
(***************************************************************************)
(* The distributed mode (run/engine.rs, run_distributed_sender and         *)
(* run_distributed_receiver; commands.rs, sender and receiver): two        *)
(* programs on two hosts, each with a phase clock of its own.  The         *)
(* receiver accepts connections until its cooldown and reads none of them  *)
(* before its clock has ended; then it reads one after the other to the    *)
(* end.  A sender thread blocks when nobody reads.                         *)
(***************************************************************************)
EXTENDS FlowMetrics

CONSTANTS
    Links,      \* 1 .. the number of connections of the sender
    MaxSent,    \* bound: messages sent on a connection
    Window      \* messages a connection holds that nobody reads

ASSUME LinksAssumption ==
    /\ IsFiniteSet(Links) /\ Links = 1 .. Cardinality(Links) /\ Links # {}
    /\ MaxSent \in Nat \ {0} /\ Window \in Nat \ {0}

VARIABLES
    sender,     \* sender program: "connecting", a phase, "over" or "failed"
    writer,     \* its threads: "none", "running", "writing", "counting" (a write loaded in MEASURE), "finished"
    written,    \* messages written on each connection
    counted,    \* messages counted as sent during the measurement
    receiver,   \* receiver program: a phase, "reading" or "over"
    listening,  \* is the listener open?
    queue,      \* connections waiting to be accepted
    conns,      \* connections accepted, in order
    reading,    \* index of the connection being read
    buffered,   \* messages written and not read
    dropped,    \* connections closed by the receiver's side
    early,      \* history: those closed while their writer was still running
    report      \* per connection: the numbers the receiver recorded

distVars == <<sender, writer, written, counted, receiver, listening, queue, conns, reading,
              buffered, dropped, early, report>>

Clock == <<"warmup", "measure", "cooldown", "done">>

DistInit ==
    /\ sender = "connecting" /\ receiver = "warmup" /\ listening = TRUE
    /\ writer = [l \in Links |-> "none"]
    /\ written = [l \in Links |-> 0] /\ counted = 0
    /\ queue = << >> /\ conns = << >> /\ reading = 1
    /\ buffered = [l \in Links |-> << >>] /\ dropped = {} /\ early = {}
    /\ report = [l \in Links |-> << >>]

Pending == Cardinality({l \in Links : writer[l] # "none"}) + 1

(***************************************************************************)
(* The sender program.                                                     *)
(***************************************************************************)

\* The connections are opened one after the other, each with a thread that starts at once.
OpenLink ==
    /\ sender = "connecting" /\ Pending \in Links
    /\ IF listening
       THEN /\ queue' = Append(queue, Pending)
            /\ writer' = [writer EXCEPT ![Pending] = "running"]
            /\ UNCHANGED sender
       ELSE sender' = "failed" /\ UNCHANGED <<queue, writer>>
    /\ UNCHANGED <<written, counted, receiver, listening, conns, reading, buffered, dropped, early, report>>

SenderClock ==
    /\ \/ sender = "connecting" /\ Pending \notin Links /\ sender' = "warmup"
       \/ \E i \in 1 .. 3 : sender = Clock[i] /\ sender' = Clock[i + 1]
       \/ sender = "done" /\ (\A l \in Links : writer[l] = "finished") /\ sender' = "over"
    /\ UNCHANGED <<writer, written, counted, receiver, listening, queue, conns, reading, buffered, dropped, early, report>>

\* The phase is loaded and then, in a step of its own, a message is written.
LoadPhase(l) ==
    /\ writer[l] = "running" /\ sender \notin {"done", "over", "failed"} /\ written[l] < MaxSent
    /\ writer' = [writer EXCEPT ![l] = IF sender = "measure" THEN "counting" ELSE "writing"]
    /\ UNCHANGED <<sender, written, counted, receiver, listening, queue, conns, reading, buffered, dropped, early, report>>

Writing(l) == writer[l] \in {"writing", "counting"}

\* A write on a full connection blocks, and does not see the phase; one on a connection
\* that the other side has closed may still succeed.
Write(l) ==
    /\ Writing(l) /\ sender # "failed" /\ Len(buffered[l]) < Window
    /\ buffered' = IF l \in dropped THEN buffered ELSE [buffered EXCEPT ![l] = Append(@, written[l])]
    /\ written' = [written EXCEPT ![l] = @ + 1]
    /\ counted' = IF writer[l] = "counting" THEN counted + 1 ELSE counted
    /\ writer' = [writer EXCEPT ![l] = "running"]
    /\ UNCHANGED <<sender, receiver, listening, queue, conns, reading, dropped, early, report>>

\* A thread ends when it loads DONE or its write fails; a program that failed to connect
\* exits with all its threads.
WriterEnds(l) ==
    /\ \/ writer[l] = "running" /\ sender = "done"
       \/ Writing(l) /\ l \in dropped
       \/ writer[l] \notin {"none", "finished"} /\ sender = "failed"
    /\ writer' = [writer EXCEPT ![l] = "finished"]
    /\ UNCHANGED <<sender, written, counted, receiver, listening, queue, conns, reading, buffered, dropped, early, report>>

(***************************************************************************)
(* The receiver program.                                                   *)
(***************************************************************************)
DropLinks(ls) ==
    /\ dropped' = dropped \cup ls
    /\ early' = early \cup {l \in ls : writer[l] \notin {"none", "finished"}}

AcceptLink ==
    /\ receiver \in {"warmup", "measure", "cooldown"} /\ listening /\ queue # << >>
    /\ conns' = Append(conns, Head(queue))
    /\ queue' = Tail(queue)
    /\ UNCHANGED <<sender, writer, written, counted, receiver, listening, reading, buffered, dropped, early, report>>

\* The connections nobody accepted are reset when the listener is dropped.
Unaccepted == Range(queue)

\* The accept thread sees the cooldown, or accept fails; its listener goes with it.
AcceptorEnds ==
    /\ listening
    /\ listening' = FALSE
    /\ DropLinks(Unaccepted)
    /\ queue' = << >>
    /\ UNCHANGED <<sender, writer, written, counted, receiver, conns, reading, buffered, report>>

ReceiverClock ==
    /\ \/ \E i \in 1 .. 3 : receiver = Clock[i] /\ receiver' = Clock[i + 1]
       \/ receiver = "done" /\ ~listening /\ receiver' = "reading"
       \/ receiver = "reading" /\ reading > Len(conns) /\ receiver' = "over"
    /\ UNCHANGED <<sender, writer, written, counted, listening, queue, conns, reading, buffered, dropped, early, report>>

Source == conns[reading]

\* Every message is recorded, whenever it was sent.
ReadMsg ==
    /\ receiver = "reading" /\ reading <= Len(conns) /\ buffered[Source] # << >>
    /\ report' = [report EXCEPT ![Source] = Append(@, Head(buffered[Source]))]
    /\ buffered' = [buffered EXCEPT ![Source] = Tail(@)]
    /\ UNCHANGED <<sender, writer, written, counted, receiver, listening, queue, conns, reading, dropped, early>>

\* Regression: the first error ends the reading, whatever is buffered.
NothingToRead_Impatient == TRUE

NothingToRead == buffered[Source] = << >>

\* The end of the stream, or nothing for 500 ms: the connection is closed.
ReadEnds ==
    /\ receiver = "reading" /\ reading <= Len(conns) /\ NothingToRead
    /\ reading' = reading + 1
    /\ DropLinks({Source})
    /\ UNCHANGED <<sender, writer, written, counted, receiver, listening, queue, conns, buffered, report>>

SenderMain   == OpenLink \/ SenderClock
ReceiverMain == ReceiverClock \/ ReadMsg \/ ReadEnds

DistNext ==
    \/ SenderMain \/ ReceiverMain \/ AcceptLink \/ AcceptorEnds
    \/ \E l \in Links : LoadPhase(l) \/ Write(l) \/ WriterEnds(l)

DistSpec == DistInit /\ [][DistNext]_distVars

\* Every thread of the two programs runs.
DistFairness ==
    /\ WF_distVars(SenderMain) /\ WF_distVars(ReceiverMain)
    /\ WF_distVars(receiver = "done" /\ AcceptorEnds)
    /\ \A l \in Links : WF_distVars(LoadPhase(l)) /\ WF_distVars(Write(l)) /\ WF_distVars(WriterEnds(l))

(***************************************************************************)
(* Properties.                                                             *)
(***************************************************************************)

\* What the receiver records of a connection is what was written on it, from the first
\* message on and without a gap, and all of it unless the receiver never accepted the
\* connection or closed it while it was still being written: the clocks of the two
\* programs may be apart by any amount.  It is not limited to the measurement, although
\* DistributedParams calls the warmup one whose data is discarded: the receiver of complete
\* connections never reports less than the sender counts.
ReportComplete ==
    LET complete == Range(conns) \ early IN
    /\ \A l \in Links : report[l] = [i \in 1 .. Len(report[l]) |-> i - 1]
    /\ sender = "over" /\ receiver = "over" =>
         /\ \A l \in complete : Len(report[l]) = written[l]
         /\ complete = Links =>
              counted <= Cardinality(UNION {{l} \X (1 .. Len(report[l])) : l \in Links})

\* Both programs return: a sender thread blocked on a connection that is not read waits for
\* the receiver to read it or to close it.
BothReturn == <>(sender \in {"over", "failed"}) /\ <>(receiver = "over")
===============================================================================
