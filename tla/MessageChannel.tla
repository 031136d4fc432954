---------------------------- MODULE MessageChannel ----------------------------
(***************************************************************************)
(* What a connected stream transport promises the run engine               *)
(* (transport/mod.rs, DataSink and DataSource): whole messages, in the     *)
(* order they were sent, each at most once, and none lost unless the bytes *)
(* were damaged on the way.  Messages are numbered from 0.                 *)
(***************************************************************************)
EXTENDS Integers

VARIABLES
    sent,       \* messages the sink has accepted in full
    got,        \* the numbers of the messages the source has handed out
    damaged     \* does the path damage any message header?

Init ==
    /\ sent = 0
    /\ got = {}
    /\ damaged \in BOOLEAN

\* send_batch accepts one or more messages.
Send ==
    /\ sent' > sent
    /\ UNCHANGED <<got, damaged>>

\* recv_batch hands out a message behind all those it has handed out, and the next one
\* unless headers are damaged.
Receive ==
    /\ \E n \in 0 .. sent - 1 :
         /\ \A m \in got : m < n
         /\ damaged \/ 0 .. n - 1 \subseteq got
         /\ got' = got \cup {n}
    /\ UNCHANGED <<sent, damaged>>

Next == Send \/ Receive

Spec == Init /\ [][Next]_<<sent, got, damaged>>
===============================================================================
