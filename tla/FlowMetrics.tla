----------------------------- MODULE FlowMetrics -----------------------------
(***************************************************************************)
(* What a receiver's FlowMetrics reports about the sequence numbers it     *)
(* recorded, in arrival order (metrics/app.rs).                            *)
(***************************************************************************)
EXTENDS Integers, Sequences, FiniteSets, FiniteSetsExt, Functions

\* Loss, duplicate and reorder counts of an arrival-ordered sequence of numbers.
\* `reordered` compares an arrival with the one just before it.
integrity(seqs) ==
    LET seen == Range(seqs) IN
    [received  |-> Len(seqs),
     distinct  |-> Cardinality(seen),
     lost      |-> IF seqs = << >> THEN 0 ELSE Max(seen) - Min(seen) + 1 - Cardinality(seen),
     duplicate |-> Len(seqs) - Cardinality(seen),
     reordered |-> Cardinality({i \in 2 .. Len(seqs) : seqs[i] < seqs[i - 1]})]
===============================================================================
