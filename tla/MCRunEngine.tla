----------------------------- MODULE MCRunEngine -----------------------------
(* Small instances of RunEngine for TLC; the constants are given by the cfg files. *)
EXTENDS RunEngine

\* Connections are interchangeable as long as only safety is checked.
AnyConn == Permutations(Conns)
===============================================================================
