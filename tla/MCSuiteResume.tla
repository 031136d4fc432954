---------------------------- MODULE MCSuiteResume ----------------------------
(* Small instances of SuiteResume for TLC; the constants are given by the cfg files. *)
EXTENDS SuiteResume
===============================================================================
