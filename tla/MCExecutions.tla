---------------------------- MODULE MCExecutions ----------------------------
(* TLC instance of Executions: two calls of StartExecution with one name. *)
EXTENDS Executions

CONSTANTS r1, r2, n1

MCRuns == {r1, r2}
MCNames == {n1}
=============================================================================
