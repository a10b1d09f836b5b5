---------------------------- MODULE MCExecution ----------------------------
(***************************************************************************)
(* Small instances of Execution for TLC.  Agents with an executor are      *)
(* interchangeable: the runs that look for a violated invariant use that,  *)
(* the one that checks liveness does not.                                  *)
(***************************************************************************)
EXTENDS Execution, TLC

Symmetry == Permutations(Executors)
=============================================================================
