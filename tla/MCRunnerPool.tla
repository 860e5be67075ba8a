---------------------------- MODULE MCRunnerPool ----------------------------
(* The instance of RunnerPool for TLC.  It is run with liveness, so without  *)
(* a symmetry set.                                                           *)
EXTENDS RunnerPool

=============================================================================
