----------------------- MODULE MCWorkflowDefinitions -----------------------
(* Small instances of WorkflowDefinitions for TLC. *)
EXTENDS WorkflowDefinitions, TLC

MCCalls == Permutations(Calls)
=============================================================================
