----------------------------- MODULE MCWorkflow -----------------------------
(***************************************************************************)
(* A workflow with two approvals, and between them an agent whose answer   *)
(* is saved, and a tool at the end.                                        *)
(***************************************************************************)
EXTENDS Workflow
MCSteps == <<"approval", "agent", "approval", "tool">>
=============================================================================
