------------------------------ MODULE MCWorkflow ------------------------------
(* Model-checking instances of Workflow: more tasks than permits.             *)
EXTENDS Workflow

CONSTANTS t1, t2

MCTasks == {t1, t2}
=============================================================================
