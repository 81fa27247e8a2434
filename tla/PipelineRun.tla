------------------------------ MODULE PipelineRun ------------------------------
(***************************************************************************)
(* What a run of a pipeline looks like from outside, to the manager that   *)
(* starts, polls and cancels it (app/services/pipelines/service.py): one   *)
(* status, which reaches an end once and keeps it, and is "cancelled" if   *)
(* and only if the run was asked to stop before its end.                   *)
(* PipelineExecutor implements it; the runs of GatewayProcess go through   *)
(* these steps and no others.                                              *)
(***************************************************************************)
VARIABLES status,  \* PipelineResult.status
          cancel   \* task.cancel() was called before the end

run == <<status, cancel>>

Ended == {"succeeded", "failed", "cancelled"}

Init == status = "pending" /\ cancel = FALSE

Begin == status = "pending" /\ status' = "running" /\ UNCHANGED cancel

Cancel == status = "running" /\ ~cancel /\ cancel' = TRUE /\ UNCHANGED status

End ==
    /\ status = "running" /\ ~cancel
    /\ status' \in {"succeeded", "failed"}
    /\ UNCHANGED cancel

Abort == status = "running" /\ cancel /\ status' = "cancelled" /\ UNCHANGED cancel

Next == Begin \/ Cancel \/ End \/ Abort

Spec == Init /\ [][Next]_run
===============================================================================
