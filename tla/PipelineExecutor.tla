--------------------------- MODULE PipelineExecutor ---------------------------
(***************************************************************************)
(* A pipeline from the validation of its definition to the end of a run    *)
(* (app/services/pipelines/executor.py), with the start and cancel         *)
(* operations of the service.  The executor is given whatever graph the    *)
(* validation of PipelineDag has let through, and runs on one asyncio      *)
(* loop: a step is the code between two awaits.  It schedules the task     *)
(* graph in waves.  Each wave is a TaskGroup that joins all of its         *)
(* children before the next wave is chosen, and a semaphore bounds how     *)
(* many children are inside a handler.                                     *)
(*                                                                         *)
(* Outputs, metadata and timestamps are left out.  Every handler may       *)
(* return a result of either status, raise, or be timed out by wait_for;   *)
(* the last two are retried alike.  Every built-in task type has a         *)
(* handler, so the registry lookup does not fail.  Waiters of the          *)
(* semaphore are woken in any order, where asyncio wakes them first in     *)
(* first out.                                                              *)
(***************************************************************************)
EXTENDS PipelineDag

CONSTANTS MaxParallel,  \* max_parallel_tasks
          RetryCount    \* retry_count

ASSUME PipelineAssumption ==
    /\ MaxParallel \in Nat \ {0}
    /\ RetryCount \in Nat

NoTask == 0

VARIABLES deps,       \* the registered definition: depends_on of each task,
          enabled,    \*   the tasks that are enabled,
          onFailure,  \*   and each task's on_failure
          runStatus,  \* PipelineResult.status
          runError,   \* why the run ended early (PipelineResult.error)
          blamed,     \*   and the task whose error it repeats
          status,     \* status of each TaskResult
          phase,      \* where execute is
          pending,    \* its dict of tasks not yet joined
          wave,       \* the tasks of the current TaskGroup
          child,      \* where each task's coroutine is
          attempt,    \* attempts the task's handler has been given
          cancelled   \* task.cancel() was called on the run

definition == <<validation, deps, enabled, onFailure>>
run == <<runStatus, runError, blamed, phase, pending, wave>>
vars == <<validation, deps, enabled, onFailure, runStatus, runError, blamed, status,
          phase, pending, wave, child, attempt, cancelled>>

Unfinished == {"pending", "running"}
Finished == {"succeeded", "failed", "skipped", "cancelled"}

Handling == {t \in Tasks : child[t] = "handling"}

Init ==
    /\ ValidationInit
    /\ deps = [t \in Tasks |-> {}]
    /\ enabled = {}
    /\ onFailure = [t \in Tasks |-> "fail"]
    /\ runStatus = "pending"
    /\ runError = "none"
    /\ blamed = NoTask
    /\ status = [t \in Tasks |-> "pending"]
    /\ phase = "none"
    /\ pending = Tasks
    /\ wave = {}
    /\ child = [t \in Tasks |-> "none"]
    /\ attempt = [t \in Tasks |-> 0]
    /\ cancelled = FALSE

------------------------------------------------------------------------------
\* Variant: validation's last error is not looked at.
RegisterAny ==
    /\ stage = "done" /\ verdict \in {"accepted", "cycle"} /\ stage' = "registered"
    /\ deps' = Graph
    /\ enabled' \in SUBSET Tasks
    /\ onFailure' \in [Tasks -> {"fail", "skip", "warn"}]
    /\ names' = [t \in Tasks |-> NoName] /\ dependsOn' = [t \in Tasks |-> {}]
    /\ verdict' = "none" /\ visited' = 0 /\ ready' = {}
    /\ remaining' = [t \in Tasks |-> {}] /\ rank' = [t \in Tasks |-> 0]
    /\ UNCHANGED <<run, status, child, attempt, cancelled>>

\* PipelineLoader.load keeps the definition that model_validate has accepted.
\* From here on tasks are told apart by their position; the validation's own
\* variables are forgotten.
Register ==
    /\ stage = "done" /\ verdict = "accepted" /\ stage' = "registered"
    /\ deps' = Graph
    /\ enabled' \in SUBSET Tasks
    /\ onFailure' \in [Tasks -> {"fail", "skip", "warn"}]
    /\ names' = [t \in Tasks |-> NoName] /\ dependsOn' = [t \in Tasks |-> {}]
    /\ verdict' = "none" /\ visited' = 0 /\ ready' = {}
    /\ remaining' = [t \in Tasks |-> {}] /\ rank' = [t \in Tasks |-> 0]
    /\ UNCHANGED <<run, status, child, attempt, cancelled>>

\* PipelineService.start creates the run and the task that will execute it.
Start ==
    /\ stage = "registered" /\ phase = "none"
    /\ phase' = "created"
    /\ UNCHANGED <<definition, runStatus, runError, blamed, pending, wave,
                   status, child, attempt, cancelled>>

\* Variant: one joined dependency is enough.
ReadySome(rest) == {t \in rest : deps[t] = {} \/ deps[t] \ rest # {}}

\* Variant: only succeeded dependencies make a task ready.
ReadySucceeded(rest) == {t \in rest : \A u \in deps[t] : status[u] = "succeeded"}

\* The tasks of rest all of whose dependencies have been joined.
Ready(rest) == {t \in rest : deps[t] \cap rest = {}}

\* The head of execute's loop: join the next wave of rest, or stop.
ScheduleWave(rest) ==
    /\ pending' = rest
    /\ UNCHANGED blamed
    /\ IF rest = {}
       THEN /\ runStatus' = "succeeded" /\ phase' = "done"
            /\ UNCHANGED <<runError, wave, child>>
       ELSE IF Ready(rest) = {}
       THEN /\ runStatus' = "failed" /\ runError' = "stalled" /\ phase' = "done"
            /\ UNCHANGED <<wave, child>>
       ELSE /\ runStatus' = "running" /\ phase' = "joining"
            /\ wave' = Ready(rest)
            /\ child' = [t \in Tasks |-> IF t \in Ready(rest) THEN "created" ELSE child[t]]
            /\ UNCHANGED runError

\* execute up to its first await.
Begin ==
    /\ phase = "created"
    /\ ScheduleWave(Tasks)
    /\ UNCHANGED <<definition, status, attempt, cancelled>>

\* _execute_task up to the semaphore.
StartTask(t) ==
    /\ phase = "joining" /\ child[t] = "created"
    /\ IF t \notin enabled \/ \E u \in deps[t] : status[u] \in {"failed", "cancelled"}
       THEN /\ status' = [status EXCEPT ![t] = "skipped"]
            /\ child' = [child EXCEPT ![t] = "finished"]
       ELSE /\ status' = [status EXCEPT ![t] = "running"]
            /\ child' = [child EXCEPT ![t] = "waiting"]
    /\ UNCHANGED <<definition, run, attempt, cancelled>>

\* A permit is free: the first attempt begins.
Acquire(t) ==
    /\ phase = "joining" /\ child[t] = "waiting"
    /\ Cardinality(Handling) < MaxParallel
    /\ child' = [child EXCEPT ![t] = "handling"]
    /\ attempt' = [attempt EXCEPT ![t] = 1]
    /\ UNCHANGED <<definition, run, status, cancelled>>

\* _apply_failure_mode
Applied(t, result) ==
    IF result # "failed" \/ onFailure[t] = "fail" THEN result
    ELSE IF onFailure[t] = "skip" THEN "skipped" ELSE "succeeded"

\* The permit is released and the handled result stored.
Finish(t, result) ==
    /\ status' = [status EXCEPT ![t] = Applied(t, result)]
    /\ child' = [child EXCEPT ![t] = "finished"]

\* The handler returns a result, which is final whatever its status.
HandlerReturns(t, result) ==
    /\ phase = "joining" /\ child[t] = "handling"
    /\ Finish(t, result)
    /\ UNCHANGED <<definition, run, attempt, cancelled>>

\* Variant: one attempt too many.
HandlerRaisesAgain(t) ==
    /\ phase = "joining" /\ child[t] = "handling"
    /\ IF attempt[t] <= RetryCount + 1
       THEN /\ attempt' = [attempt EXCEPT ![t] = attempt[t] + 1]
            /\ UNCHANGED <<status, child>>
       ELSE /\ Finish(t, "failed")
            /\ UNCHANGED attempt
    /\ UNCHANGED <<definition, run, cancelled>>

\* The handler raises or exceeds the timeout: another attempt, under the same
\* permit, while the retries last.
HandlerRaises(t) ==
    /\ phase = "joining" /\ child[t] = "handling"
    /\ IF attempt[t] < RetryCount + 1
       THEN /\ attempt' = [attempt EXCEPT ![t] = attempt[t] + 1]
            /\ UNCHANGED <<status, child>>
       ELSE /\ Finish(t, "failed")
            /\ UNCHANGED attempt
    /\ UNCHANGED <<definition, run, cancelled>>

\* The TaskGroup has joined every child: the wave leaves pending, a failure
\* skips the rest and ends the run, otherwise the next wave is scheduled.
JoinWave ==
    LET rest == pending \ wave
        failures == {t \in wave : status[t] = "failed"}
    IN /\ phase = "joining" /\ ~cancelled
       /\ \A t \in wave : child[t] = "finished"
       /\ IF failures # {}
          THEN /\ runStatus' = "failed" /\ phase' = "done"
               /\ runError' = "task failed"
               /\ \E t \in failures : (\A u \in failures : t <= u) /\ blamed' = t
               /\ status' = [t \in Tasks |-> IF t \in rest THEN "skipped" ELSE status[t]]
               /\ pending' = {}
               /\ UNCHANGED <<wave, child>>
          ELSE ScheduleWave(rest) /\ UNCHANGED status
       /\ UNCHANGED <<definition, attempt, cancelled>>

------------------------------------------------------------------------------
\* PipelineService.cancel: the run's task is told to stop at its next await.
\* A client can name the run only once start has returned it.
Cancel ==
    /\ phase = "joining" /\ ~cancelled
    /\ cancelled' = TRUE
    /\ UNCHANGED <<definition, run, status, child, attempt>>

\* The TaskGroup sees the cancellation and cancels its children.
Abort ==
    /\ phase = "joining" /\ cancelled
    /\ phase' = "aborting"
    /\ UNCHANGED <<definition, runStatus, runError, blamed, status, pending, wave,
                   child, attempt, cancelled>>

\* Variant: a child that waits for a permit is not cancelled.
UnwindHandling(t) ==
    /\ phase = "aborting" /\ child[t] \in {"created", "handling"}
    /\ child' = [child EXCEPT ![t] = "finished"]
    /\ UNCHANGED <<definition, run, status, attempt, cancelled>>

\* A child unwinds from its await: no result is stored.
Unwind(t) ==
    /\ phase = "aborting" /\ child[t] \in {"created", "waiting", "handling"}
    /\ child' = [child EXCEPT ![t] = "finished"]
    /\ UNCHANGED <<definition, run, status, attempt, cancelled>>

\* Variant: tasks that have not started keep their status.
CancelRunRunning ==
    /\ phase = "aborting" /\ \A t \in wave : child[t] = "finished"
    /\ runStatus' = "cancelled" /\ runError' = "cancelled" /\ phase' = "done"
    /\ status' = [t \in Tasks |-> IF status[t] = "running" THEN "cancelled" ELSE status[t]]
    /\ UNCHANGED <<definition, blamed, pending, wave, child, attempt, cancelled>>

\* Variant: every task is marked cancelled.
CancelRunAll ==
    /\ phase = "aborting" /\ \A t \in wave : child[t] = "finished"
    /\ runStatus' = "cancelled" /\ runError' = "cancelled" /\ phase' = "done"
    /\ status' = [t \in Tasks |-> "cancelled"]
    /\ UNCHANGED <<definition, blamed, pending, wave, child, attempt, cancelled>>

\* Variant: a cancelled run does not wait for its children.
CancelRunAtOnce ==
    /\ phase = "aborting"
    /\ runStatus' = "cancelled" /\ runError' = "cancelled" /\ phase' = "done"
    /\ status' = [t \in Tasks |-> IF status[t] \in Unfinished THEN "cancelled" ELSE status[t]]
    /\ UNCHANGED <<definition, blamed, pending, wave, child, attempt, cancelled>>

\* except CancelledError: the run is cancelled and with it what is unfinished.
CancelRun ==
    /\ phase = "aborting" /\ \A t \in wave : child[t] = "finished"
    /\ runStatus' = "cancelled" /\ runError' = "cancelled" /\ phase' = "done"
    /\ status' = [t \in Tasks |-> IF status[t] \in Unfinished THEN "cancelled" ELSE status[t]]
    /\ UNCHANGED <<definition, blamed, pending, wave, child, attempt, cancelled>>

Executor ==
    \/ Begin
    \/ \E t \in Tasks :
         \/ StartTask(t)
         \/ Acquire(t)
         \/ \E result \in {"succeeded", "failed"} : HandlerReturns(t, result)
         \/ HandlerRaises(t)
         \/ Unwind(t)
    \/ JoinWave
    \/ Abort
    \/ CancelRun

Validate ==
    /\ Validation
    /\ UNCHANGED <<deps, enabled, onFailure, run, status, child, attempt, cancelled>>

\* A run that is done stays as it is, until the process ends.
Next == Validate \/ Register \/ Start \/ Executor \/ Cancel

Spec == Init /\ [][Next]_vars

\* Validation is a synchronous call: it runs on.  The event loop runs every
\* coroutine that can go on, and wait_for ends a handler that would not.  The
\* two come one after the other, so one condition serves both.  Nobody is bound
\* to start a run or to cancel it, and another file may end the loading.
FairSpec == Spec /\ WF_vars(Validate \/ Executor)

------------------------------------------------------------------------------
\* The variables of a run range over the values of the code's enumerations and
\* dicts.
RunTypeOK ==
    /\ deps \in Dags
    /\ enabled \subseteq Tasks
    /\ onFailure \in [Tasks -> {"fail", "skip", "warn"}]
    /\ runStatus \in {"pending", "running", "succeeded", "failed", "cancelled"}
    /\ runError \in {"none", "stalled", "task failed", "cancelled"}
    /\ blamed \in Tasks \cup {NoTask}
    /\ status \in [Tasks -> Unfinished \cup Finished]
    /\ phase \in {"none", "created", "joining", "aborting", "done"}
    /\ pending \subseteq Tasks
    /\ wave \subseteq Tasks
    /\ child \in [Tasks -> {"none", "created", "waiting", "handling", "finished"}]
    /\ attempt \in [Tasks -> 0..RetryCount + 1]
    /\ cancelled \in BOOLEAN

\* Every variable keeps its type, and the graph that a run is given can be
\* ranked because validation let it through.
TypeOK == ValidationTypeOK /\ RunTypeOK

\* A handler that has been given its task sees the final results of all the
\* task's dependencies, none of them failed (executor.py:59-77, 114-130).
DependenciesFirst ==
    \A t \in Tasks : attempt[t] > 0 =>
        \A u \in deps[t] : status[u] \in {"succeeded", "skipped"}

\* A coroutine that has begun and not ended: its task's handler is at work, or
\* will be.
AtWork(t) == child[t] \in {"created", "waiting", "handling"}

\* A handler never outlives what it is part of, whichever of its siblings fails
\* and whenever the run is cancelled: while one is at work or about to be, the
\* run says that it is running, and nothing has been decided about the tasks
\* that depend on it, neither to start nor to skip them (executor.py:69-98).
HandlersEndFirst ==
    \A t \in Tasks : AtWork(t) =>
      /\ runStatus = "running"
      /\ \A u \in Tasks : t \in deps[u] => status[u] = "pending" /\ ~AtWork(u)

\* The scheduler always finds a ready task: the branch "pipeline execution
\* stalled" (executor.py:64-67) is dead for every pipeline that validates.
NeverStalls == runError # "stalled"

\* When the run is over every task has a final status that agrees with the
\* run's: a success has no failed or cancelled task; a failure repeats the
\* first failed task whose on_failure is fail, and cancels nothing; only a
\* run that was asked to stop is cancelled (executor.py:79-98, 183-203).
VerdictAgreesWithTasks ==
    phase = "done" =>
      /\ \A t \in Tasks : status[t] \in Finished
      /\ runStatus = "succeeded" => \A t \in Tasks : status[t] \in {"succeeded", "skipped"}
      /\ runStatus = "failed" =>
           /\ blamed \in Tasks /\ status[blamed] = "failed" /\ onFailure[blamed] = "fail"
           /\ \A t \in Tasks : status[t] # "cancelled"
           /\ \A t \in 1..blamed - 1 : status[t] # "failed"
      /\ runStatus = "cancelled" <=> cancelled

\* The result of a finished task is never overwritten, by a retry, by the
\* skipping of the rest or by a cancellation (executor.py:140, 190-203).
ResultsAreFinal ==
    [][\A t \in Tasks : status[t] \in Finished => status'[t] = status[t]]_vars

\* From outside, a run is a PipelineRun: its status reaches an end once and
\* keeps it, and is "cancelled" if and only if the run was asked to stop before
\* (executor.py:56-105, service.py:86-96).
Outside == INSTANCE PipelineRun WITH status <- runStatus, cancel <- cancelled

ImplementsRun == Outside!Spec

\* Neither the validation of a definition nor a run of it goes on for ever: the
\* loop ends whatever the graph, and no wave waits on a task of a later one or
\* on a permit nobody gives back, also when tasks are retried or cancelled
\* (models.py:81-105, executor.py:58-99, 133-170).
PipelineEnds == []<>(stage \in {"done", "registered"} /\ phase \in {"none", "done"})
===============================================================================
