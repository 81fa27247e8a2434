------------------------ MODULE PipelineExecutor_proof ------------------------
(***************************************************************************)
(* Proofs about PipelineExecutor, for every number of tasks, every         *)
(* definition, and every setting of the executor: validation lets exactly  *)
(* the graphs without a cycle through, and the executor relies on no more. *)
(*                                                                         *)
(* The inductive invariant of a run says what the scheduler's dict         *)
(* `pending` means: what has left it is finished well and so is all it     *)
(* depends on, what is in it and not in the wave is untouched, and a task  *)
(* of the wave has the status that its coroutine's position implies.       *)
(***************************************************************************)
EXTENDS PipelineExecutor, PipelineDag_proof

Well == {"succeeded", "skipped"}

Live == phase \in {"joining", "aborting"}

\* Nothing has been touched before the run's first step.
StartInv ==
    phase \in {"none", "created"} =>
      /\ ~cancelled
      /\ \A t \in Tasks : status[t] = "pending" /\ child[t] = "none" /\ attempt[t] = 0

RunInv ==
    /\ phase # "done" => runError = "none"
    /\ phase \in {"none", "created"} => runStatus = "pending"
    /\ Live => runStatus = "running" /\ wave \subseteq pending
    /\ phase = "aborting" => cancelled

Untouched(t) == status[t] = "pending" /\ child[t] = "none" /\ attempt[t] = 0

JoinedInv ==
    Live => \A t \in Tasks :
      t \notin pending =>
        deps[t] \cap pending = {} /\ status[t] \in Well /\ child[t] = "finished"

LaterInv == Live => \A t \in pending \ wave : Untouched(t)

WaveInv == Live => \A t \in wave : deps[t] \cap pending = {} /\ child[t] # "none"

ChildInv ==
    Live => \A t \in Tasks :
      /\ child[t] = "created" => status[t] = "pending" /\ attempt[t] = 0
      /\ child[t] = "waiting" => status[t] = "running" /\ attempt[t] = 0
      /\ child[t] = "handling" => status[t] = "running" /\ attempt[t] > 0
      /\ child[t] = "finished" /\ phase = "joining" => status[t] \in Well \cup {"failed"}
      /\ status[t] = "failed" => onFailure[t] = "fail"
      /\ status[t] # "cancelled"

\* Only a registered definition is run.
RegisteredInv == stage # "registered" => phase = "none"

RunsInv ==
    /\ RunTypeOK /\ StartInv /\ RunInv
    /\ JoinedInv /\ LaterInv /\ WaveInv /\ ChildInv
    /\ DependenciesFirst /\ NeverStalls /\ VerdictAgreesWithTasks

IInv == DagInv /\ RegisteredInv /\ RunsInv

\* One step of ResultsAreFinal.
Final == \A t \in Tasks : status[t] \in Finished => status'[t] = status[t]

------------------------------------------------------------------------------
LEMMA SomeTaskIsReady ==
    ASSUME deps \in Dags, NEW rest, rest \subseteq Tasks, rest # {}
    PROVE  Ready(rest) # {}
BY SomeTaskIsFree DEF Ready

LEMMA DepsAreTasks ==
    ASSUME RunTypeOK PROVE deps \in [Tasks -> SUBSET Tasks]
BY DEF RunTypeOK, Dags

\* A step that changes no final result and gives an attempt only to a task
\* whose dependencies ended well keeps DependenciesFirst.
LEMMA DependenciesKept ==
    ASSUME RunTypeOK, DependenciesFirst, Final, deps' = deps,
           \A t \in Tasks : attempt'[t] > 0 =>
              attempt[t] > 0 \/ \A u \in deps[t] : status[u] \in Well
    PROVE  DependenciesFirst'
<1>1. SUFFICES ASSUME NEW t \in Tasks, attempt'[t] > 0, NEW u \in deps[t]
               PROVE  status'[u] \in Well
  BY DEF DependenciesFirst, Well
<1>2. u \in Tasks
  BY DepsAreTasks
<1>3. status[u] \in Well
  BY <1>1 DEF DependenciesFirst, Well
<1> QED BY <1>2, <1>3 DEF Final, Well, Finished

\* The head of the loop, entered with `rest` untouched and the others joined.
LEMMA ScheduleWaveKeeps ==
    ASSUME RunTypeOK, NEW rest, rest \subseteq Tasks,
           ScheduleWave(rest),
           UNCHANGED <<definition, status, attempt, cancelled>>,
           ~cancelled, runError = "none",
           \A t \in Tasks \ rest :
              deps[t] \cap rest = {} /\ status[t] \in Well /\ child[t] = "finished",
           \A t \in rest : Untouched(t)
    PROVE  /\ RunTypeOK' /\ StartInv' /\ RunInv'
           /\ JoinedInv' /\ LaterInv' /\ WaveInv' /\ ChildInv'
           /\ NeverStalls' /\ VerdictAgreesWithTasks'
<1> USE DEF ScheduleWave, definition
<1>1. CASE rest = {}
  <2>1. phase' = "done" /\ runStatus' = "succeeded" /\ runError' = "none"
    BY <1>1
  <2>2. RunTypeOK'
    BY <1>1 DEF RunTypeOK
  <2>3. VerdictAgreesWithTasks'
    BY <1>1, <2>1 DEF VerdictAgreesWithTasks, Well, Finished
  <2> QED BY <2>1, <2>2, <2>3 DEF StartInv, RunInv, JoinedInv, LaterInv, WaveInv,
                                  ChildInv, NeverStalls, Live
<1>2. CASE rest # {}
  <2>1. Ready(rest) # {}
    BY <1>2, SomeTaskIsReady DEF RunTypeOK
  <2>2. /\ phase' = "joining" /\ runStatus' = "running" /\ runError' = "none"
        /\ pending' = rest /\ wave' = Ready(rest)
        /\ child' = [t \in Tasks |-> IF t \in Ready(rest) THEN "created" ELSE child[t]]
    BY <1>2, <2>1
  <2>3. Ready(rest) \subseteq rest
    BY DEF Ready
  <2>4. \A t \in Tasks : child'[t] = IF t \in Ready(rest) THEN "created" ELSE child[t]
    BY <2>2
  <2>5. RunTypeOK'
    <3>1. child' \in [Tasks -> {"none", "created", "waiting", "handling", "finished"}]
      BY <2>2 DEF RunTypeOK
    <3> QED BY <2>2, <2>3, <3>1 DEF RunTypeOK
  <2>6. JoinedInv'
    BY <2>2, <2>3, <2>4 DEF JoinedInv
  <2>7. LaterInv'
    BY <2>2, <2>3, <2>4 DEF LaterInv, Untouched
  <2>8. WaveInv'
    BY <2>2, <2>3, <2>4 DEF WaveInv, Ready
  <2>9. ChildInv'
    <3>1. SUFFICES ASSUME NEW t \in Tasks
                   PROVE  /\ status[t] \in Well \cup {"pending"}
                          /\ child'[t] \in {"none", "created", "finished"}
                          /\ child'[t] = "created" => status[t] = "pending" /\ attempt[t] = 0
                          /\ child'[t] = "finished" => status[t] \in Well
      BY <2>2 DEF ChildInv, Well
    <3>2. CASE t \in rest
      BY <2>3, <2>4, <3>2 DEF Untouched
    <3>3. CASE t \notin rest
      BY <2>3, <2>4, <3>3
    <3> QED BY <3>2, <3>3
  <2> QED BY <2>2, <2>3, <2>5, <2>6, <2>7, <2>8, <2>9
          DEF StartInv, RunInv, NeverStalls, VerdictAgreesWithTasks, Live
<1> QED BY <1>1, <1>2

------------------------------------------------------------------------------
LEMMA InitRunsInv == ASSUME Init PROVE RunsInv
<1>1. \A t \in Tasks : status[t] = "pending" /\ child[t] = "none" /\ attempt[t] = 0
  BY DEF Init
<1>2. RunTypeOK
  <2>5. deps \in Dags
    <3>1. deps \in [Tasks -> SUBSET Tasks] /\ \A t \in Tasks : deps[t] = {}
      BY DEF Init
    <3>2. [t \in Tasks |-> t] \in [Tasks -> Tasks]
      OBVIOUS
    <3> QED BY <3>1, <3>2 DEF Dags
  <2>1. 0 \in 0..RetryCount + 1
    BY PipelineAssumption
  <2>2. attempt \in [Tasks -> 0..RetryCount + 1]
    BY <2>1 DEF Init
  <2>3. status \in [Tasks -> Unfinished \cup Finished]
    BY DEF Init, Unfinished
  <2>4. child \in [Tasks -> {"none", "created", "waiting", "handling", "finished"}]
    BY DEF Init
  <2> QED BY <2>2, <2>3, <2>4, <2>5 DEF Init, RunTypeOK
<1>3. DependenciesFirst
  BY <1>1 DEF DependenciesFirst
<1> QED BY <1>1, <1>2, <1>3 DEF Init, RunsInv, StartInv, RunInv, JoinedInv, LaterInv, WaveInv,
        ChildInv, Live, NeverStalls, VerdictAgreesWithTasks

LEMMA BeginKeeps == ASSUME RunsInv, Begin PROVE RunsInv' /\ Final
<1> USE DEF RunsInv
<1>1. /\ phase = "created" /\ ScheduleWave(Tasks)
      /\ UNCHANGED <<definition, status, attempt, cancelled>>
  BY DEF Begin
<1>2. ~cancelled /\ runError = "none" /\ \A t \in Tasks : Untouched(t)
  BY <1>1 DEF StartInv, RunInv, Untouched
<1>3. /\ RunTypeOK' /\ StartInv' /\ RunInv'
      /\ JoinedInv' /\ LaterInv' /\ WaveInv' /\ ChildInv'
      /\ NeverStalls' /\ VerdictAgreesWithTasks'
  BY <1>1, <1>2, ScheduleWaveKeeps
<1>4. Final
  BY <1>1 DEF Final
<1>5. DependenciesFirst'
  BY <1>1 DEF DependenciesFirst, definition
<1> QED BY <1>3, <1>4, <1>5

\* A step of one coroutine of the wave, which moves on and may store a result
\* in place of an unfinished one.
LEMMA ChildStepKeeps ==
    ASSUME RunsInv, NEW t \in Tasks, Live,
           child[t] \in {"created", "waiting", "handling"},
           UNCHANGED <<definition, run, cancelled>>,
           NEW c, c \in {"waiting", "handling", "finished"},
           NEW s, s \in Unfinished \cup Well \cup {"failed"},
           NEW a, a \in 0..RetryCount + 1,
           child' = [child EXCEPT ![t] = c],
           status' = [status EXCEPT ![t] = s],
           attempt' = [attempt EXCEPT ![t] = a],
           c = "waiting" => s = "running" /\ a = 0,
           c = "handling" => s = "running" /\ a > 0,
           c = "finished" /\ phase = "joining" => s \in Well \cup {"failed"},
           s = "failed" => onFailure[t] = "fail",
           a > 0 => attempt[t] > 0 \/ \A u \in deps[t] : status[u] \in Well
    PROVE  RunsInv' /\ Final
<1> USE DEF RunsInv
<1>1. UNCHANGED <<deps, enabled, onFailure, runStatus, runError, blamed, phase,
                  pending, wave, cancelled>>
  BY DEF definition, run
<1>2. /\ status \in [Tasks -> Unfinished \cup Finished]
      /\ attempt \in [Tasks -> 0..RetryCount + 1]
      /\ child \in [Tasks -> {"none", "created", "waiting", "handling", "finished"}]
  BY DEF RunTypeOK
<1>3. /\ child'[t] = c /\ status'[t] = s /\ attempt'[t] = a
      /\ \A u \in Tasks \ {t} :
           child'[u] = child[u] /\ status'[u] = status[u] /\ attempt'[u] = attempt[u]
  BY <1>2
<1>4. status[t] \in Unfinished
  BY DEF ChildInv, Unfinished
<1>5. t \in wave
  BY DEF JoinedInv, LaterInv, Untouched
<1>6. t \in pending
  BY <1>5 DEF RunInv
<1>7. Final
  BY <1>3, <1>4 DEF Final, Unfinished, Finished
<1>8. RunTypeOK'
  <2>1. s \in Unfinished \cup Finished
    BY DEF Well, Finished
  <2>2. /\ status' \in [Tasks -> Unfinished \cup Finished]
        /\ attempt' \in [Tasks -> 0..RetryCount + 1]
        /\ child' \in [Tasks -> {"none", "created", "waiting", "handling", "finished"}]
    BY <1>2, <2>1
  <2> QED BY <1>1, <2>2 DEF RunTypeOK
<1>9. StartInv' /\ RunInv'
  BY <1>1 DEF StartInv, RunInv, Live
<1>10. JoinedInv'
  BY <1>1, <1>3, <1>6 DEF JoinedInv, Live
<1>11. LaterInv'
  BY <1>1, <1>3, <1>5, DepsAreTasks DEF LaterInv, Live, Untouched, RunTypeOK
<1>12. WaveInv'
  BY <1>1, <1>3 DEF WaveInv, Live, RunTypeOK
<1>13. ChildInv'
  <2>1. SUFFICES ASSUME NEW u \in Tasks
        PROVE  /\ child'[u] = "created" => status'[u] = "pending" /\ attempt'[u] = 0
               /\ child'[u] = "waiting" => status'[u] = "running" /\ attempt'[u] = 0
               /\ child'[u] = "handling" => status'[u] = "running" /\ attempt'[u] > 0
               /\ child'[u] = "finished" /\ phase = "joining"
                    => status'[u] \in Well \cup {"failed"}
               /\ status'[u] = "failed" => onFailure[u] = "fail"
               /\ status'[u] # "cancelled"
    BY <1>1 DEF ChildInv
  <2>2. CASE u = t
    BY <1>3, <2>2 DEF Unfinished, Well
  <2>3. CASE u # t
    BY <1>3, <2>3 DEF ChildInv
  <2> QED BY <2>2, <2>3
<1>14. DependenciesFirst'
  BY <1>1, <1>3, <1>7, DependenciesKept
<1>15. NeverStalls' /\ VerdictAgreesWithTasks'
  BY <1>1 DEF NeverStalls, VerdictAgreesWithTasks, Live
<1> QED BY <1>7, <1>8, <1>9, <1>10, <1>11, <1>12, <1>13, <1>14, <1>15

\* The coroutine of a joining wave stores a handled result.
LEMMA FinishKeeps ==
    ASSUME RunsInv, NEW t \in Tasks, NEW result \in {"succeeded", "failed"},
           phase = "joining", child[t] = "handling", Finish(t, result),
           UNCHANGED <<definition, run, attempt, cancelled>>
    PROVE  RunsInv' /\ Final
<1> DEFINE s == Applied(t, result)
<1>1. s \in Well \cup {"failed"} /\ (s = "failed" => onFailure[t] = "fail")
  BY DEF Applied, Well
<1>2. attempt \in [Tasks -> 0..RetryCount + 1] /\ attempt[t] > 0 /\ Live
  BY DEF RunsInv, RunTypeOK, ChildInv, Live
<1>3. attempt[t] \in 0..RetryCount + 1 /\ attempt' = [attempt EXCEPT ![t] = attempt[t]]
  BY <1>2
<1>4. /\ child' = [child EXCEPT ![t] = "finished"]
      /\ status' = [status EXCEPT ![t] = s]
  BY DEF Finish
<1> HIDE DEF s
<1> QED BY <1>1, <1>2, <1>3, <1>4, ChildStepKeeps

LEMMA StartTaskKeeps ==
    ASSUME RunsInv, NEW t \in Tasks, StartTask(t) PROVE RunsInv' /\ Final
<1>1. /\ phase = "joining" /\ child[t] = "created" /\ Live
      /\ UNCHANGED <<definition, run, attempt, cancelled>>
  BY DEF StartTask, Live
<1>2. attempt \in [Tasks -> 0..RetryCount + 1] /\ attempt[t] = 0
  BY <1>1 DEF RunsInv, RunTypeOK, ChildInv
<1>3. 0 \in 0..RetryCount + 1 /\ attempt' = [attempt EXCEPT ![t] = 0]
  BY <1>1, <1>2, PipelineAssumption
<1>4. CASE /\ status' = [status EXCEPT ![t] = "skipped"]
           /\ child' = [child EXCEPT ![t] = "finished"]
  BY <1>1, <1>2, <1>3, <1>4, ChildStepKeeps DEF Well
<1>5. CASE /\ status' = [status EXCEPT ![t] = "running"]
           /\ child' = [child EXCEPT ![t] = "waiting"]
  BY <1>1, <1>2, <1>3, <1>5, ChildStepKeeps DEF Unfinished
<1> QED BY <1>4, <1>5 DEF StartTask

\* All the dependencies of a task that gets a permit have been joined.
LEMMA AcquireKeeps ==
    ASSUME RunsInv, NEW t \in Tasks, Acquire(t) PROVE RunsInv' /\ Final
<1>1. /\ phase = "joining" /\ child[t] = "waiting" /\ Live
      /\ child' = [child EXCEPT ![t] = "handling"]
      /\ attempt' = [attempt EXCEPT ![t] = 1]
      /\ UNCHANGED <<definition, run, status, cancelled>>
  BY DEF Acquire, Live
<1>2. status \in [Tasks -> Unfinished \cup Finished] /\ status[t] = "running"
  BY <1>1 DEF RunsInv, RunTypeOK, ChildInv
<1>3. status' = [status EXCEPT ![t] = "running"]
  BY <1>1, <1>2
<1>4. 1 \in 0..RetryCount + 1 /\ 1 > 0
  BY PipelineAssumption
<1>5. \A u \in deps[t] : status[u] \in Well
  <2>1. deps[t] \subseteq Tasks
    BY DepsAreTasks DEF RunsInv
  <2>2. t \in wave
    BY <1>1 DEF RunsInv, JoinedInv, LaterInv, Untouched
  <2> QED BY <1>1, <2>1, <2>2 DEF RunsInv, WaveInv, JoinedInv
<1> QED BY <1>1, <1>3, <1>4, <1>5, ChildStepKeeps DEF Unfinished

LEMMA HandlerRaisesKeeps ==
    ASSUME RunsInv, NEW t \in Tasks, HandlerRaises(t) PROVE RunsInv' /\ Final
<1>1. /\ phase = "joining" /\ child[t] = "handling" /\ Live
      /\ UNCHANGED <<definition, run, cancelled>>
  BY DEF HandlerRaises, Live
<1>2. /\ status \in [Tasks -> Unfinished \cup Finished] /\ status[t] = "running"
      /\ child \in [Tasks -> {"none", "created", "waiting", "handling", "finished"}]
      /\ attempt \in [Tasks -> 0..RetryCount + 1] /\ attempt[t] > 0
  BY <1>1 DEF RunsInv, RunTypeOK, ChildInv
<1>3. CASE /\ attempt[t] < RetryCount + 1
           /\ attempt' = [attempt EXCEPT ![t] = attempt[t] + 1]
           /\ UNCHANGED <<status, child>>
  <2> DEFINE a == attempt[t] + 1
  <2>1. a \in 0..RetryCount + 1 /\ a > 0 /\ attempt' = [attempt EXCEPT ![t] = a]
    BY <1>2, <1>3, PipelineAssumption
  <2>2. /\ status' = [status EXCEPT ![t] = "running"]
        /\ child' = [child EXCEPT ![t] = "handling"]
    BY <1>1, <1>2, <1>3
  <2> HIDE DEF a
  <2> QED BY <1>1, <1>2, <2>1, <2>2, ChildStepKeeps DEF Unfinished
<1>4. CASE Finish(t, "failed") /\ UNCHANGED attempt
  BY <1>1, <1>4, FinishKeeps
<1> QED BY <1>3, <1>4 DEF HandlerRaises

\* A child that unwinds stores no result.
LEMMA UnwindKeeps ==
    ASSUME RunsInv, NEW t \in Tasks, Unwind(t) PROVE RunsInv' /\ Final
<1>1. /\ phase = "aborting" /\ child[t] \in {"created", "waiting", "handling"} /\ Live
      /\ child' = [child EXCEPT ![t] = "finished"]
      /\ UNCHANGED <<definition, run, status, attempt, cancelled>>
  BY DEF Unwind, Live
<1> DEFINE s == status[t]
           a == attempt[t]
<1>2. /\ status \in [Tasks -> Unfinished \cup Finished] /\ s \in Unfinished
      /\ attempt \in [Tasks -> 0..RetryCount + 1] /\ a \in 0..RetryCount + 1
  BY <1>1 DEF RunsInv, RunTypeOK, ChildInv, Unfinished
<1>3. status' = [status EXCEPT ![t] = s] /\ attempt' = [attempt EXCEPT ![t] = a]
  BY <1>1, <1>2
<1>4. s # "failed" /\ (a > 0 => attempt[t] > 0)
  BY <1>2 DEF Unfinished
<1> HIDE DEF s, a
<1> QED BY <1>1, <1>2, <1>3, <1>4, ChildStepKeeps

LEMMA JoinWaveKeeps == ASSUME RunsInv, JoinWave PROVE RunsInv' /\ Final
<1> USE DEF RunsInv
<1> DEFINE rest == pending \ wave
           failures == {t \in wave : status[t] = "failed"}
<1>1. /\ phase = "joining" /\ ~cancelled /\ Live
      /\ \A t \in wave : child[t] = "finished"
      /\ UNCHANGED <<definition, attempt, cancelled>>
      /\ wave \subseteq pending /\ pending \subseteq Tasks
      /\ runError = "none"
  BY DEF JoinWave, Live, RunInv, RunTypeOK
<1>2. \A t \in wave : status[t] \in Well \cup {"failed"}
  BY <1>1 DEF ChildInv
<1>3. \A t \in rest : Untouched(t)
  BY <1>1 DEF LaterInv
<1>4. CASE failures # {}
  <2>1. /\ runStatus' = "failed" /\ phase' = "done" /\ runError' = "task failed"
        /\ \E t \in failures : (\A u \in failures : t <= u) /\ blamed' = t
        /\ status' = [t \in Tasks |-> IF t \in rest THEN "skipped" ELSE status[t]]
        /\ pending' = {} /\ wave' = wave /\ child' = child
    BY <1>4 DEF JoinWave
  <2>2. \A t \in Tasks : status'[t] = IF t \in rest THEN "skipped" ELSE status[t]
    BY <2>1
  <2>3. Final
    BY <1>3, <2>2 DEF Final, Untouched, Finished
  <2>4. RunTypeOK'
    <3>1. status' \in [Tasks -> Unfinished \cup Finished]
      BY <2>1 DEF RunTypeOK, Finished
    <3>2. blamed' \in Tasks \cup {NoTask}
      BY <1>1, <2>1
    <3> QED BY <1>1, <2>1, <3>1, <3>2 DEF RunTypeOK, definition
  <2>5. DependenciesFirst'
    BY <1>1, <2>3, DependenciesKept DEF definition
  <2>6. \A t \in Tasks : status'[t] \in Well \cup {"failed"}
    <3>1. ASSUME NEW t \in Tasks PROVE status'[t] \in Well \cup {"failed"}
      <4>1. CASE t \in rest BY <2>2, <4>1 DEF Well
      <4>2. CASE t \in wave BY <1>2, <2>2, <4>2
      <4>3. CASE t \notin pending BY <1>1, <2>2, <4>3 DEF JoinedInv
      <4> QED BY <4>1, <4>2, <4>3
    <3> QED BY <3>1
  <2>7. VerdictAgreesWithTasks'
    <3>1. PICK t \in failures : (\A u \in failures : t <= u) /\ blamed' = t
      BY <2>1
    <3>2. t \in Tasks /\ t \in wave /\ status[t] = "failed" /\ onFailure[t] = "fail"
      BY <1>1, <3>1 DEF ChildInv
    <3>3. status'[t] = "failed"
      BY <2>2, <3>2
    <3>4. \A u \in 1..t - 1 : status'[u] # "failed"
      <4>1. SUFFICES ASSUME NEW u \in 1..t - 1, status'[u] = "failed" PROVE FALSE
        OBVIOUS
      <4>2. u \in Tasks /\ ~(t <= u)
        BY <3>2, TaskGraphAssumption DEF Tasks
      <4>3. u \notin rest /\ status[u] = "failed"
        BY <2>2, <4>1, <4>2
      <4>4. u \in pending
        BY <1>1, <4>2, <4>3 DEF JoinedInv, Well
      <4> QED BY <3>1, <4>2, <4>3, <4>4
    <3> QED BY <1>1, <2>1, <2>6, <3>1, <3>2, <3>3, <3>4
            DEF VerdictAgreesWithTasks, Well, Finished, definition
  <2> QED BY <2>1, <2>3, <2>4, <2>5, <2>7
          DEF StartInv, RunInv, JoinedInv, LaterInv, WaveInv, ChildInv, NeverStalls, Live
<1>5. CASE failures = {}
  <2>1. ScheduleWave(rest) /\ UNCHANGED status
    BY <1>5 DEF JoinWave
  <2>2. Final
    BY <2>1 DEF Final
  <2>3. \A t \in Tasks \ rest :
          deps[t] \cap rest = {} /\ status[t] \in Well /\ child[t] = "finished"
    <3>1. ASSUME NEW t \in Tasks \ rest
          PROVE  deps[t] \cap rest = {} /\ status[t] \in Well /\ child[t] = "finished"
      <4>1. CASE t \in wave BY <1>1, <1>2, <1>5, <4>1 DEF WaveInv
      <4>2. CASE t \notin pending BY <1>1, <4>2 DEF JoinedInv
      <4> QED BY <4>1, <4>2
    <3> QED BY <3>1
  <2>4. /\ RunTypeOK' /\ StartInv' /\ RunInv'
        /\ JoinedInv' /\ LaterInv' /\ WaveInv' /\ ChildInv'
        /\ NeverStalls' /\ VerdictAgreesWithTasks'
    <3>1. rest \subseteq Tasks
      BY <1>1
    <3> HIDE DEF rest
    <3> QED BY <1>1, <1>3, <2>1, <2>3, <3>1, ScheduleWaveKeeps
  <2>5. DependenciesFirst'
    BY <1>1, <2>2, DependenciesKept DEF definition
  <2> QED BY <2>2, <2>4, <2>5
<1> QED BY <1>4, <1>5

LEMMA CancelKeeps == ASSUME RunsInv, Cancel PROVE RunsInv' /\ Final
BY DEF RunsInv, Cancel, Final, RunTypeOK, StartInv, RunInv, JoinedInv, LaterInv, WaveInv, ChildInv,
       Live, Untouched, DependenciesFirst, NeverStalls, VerdictAgreesWithTasks, definition, run

LEMMA AbortKeeps == ASSUME RunsInv, Abort PROVE RunsInv' /\ Final
BY DEF RunsInv, Abort, Final, RunTypeOK, StartInv, RunInv, JoinedInv, LaterInv, WaveInv, ChildInv,
       Live, Untouched, DependenciesFirst, NeverStalls, VerdictAgreesWithTasks, definition

LEMMA CancelRunKeeps == ASSUME RunsInv, CancelRun PROVE RunsInv' /\ Final
<1> USE DEF RunsInv
<1>1. /\ phase = "aborting" /\ cancelled
      /\ runStatus' = "cancelled" /\ runError' = "cancelled" /\ phase' = "done"
      /\ status' = [t \in Tasks |-> IF status[t] \in Unfinished THEN "cancelled" ELSE status[t]]
      /\ UNCHANGED <<deps, enabled, onFailure, blamed, pending, wave, child, attempt, cancelled>>
  BY DEF CancelRun, RunInv, definition
<1>2. \A t \in Tasks :
        status'[t] = IF status[t] \in Unfinished THEN "cancelled" ELSE status[t]
  BY <1>1
<1>3. Final
  BY <1>2 DEF Final, Unfinished, Finished
<1>4. RunTypeOK'
  <2>1. status' \in [Tasks -> Unfinished \cup Finished]
    BY <1>1 DEF RunTypeOK, Finished
  <2> QED BY <1>1, <2>1 DEF RunTypeOK
<1>5. DependenciesFirst'
  BY <1>1, <1>3, DependenciesKept
<1>6. VerdictAgreesWithTasks'
  BY <1>1, <1>2 DEF VerdictAgreesWithTasks, RunTypeOK, Finished
<1> QED BY <1>1, <1>3, <1>4, <1>5, <1>6
        DEF StartInv, RunInv, JoinedInv, LaterInv, WaveInv, ChildInv, NeverStalls, Live

\* What Start, Register and the validation leave alone.
LEMMA UnstartedKeeps ==
    ASSUME RunsInv, phase = "none", phase' \in {"none", "created"}, deps' \in Dags,
           enabled' \subseteq Tasks, onFailure' \in [Tasks -> {"fail", "skip", "warn"}],
           UNCHANGED <<runStatus, runError, blamed, pending, wave, status, child,
                       attempt, cancelled>>
    PROVE  RunsInv' /\ Final
<1>1. \A t \in Tasks : status[t] = "pending" /\ child[t] = "none" /\ attempt[t] = 0
  BY DEF RunsInv, StartInv
<1>2. RunTypeOK'
  BY DEF RunsInv, RunTypeOK
<1>3. Final
  BY DEF Final
<1>4. DependenciesFirst'
  BY <1>1 DEF DependenciesFirst
<1> QED BY <1>1, <1>2, <1>3, <1>4
        DEF RunsInv, StartInv, RunInv, JoinedInv, LaterInv, WaveInv, ChildInv, Live, NeverStalls,
            VerdictAgreesWithTasks

LEMMA StartKeeps == ASSUME RunsInv, Start PROVE RunsInv' /\ Final
<1>1. /\ phase = "none" /\ phase' = "created"
      /\ UNCHANGED <<deps, enabled, onFailure, runStatus, runError, blamed, pending, wave,
                     status, child, attempt, cancelled>>
  BY DEF Start, definition
<1>2. /\ deps' \in Dags /\ enabled' \subseteq Tasks
      /\ onFailure' \in [Tasks -> {"fail", "skip", "warn"}]
  BY <1>1 DEF RunsInv, RunTypeOK
<1> QED BY <1>1, <1>2, UnstartedKeeps

\* The graph that an accepted definition brings with it can be ranked.
LEMMA RegisterKeeps == ASSUME IInv, Register PROVE IInv' /\ Final
<1>1. /\ stage = "done" /\ verdict = "accepted" /\ stage' = "registered"
      /\ deps' = Graph /\ enabled' \in SUBSET Tasks
      /\ onFailure' \in [Tasks -> {"fail", "skip", "warn"}]
      /\ names' = [t \in Tasks |-> NoName] /\ dependsOn' = [t \in Tasks |-> {}]
      /\ verdict' = "none" /\ visited' = 0 /\ ready' = {}
      /\ remaining' = [t \in Tasks |-> {}] /\ rank' = [t \in Tasks |-> 0]
      /\ UNCHANGED <<runStatus, runError, blamed, phase, pending, wave, status, child,
                     attempt, cancelled>>
  BY DEF Register, run
<1>2. phase = "none" /\ RunsInv /\ Graph \in Dags
  BY <1>1, AcceptedIsDag DEF IInv, RegisteredInv
<1>3. RunsInv' /\ Final
  BY <1>1, <1>2, UnstartedKeeps
<1>4. ValidationTypeOK'
  <2>1. 0 \in 0..NumTasks
    BY TaskGraphAssumption
  <2>2. visited' \in 0..NumTasks /\ rank' \in [Tasks -> 0..NumTasks]
    BY <1>1, <2>1
  <2> QED BY <1>1, <2>2 DEF ValidationTypeOK, Verdicts
<1>5. DagInv'
  BY <1>1, <1>4 DEF DagInv, CheckedInv, LoopInv, EndInv, Looping
<1> QED BY <1>1, <1>3, <1>5 DEF IInv, RegisteredInv

LEMMA ValidateKeeps == ASSUME IInv, Validate PROVE IInv' /\ Final
<1>1. /\ Validation
      /\ UNCHANGED <<deps, enabled, onFailure, runStatus, runError, blamed, phase, pending,
                     wave, status, child, attempt, cancelled>>
  BY DEF Validate, run
<1>2. DagInv'
  BY <1>1, ValidationKeeps DEF IInv
<1>3. stage # "registered"
  BY <1>1 DEF Validation, CheckNames, CheckReferences, Visit, CheckVisited
<1>4. phase = "none" /\ RunsInv
  BY <1>3 DEF IInv, RegisteredInv
<1>5. /\ deps' \in Dags /\ enabled' \subseteq Tasks
      /\ onFailure' \in [Tasks -> {"fail", "skip", "warn"}]
  BY <1>1, <1>4 DEF RunsInv, RunTypeOK
<1>6. RunsInv' /\ Final
  BY <1>1, <1>4, <1>5, UnstartedKeeps
<1> QED BY <1>1, <1>2, <1>4, <1>6 DEF IInv, RegisteredInv

\* The steps of a run that has been started leave the definition alone.
LEMMA RunStep ==
    ASSUME RunsInv, RegisteredInv, Executor \/ Cancel \/ Start \/ UNCHANGED vars
    PROVE  RunsInv' /\ Final /\ UNCHANGED validation /\ RegisteredInv'
<1>1. RunsInv' /\ Final
  <2>1. CASE Begin BY <2>1, BeginKeeps
  <2>2. ASSUME NEW t \in Tasks, StartTask(t) PROVE RunsInv' /\ Final BY <2>2, StartTaskKeeps
  <2>3. ASSUME NEW t \in Tasks, Acquire(t) PROVE RunsInv' /\ Final BY <2>3, AcquireKeeps
  <2>4. ASSUME NEW t \in Tasks, NEW result \in {"succeeded", "failed"}, HandlerReturns(t, result)
        PROVE RunsInv' /\ Final
    BY <2>4, FinishKeeps DEF HandlerReturns
  <2>5. ASSUME NEW t \in Tasks, HandlerRaises(t) PROVE RunsInv' /\ Final BY <2>5, HandlerRaisesKeeps
  <2>6. ASSUME NEW t \in Tasks, Unwind(t) PROVE RunsInv' /\ Final BY <2>6, UnwindKeeps
  <2>7. CASE JoinWave BY <2>7, JoinWaveKeeps
  <2>8. CASE Abort BY <2>8, AbortKeeps
  <2>9. CASE CancelRun BY <2>9, CancelRunKeeps
  <2>10. CASE Cancel BY <2>10, CancelKeeps
  <2>11. CASE Start BY <2>11, StartKeeps
  <2>12. CASE UNCHANGED vars
    BY <2>12 DEF vars, RunsInv, Final, RunTypeOK, StartInv, RunInv, JoinedInv, LaterInv, WaveInv,
                 ChildInv, Live, Untouched, DependenciesFirst, NeverStalls, VerdictAgreesWithTasks
  <2> QED BY <2>1, <2>2, <2>3, <2>4, <2>5, <2>6, <2>7, <2>8, <2>9, <2>10, <2>11, <2>12
          DEF Executor
<1>2. UNCHANGED validation
  BY DEF Executor, Begin, StartTask, Acquire, HandlerReturns, HandlerRaises, Unwind, JoinWave,
         Abort, CancelRun, Cancel, Start, vars, definition
<1>3. phase = "none" /\ ~Start => phase' = "none"
  BY DEF Executor, Begin, StartTask, Acquire, HandlerReturns, HandlerRaises, Unwind, JoinWave,
         Abort, CancelRun, Cancel, vars
<1>4. RegisteredInv'
  BY <1>2, <1>3 DEF RegisteredInv, validation, Start
<1> QED BY <1>1, <1>2, <1>4

LEMMA StepKeeps == ASSUME IInv, [Next]_vars PROVE IInv' /\ Final
<1>1. CASE Validate BY <1>1, ValidateKeeps
<1>2. CASE Register BY <1>2, RegisterKeeps
<1>3. CASE Executor \/ Cancel \/ Start \/ UNCHANGED vars
  BY <1>3, RunStep, OthersKeep DEF IInv
<1> QED BY <1>1, <1>2, <1>3 DEF Next

THEOREM Invariance == Spec => []IInv
<1>1. Init => IInv BY InitRunsInv, InitDagInv DEF Init, IInv, RegisteredInv
<1>2. IInv /\ [Next]_vars => IInv' BY StepKeeps
<1> QED BY <1>1, <1>2, PTL DEF Spec

\* Every variable keeps its type; the graph of a run can always be ranked.
THEOREM TypeCorrect == Spec => []TypeOK
<1>1. IInv => TypeOK BY DEF IInv, DagInv, RunsInv, TypeOK
<1> QED BY <1>1, Invariance, PTL

\* Validation accepts a definition if and only if its names are distinct, its
\* references are known and its graph has no cycle.
THEOREM ValidationIsExact == Spec => []AcceptsExactlyDags
<1>1. IInv => AcceptsExactlyDags BY ExactValidation DEF IInv
<1> QED BY <1>1, Invariance, PTL

\* The tasks that a cycle error names lead to a cycle.
THEOREM CyclesAreReported == Spec => []CycleErrorLeadsToCycle
<1>1. IInv => CycleErrorLeadsToCycle BY CycleReports DEF IInv
<1> QED BY <1>1, Invariance, PTL

\* No handler starts, or starts again, before all the task's dependencies have
\* a final result that is not a failure.
THEOREM DependencySafety == Spec => []DependenciesFirst
<1>1. IInv => DependenciesFirst BY DEF IInv, RunsInv
<1> QED BY <1>1, Invariance, PTL

\* A pipeline whose graph can be ranked never ends as stalled.
THEOREM StallFreedom == Spec => []NeverStalls
<1>1. IInv => NeverStalls BY DEF IInv, RunsInv
<1> QED BY <1>1, Invariance, PTL

\* The status of a run that is over agrees with the statuses of its tasks.
THEOREM VerdictSafety == Spec => []VerdictAgreesWithTasks
<1>1. IInv => VerdictAgreesWithTasks BY DEF IInv, RunsInv
<1> QED BY <1>1, Invariance, PTL

\* No step overwrites the result of a finished task.
THEOREM FinalResults == Spec => ResultsAreFinal
<1>1. IInv /\ [Next]_vars
        => [\A t \in Tasks : status[t] \in Finished => status'[t] = status[t]]_vars
  BY StepKeeps DEF Final
<1> QED BY <1>1, Invariance, PTL DEF Spec, ResultsAreFinal

------------------------------------------------------------------------------
LEMMA HandlingFinite == IsFiniteSet(Handling) /\ Cardinality(Handling) \in Nat
<1>1. IsFiniteSet(Tasks)
  BY TaskGraphAssumption, FS_Interval DEF Tasks
<1>2. Handling \subseteq Tasks
  BY DEF Handling
<1> QED BY <1>1, <1>2, FS_Subset, FS_CardinalityType

\* Outside of a wave no coroutine is under way.
OverInv == ~Live => \A t \in Tasks : ~AtWork(t)

\* A wave is left only when all its children have ended; the tasks before it are
\* joined and those after it untouched.
LEMMA NobodyIsLeft ==
    ASSUME IInv, Live, \A t \in wave : child[t] = "finished"
    PROVE  \A t \in Tasks : child[t] \in {"none", "finished"}
BY DEF IInv, RunsInv, JoinedInv, LaterInv, Untouched

LEMMA OverStep ==
    ASSUME IInv, OverInv, [Next]_vars PROVE OverInv'
<1>1. child \in [Tasks -> {"none", "created", "waiting", "handling", "finished"}]
  BY DEF IInv, RunsInv, RunTypeOK
<1>2. SUFFICES ASSUME ~Live', NEW t \in Tasks PROVE child'[t] \in {"none", "finished"}
  BY DEF OverInv, AtWork
<1>3. ~Live => child[t] \in {"none", "finished"}
  BY <1>1 DEF OverInv, AtWork
<1>4. ASSUME NEW rest, ScheduleWave(rest) PROVE child' = child
  BY <1>2, <1>4 DEF ScheduleWave, Live
<1>5. CASE JoinWave
  <2>1. Live /\ child' = child
    BY <1>4, <1>5 DEF JoinWave, Live
  <2> QED BY <1>5, <2>1, NobodyIsLeft DEF JoinWave
<1>6. CASE CancelRun
  <2>1. Live /\ child' = child
    BY <1>6 DEF CancelRun, Live
  <2> QED BY <1>6, <2>1, NobodyIsLeft DEF CancelRun
<1>7. CASE Begin
  BY <1>3, <1>4, <1>7 DEF Begin, Live
<1>8. ASSUME NEW u \in Tasks,
             \/ StartTask(u) \/ Acquire(u) \/ HandlerRaises(u) \/ Unwind(u)
             \/ \E result \in {"succeeded", "failed"} : HandlerReturns(u, result)
      PROVE  Live'
  BY <1>8 DEF StartTask, Acquire, HandlerRaises, HandlerReturns, Unwind, run, Live
<1>9. CASE Abort \/ Cancel
  BY <1>2, <1>9 DEF Abort, Cancel, run, Live
<1>10. CASE Validate \/ Register \/ Start \/ UNCHANGED vars
  BY <1>2, <1>3, <1>10 DEF Validate, Register, Start, run, vars, Live
<1> QED BY <1>2, <1>5, <1>6, <1>7, <1>8, <1>9, <1>10 DEF Next, Executor

\* While a handler is at work the run is running and what depends on it waits,
\* however many waves, failures and cancellations there are.
THEOREM HandlerSafety == Spec => []HandlersEndFirst
<1>1. Init => OverInv
  BY DEF Init, OverInv, AtWork
<1>2. IInv /\ OverInv /\ [Next]_vars => OverInv'
  BY OverStep
<1>3. IInv /\ OverInv => HandlersEndFirst
  <2>1. SUFFICES ASSUME IInv, OverInv, NEW t \in Tasks, AtWork(t)
                 PROVE  /\ runStatus = "running"
                        /\ \A u \in Tasks : t \in deps[u] => status[u] = "pending" /\ ~AtWork(u)
    BY DEF HandlersEndFirst
  <2>2. Live
    BY <2>1 DEF OverInv
  <2>3. runStatus = "running"
    BY <2>1, <2>2 DEF IInv, RunsInv, RunInv
  <2>4. t \in pending
    BY <2>1, <2>2 DEF IInv, RunsInv, JoinedInv, AtWork
  <2>5. ASSUME NEW u \in Tasks, t \in deps[u] PROVE Untouched(u)
    <3>1. u \in pending \ wave
      BY <2>1, <2>2, <2>4, <2>5 DEF IInv, RunsInv, JoinedInv, WaveInv
    <3> QED BY <2>1, <2>2, <3>1 DEF IInv, RunsInv, LaterInv
  <2> QED BY <2>3, <2>5 DEF Untouched, AtWork
<1> QED BY <1>1, <1>2, <1>3, Invariance, PTL DEF Spec

------------------------------------------------------------------------------
\* Begin is the first step of a run seen from outside, also of an empty one.
LEMMA BeginFromOutside ==
    ASSUME IInv, Begin PROVE Outside!Next \/ UNCHANGED <<runStatus, cancelled>>
<1>1. deps \in Dags /\ runStatus = "pending" /\ cancelled' = cancelled
  BY DEF IInv, RunsInv, RunTypeOK, RunInv, Begin
<1>2. Ready(Tasks) # {}
  <2>1. 1 \in Tasks
    BY TaskGraphAssumption DEF Tasks
  <2> QED BY <1>1, <2>1, SomeTaskIsReady
<1>3. runStatus' = "running"
  <2>1. Tasks # {}
    BY TaskGraphAssumption DEF Tasks
  <2> QED BY <1>2, <2>1 DEF Begin, ScheduleWave
<1> QED BY <1>1, <1>3 DEF Outside!Next, Outside!Begin

\* A wave that is joined leads to the next one or ends the run by itself.
LEMMA JoinFromOutside ==
    ASSUME IInv, JoinWave PROVE Outside!Next \/ UNCHANGED <<runStatus, cancelled>>
<1>1. runStatus = "running" /\ ~cancelled /\ cancelled' = cancelled
  BY DEF IInv, RunsInv, RunInv, Live, JoinWave
<1>2. runStatus' \in {"running", "succeeded", "failed"}
  BY DEF JoinWave, ScheduleWave
<1> QED BY <1>1, <1>2 DEF Outside!Next, Outside!End

LEMMA StepFromOutside ==
    ASSUME IInv, [Next]_vars PROVE Outside!Next \/ UNCHANGED <<runStatus, cancelled>>
<1>1. CASE Begin BY <1>1, BeginFromOutside
<1>2. CASE JoinWave BY <1>2, JoinFromOutside
<1>3. CASE Cancel
  BY <1>3 DEF Cancel, run, IInv, RunsInv, RunInv, Live, Outside!Next, Outside!Cancel
<1>4. CASE CancelRun
  BY <1>4 DEF CancelRun, IInv, RunsInv, RunInv, Live, Outside!Next, Outside!Abort
<1>5. CASE \/ \E t \in Tasks : \/ StartTask(t) \/ Acquire(t) \/ HandlerRaises(t) \/ Unwind(t)
                             \/ \E result \in {"succeeded", "failed"} : HandlerReturns(t, result)
           \/ Abort \/ Validate \/ Register \/ Start \/ UNCHANGED vars
  BY <1>5 DEF StartTask, Acquire, HandlerRaises, Unwind, HandlerReturns, Abort, Validate,
              Register, Start, vars, run
<1> QED BY <1>1, <1>2, <1>3, <1>4, <1>5 DEF Next, Executor

\* From outside every run is a PipelineRun: one end, never taken back, which
\* is "cancelled" only after somebody asked for it.
THEOREM RunRefinement == Spec => ImplementsRun
<1>1. Init => Outside!Init
  BY DEF Init, Outside!Init
<1>2. IInv /\ [Next]_vars => [Outside!Next]_<<runStatus, cancelled>>
  BY StepFromOutside
<1> QED BY <1>1, <1>2, Invariance, PTL DEF Spec, ImplementsRun, Outside!Spec, Outside!run
------------------------------------------------------------------------------
(***************************************************************************)
(* Why nothing goes on for ever: every step there is, of the validation,   *)
(* of the run or of who starts and cancels it, brings a definition or a    *)
(* coroutine further on a way that has no way back.  And why nothing       *)
(* stands still before its end: there is always somebody who can go on.    *)
(***************************************************************************)

\* The steps that a definition and its run can at most be away from their end,
RunSteps(s, p, c) ==
    (IF c THEN 0 ELSE 1)
    + (IF s = "names" THEN 8
       ELSE IF s = "references" THEN 7
       ELSE IF s = "visiting" THEN 6
       ELSE IF s = "done" THEN 5
       ELSE IF p = "none" THEN 4
       ELSE IF p = "created" THEN 3
       ELSE IF p = "joining" THEN 2
       ELSE IF p = "aborting" THEN 1 ELSE 0)

StepsOfRun == RunSteps(stage, phase, cancelled)

\* and those of a task: its visit, and the way of its coroutine, on which an
\* attempt is a step.
TaskSteps(s, r, c, a) ==
    (IF s # "registered" /\ r = 0 THEN 1 ELSE 0)
    + (IF c = "none" THEN RetryCount + 4
       ELSE IF c = "created" THEN RetryCount + 3
       ELSE IF c = "waiting" THEN RetryCount + 2
       ELSE IF c = "handling" THEN RetryCount + 2 - a ELSE 0)

StepsOf(t) == TaskSteps(stage, rank[t], child[t], attempt[t])

Ways == (0..NumTasks) \X (0..RetryCount + 9)

\* All of them together; 0 stands for the run.
StepsLeft == {w \in Ways : w[2] < IF w[1] = 0 THEN StepsOfRun ELSE StepsOf(w[1])}

Nearer ==
    /\ StepsOfRun' <= StepsOfRun
    /\ \A t \in Tasks : StepsOf(t)' <= StepsOf(t)
    /\ StepsOfRun' < StepsOfRun \/ \E t \in Tasks : StepsOf(t)' < StepsOf(t)

LEMMA StepsAreNumbers ==
    /\ \A s, p, c : RunSteps(s, p, c) \in 0..RetryCount + 9
    /\ \A s, r, c : \A a \in 0..RetryCount + 1 : TaskSteps(s, r, c, a) \in 0..RetryCount + 9
BY PipelineAssumption DEF RunSteps, TaskSteps

LEMMA WaysAreFinite ==
    /\ IsFiniteSet(Ways)
    /\ \A S \in SUBSET Ways : IsFiniteSet(S) /\ Cardinality(S) \in Nat
<1>1. NumTasks \in Nat /\ RetryCount \in Nat
  BY TaskGraphAssumption, PipelineAssumption
<1>2. IsFiniteSet(0..NumTasks) /\ IsFiniteSet(0..RetryCount + 9)
  BY <1>1, FS_Interval
<1>3. IsFiniteSet(Ways)
  BY <1>2, FS_Product DEF Ways
<1> QED BY <1>3, FS_Subset, FS_CardinalityType

\* Nearer by every single count is nearer by all of them together.
LEMMA NearerIsFewer ==
    ASSUME TypeOK, TypeOK', Nearer PROVE Cardinality(StepsLeft') < Cardinality(StepsLeft)
<1> DEFINE before(u) == IF u = 0 THEN StepsOfRun ELSE StepsOf(u)
           after(u) == IF u = 0 THEN StepsOfRun' ELSE StepsOf(u)'
<1>1. Tasks = 1..NumTasks /\ NumTasks \in Nat
  BY TaskGraphAssumption DEF Tasks
<1>2. /\ StepsOfRun \in 0..RetryCount + 9 /\ StepsOfRun' \in 0..RetryCount + 9
      /\ \A t \in Tasks : StepsOf(t) \in 0..RetryCount + 9 /\ StepsOf(t)' \in 0..RetryCount + 9
  <2>1. \A t \in Tasks :
          attempt[t] \in 0..RetryCount + 1 /\ attempt'[t] \in 0..RetryCount + 1
    BY DEF TypeOK, RunTypeOK
  <2> QED BY <2>1, StepsAreNumbers DEF StepsOfRun, StepsOf
<1>3. \A u \in 0..NumTasks :
        /\ before(u) \in 0..RetryCount + 9 /\ after(u) \in 0..RetryCount + 9
        /\ after(u) <= before(u)
  BY <1>1, <1>2 DEF Nearer
<1>4. \E u \in 0..NumTasks : after(u) < before(u)
  <2>1. CASE StepsOfRun' < StepsOfRun
    <3>1. 0 \in 0..NumTasks
      BY <1>1
    <3> QED BY <2>1, <3>1
  <2>2. CASE \E t \in Tasks : StepsOf(t)' < StepsOf(t)
    <3>1. PICK t \in Tasks : StepsOf(t)' < StepsOf(t)
      BY <2>2
    <3>2. t \in 0..NumTasks /\ t # 0
      BY <1>1
    <3> QED BY <3>1, <3>2
  <2> QED BY <2>1, <2>2 DEF Nearer
<1>5. /\ StepsLeft = {w \in Ways : w[2] < before(w[1])}
      /\ StepsLeft' = {w \in Ways : w[2] < after(w[1])}
  BY DEF StepsLeft, Ways
<1> HIDE DEF before, after
<1>6. RetryCount \in Nat
  BY PipelineAssumption
<1>7. \A w \in Ways : w[1] \in 0..NumTasks /\ w[2] \in 0..RetryCount + 9
  BY DEF Ways
<1>8. StepsLeft' \subseteq StepsLeft
  BY <1>3, <1>5, <1>6, <1>7
<1>9. StepsLeft' # StepsLeft
  <2>1. PICK u \in 0..NumTasks : after(u) < before(u)
    BY <1>4
  <2>2. <<u, after(u)>> \in Ways
    BY <1>3 DEF Ways
  <2>3. <<u, after(u)>> \in StepsLeft /\ ~(after(u) < after(u))
    BY <1>3, <1>5, <1>6, <2>1, <2>2
  <2> QED BY <1>5, <2>3
<1>10. /\ Cardinality(StepsLeft') <= Cardinality(StepsLeft)
       /\ Cardinality(StepsLeft') # Cardinality(StepsLeft)
  <2>1. StepsLeft \in SUBSET Ways
    BY <1>5
  <2>2. IsFiniteSet(StepsLeft)
    BY <2>1, WaysAreFinite
  <2> QED BY <1>8, <1>9, <2>2, FS_Subset
<1>11. Cardinality(StepsLeft') \in Nat /\ Cardinality(StepsLeft) \in Nat
  <2>1. StepsLeft \in SUBSET Ways /\ StepsLeft' \in SUBSET Ways
    BY <1>5
  <2> QED BY <2>1, WaysAreFinite
<1> QED BY <1>10, <1>11

------------------------------------------------------------------------------
\* A step of the run that leaves its tasks where they are, or sends some of
\* them further on; and a step of a task.
LEMMA RunIsNearer ==
    ASSUME StepsOfRun' < StepsOfRun, \A t \in Tasks : StepsOf(t)' <= StepsOf(t) PROVE Nearer
<1>1. StepsOfRun \in 0..RetryCount + 9 /\ StepsOfRun' \in 0..RetryCount + 9
  BY StepsAreNumbers DEF StepsOfRun
<1> QED BY <1>1, PipelineAssumption DEF Nearer

LEMMA TaskIsNearer ==
    ASSUME TypeOK, NEW t \in Tasks, UNCHANGED <<stage, phase, cancelled>>,
           StepsOf(t)' \in Nat, StepsOf(t)' < StepsOf(t),
           \A u \in Tasks \ {t} : UNCHANGED <<rank[u], child[u], attempt[u]>>
    PROVE  Nearer
<1>1. \A u \in Tasks : StepsOf(u) \in 0..RetryCount + 9
  BY StepsAreNumbers DEF TypeOK, RunTypeOK, StepsOf
<1>2. ASSUME NEW u \in Tasks \ {t} PROVE StepsOf(u)' = StepsOf(u)
  BY DEF StepsOf
<1>3. StepsOfRun' = StepsOfRun /\ StepsOfRun \in 0..RetryCount + 9
  BY StepsAreNumbers DEF StepsOfRun
<1>4. StepsOf(t)' <= StepsOf(t)
  BY <1>1, PipelineAssumption
<1> QED BY <1>1, <1>2, <1>3, <1>4, PipelineAssumption DEF Nearer

\* Tasks whose coroutines stay where they are, while the run goes on.
LEMMA TasksStay ==
    ASSUME TypeOK, UNCHANGED <<child, attempt>>,
           stage' = "registered" \/ (stage # "registered" /\ UNCHANGED rank)
    PROVE  \A t \in Tasks : StepsOf(t)' <= StepsOf(t)
<1> TAKE t \in Tasks
<1>1. attempt[t] \in 0..RetryCount + 1 /\ RetryCount \in Nat
  BY PipelineAssumption DEF TypeOK, RunTypeOK
<1> QED BY <1>1 DEF StepsOf, TaskSteps

LEMMA ValidateIsNearer == ASSUME IInv, Validate PROVE Nearer
<1>1. TypeOK /\ UNCHANGED <<phase, child, attempt, cancelled>>
  BY DEF Validate, run, IInv, DagInv, RunsInv, TypeOK
<1>2. CASE /\ UNCHANGED rank
           /\ \/ stage = "names" /\ stage' \in {"references", "done"}
              \/ stage = "references" /\ stage' \in {"visiting", "done"}
              \/ stage = "visiting" /\ stage' = "done"
  <2>1. StepsOfRun' < StepsOfRun
    BY <1>1, <1>2 DEF StepsOfRun, RunSteps
  <2>2. \A t \in Tasks : StepsOf(t)' <= StepsOf(t)
    BY <1>1, <1>2, TasksStay
  <2> QED BY <2>1, <2>2, RunIsNearer
<1>3. ASSUME NEW t \in Tasks, Visit(t) PROVE Nearer
  <2>1. /\ stage = "visiting" /\ UNCHANGED stage /\ t \in ready /\ visited \in Nat
        /\ rank' = [rank EXCEPT ![t] = visited + 1] /\ rank \in [Tasks -> 0..NumTasks]
    BY <1>3 DEF Visit, IInv, DagInv, ValidationTypeOK
  <2>2. rank[t] = 0
    BY <2>1, TaskGraphAssumption DEF IInv, DagInv, LoopInv, Looping, Visited
  <2>3. rank'[t] # 0 /\ \A u \in Tasks \ {t} : rank'[u] = rank[u]
    BY <2>1
  <2>4. StepsOf(t)' \in Nat /\ StepsOf(t)' < StepsOf(t)
    <3>1. attempt[t] \in 0..RetryCount + 1 /\ RetryCount \in Nat
      BY <1>1, PipelineAssumption DEF TypeOK, RunTypeOK
    <3> QED BY <1>1, <2>1, <2>2, <2>3, <3>1 DEF StepsOf, TaskSteps
  <2> QED BY <1>1, <2>1, <2>3, <2>4, TaskIsNearer
<1> QED BY <1>2, <1>3
        DEF Validate, Validation, CheckNames, CheckReferences, CheckVisited, Conclude

\* The steps of the run as a whole.
LEMMA PhaseIsNearer ==
    ASSUME IInv, Register \/ Start \/ Abort \/ CancelRun \/ Cancel PROVE Nearer
<1>1. TypeOK /\ UNCHANGED <<child, attempt>>
  BY DEF Register, Start, Abort, CancelRun, Cancel, IInv, DagInv, RunsInv, TypeOK
<1>2. StepsOfRun' < StepsOfRun
  <2>1. CASE Register
    BY <2>1 DEF Register, run, IInv, RegisteredInv, StepsOfRun, RunSteps
  <2>2. CASE Start \/ Abort \/ CancelRun \/ Cancel
    <3>1. UNCHANGED stage /\ stage = "registered"
      BY <2>2 DEF Start, Abort, CancelRun, Cancel, definition, validation, IInv, RegisteredInv
    <3> QED BY <2>2, <3>1 DEF Start, Abort, CancelRun, Cancel, run, StepsOfRun, RunSteps
  <2> QED BY <2>1, <2>2
<1>3. stage' = "registered"
  BY DEF Register, Start, Abort, CancelRun, Cancel, definition, validation, IInv, RegisteredInv
<1> QED BY <1>1, <1>2, <1>3, TasksStay, RunIsNearer

\* The coroutine of one task goes on.
LEMMA CoroutineIsNearer ==
    ASSUME IInv, NEW t \in Tasks,
           \/ StartTask(t) \/ Acquire(t) \/ HandlerRaises(t) \/ Unwind(t)
           \/ \E result \in {"succeeded", "failed"} : HandlerReturns(t, result)
    PROVE  Nearer
<1>1. /\ TypeOK /\ UNCHANGED <<stage, rank, phase, cancelled>>
      /\ child \in [Tasks -> {"none", "created", "waiting", "handling", "finished"}]
      /\ attempt \in [Tasks -> 0..RetryCount + 1]
  BY DEF StartTask, Acquire, HandlerRaises, Unwind, HandlerReturns, definition, validation, run,
         IInv, DagInv, RunsInv, TypeOK, RunTypeOK
<1>2. RetryCount \in Nat /\ attempt[t] \in 0..RetryCount + 1
  BY <1>1, PipelineAssumption
<1>3. /\ \A u \in Tasks \ {t} : UNCHANGED <<child[u], attempt[u]>>
      /\ \/ child[t] = "created" /\ child'[t] \in {"waiting", "finished"}
         \/ child[t] = "waiting" /\ child'[t] = "handling" /\ attempt'[t] = 1
         \/ child[t] = "handling" /\ child'[t] = "handling" /\ attempt'[t] = attempt[t] + 1
         \/ child[t] \in {"created", "waiting", "handling"} /\ child'[t] = "finished"
  BY <1>1 DEF StartTask, Acquire, HandlerRaises, Unwind, HandlerReturns, Finish
<1>4. StepsOf(t)' \in Nat /\ StepsOf(t)' < StepsOf(t)
  BY <1>1, <1>2, <1>3 DEF StepsOf, TaskSteps
<1> QED BY <1>1, <1>3, <1>4, TaskIsNearer

\* Another wave: the tasks in it have not been touched before.
LEMMA ScheduleIsNearer ==
    ASSUME IInv, NEW rest, rest \subseteq Tasks, ScheduleWave(rest),
           phase \in {"created", "joining"}, UNCHANGED <<stage, rank, attempt, cancelled>>,
           \A t \in rest : child[t] = "none"
    PROVE  Nearer
<1>1. /\ TypeOK /\ deps \in Dags /\ RetryCount \in Nat
      /\ stage = "registered"
  BY PipelineAssumption DEF IInv, DagInv, RunsInv, TypeOK, RunTypeOK, RegisteredInv
<1>2. CASE rest = {}
  <2>1. phase' = "done" /\ UNCHANGED child
    BY <1>2 DEF ScheduleWave
  <2>2. StepsOfRun' < StepsOfRun
    BY <1>1, <2>1 DEF StepsOfRun, RunSteps
  <2> QED BY <1>1, <2>1, <2>2, TasksStay, RunIsNearer
<1>3. CASE rest # {}
  <2>1. /\ Ready(rest) # {} /\ Ready(rest) \subseteq rest
        /\ phase' = "joining"
        /\ child' = [t \in Tasks |-> IF t \in Ready(rest) THEN "created" ELSE child[t]]
    BY <1>1, <1>3, SomeTaskIsReady DEF ScheduleWave, Ready
  <2>2. StepsOfRun' <= StepsOfRun
    BY <1>1, <2>1 DEF StepsOfRun, RunSteps
  <2>3. ASSUME NEW t \in Ready(rest) PROVE t \in Tasks /\ StepsOf(t)' < StepsOf(t)
    <3>1. t \in Tasks /\ child[t] = "none" /\ child'[t] = "created"
      BY <2>1
    <3> QED BY <1>1, <3>1 DEF StepsOf, TaskSteps
  <2>4. ASSUME NEW t \in Tasks \ Ready(rest) PROVE StepsOf(t)' = StepsOf(t)
    BY <2>1 DEF StepsOf
  <2>5. \A t \in Tasks : StepsOf(t) \in 0..RetryCount + 9 /\ StepsOf(t)' \in 0..RetryCount + 9
    <3>1. \A t \in Tasks : attempt[t] \in 0..RetryCount + 1 /\ attempt'[t] \in 0..RetryCount + 1
      BY <1>1 DEF TypeOK, RunTypeOK
    <3> QED BY <3>1, StepsAreNumbers DEF StepsOf
  <2>6. \A t \in Tasks : StepsOf(t)' <= StepsOf(t)
    BY <1>1, <2>3, <2>4, <2>5
  <2> QED BY <2>1, <2>2, <2>3, <2>6 DEF Nearer
<1> QED BY <1>2, <1>3

LEMMA WaveIsNearer == ASSUME IInv, Begin \/ JoinWave PROVE Nearer
<1>1. TypeOK /\ UNCHANGED <<stage, rank, attempt, cancelled>>
  BY DEF Begin, JoinWave, definition, validation, IInv, DagInv, RunsInv, TypeOK
<1>2. CASE Begin
  <2>1. phase = "created" /\ ScheduleWave(Tasks) /\ \A t \in Tasks : child[t] = "none"
    BY <1>2 DEF Begin, IInv, RunsInv, StartInv
  <2> QED BY <1>1, <2>1, ScheduleIsNearer
<1>3. CASE JoinWave /\ {t \in wave : status[t] = "failed"} = {}
  <2>1. /\ phase = "joining" /\ ScheduleWave(pending \ wave) /\ pending \ wave \subseteq Tasks
        /\ \A t \in pending \ wave : child[t] = "none"
    BY <1>1, <1>3 DEF JoinWave, IInv, RunsInv, LaterInv, Live, Untouched, TypeOK, RunTypeOK
  <2> QED BY <1>1, <2>1, ScheduleIsNearer
<1>4. CASE JoinWave /\ {t \in wave : status[t] = "failed"} # {}
  <2>1. phase = "joining" /\ phase' = "done" /\ UNCHANGED child /\ stage = "registered"
    BY <1>4 DEF JoinWave, IInv, RegisteredInv
  <2>2. StepsOfRun' < StepsOfRun
    BY <1>1, <2>1 DEF StepsOfRun, RunSteps
  <2> QED BY <1>1, <2>1, <2>2, TasksStay, RunIsNearer
<1> QED BY <1>2, <1>3, <1>4

\* Every step of a definition and its run takes it nearer to its end: there are
\* at most as many steps as there are to begin with, which is finite, however
\* tasks are retried or cancelled.
THEOREM NothingGoesOnForEver ==
    Spec => [][Cardinality(StepsLeft') < Cardinality(StepsLeft)]_vars
<1>1. IInv /\ IInv' /\ [Next]_vars => [Cardinality(StepsLeft') < Cardinality(StepsLeft)]_vars
  <2>1. SUFFICES ASSUME IInv, IInv', Next PROVE Cardinality(StepsLeft') < Cardinality(StepsLeft)
    OBVIOUS
  <2>2. TypeOK /\ TypeOK'
    BY <2>1 DEF IInv, DagInv, RunsInv, TypeOK
  <2>3. Nearer
    BY <2>1, ValidateIsNearer, PhaseIsNearer, CoroutineIsNearer, WaveIsNearer DEF Next, Executor
  <2> QED BY <2>2, <2>3, NearerIsFewer
<1> QED BY <1>1, Invariance, PTL DEF Spec

\* The guards of the steps of Validation and Executor, at the places where
\* something has to be found or waited for: the first task at fault, the least
\* ready name, a child that can go on or all of them finished, the first
\* failure of the wave.
SomebodyCanGoOn ==
    LET faulty == {t \in Tasks : Missing(t) \/ OnItself(t)}
        failures == {t \in wave : status[t] = "failed"}
    IN /\ stage = "references" => faulty = {} \/ \E t \in faulty : \A u \in faulty : t <= u
       /\ stage = "visiting" => ready = {} \/ \E t \in ready : \A u \in ready : names[t] <= names[u]
       /\ phase = "joining" =>
            \/ cancelled
            \/ \E t \in Tasks : child[t] \in {"created", "handling"}
            \/ \E t \in Tasks : child[t] = "waiting" /\ Cardinality(Handling) < MaxParallel
            \/ /\ \A t \in wave : child[t] = "finished"
               /\ failures = {} \/ \E t \in failures : \A u \in failures : t <= u
       /\ phase = "aborting" =>
            \/ \E t \in Tasks : child[t] \in {"created", "waiting", "handling"}
            \/ \A t \in wave : child[t] = "finished"

LEMMA SomeTaskIsFirst ==
    ASSUME NEW S, S \subseteq Tasks
    PROVE  S = {} \/ \E t \in S : \A u \in S : t <= u
<1>1. S \subseteq Nat
  BY TaskGraphAssumption DEF Tasks
<1> QED BY <1>1, NatMin

LEMMA SomeNameIsLeast ==
    ASSUME DagInv, stage = "visiting"
    PROVE  ready = {} \/ \E t \in ready : \A u \in ready : names[t] <= names[u]
<1> DEFINE N == {names[t] : t \in ready}
<1>1. ready \subseteq Tasks /\ \A t \in Tasks : names[t] \in Nat
  <2>1. names \in [Tasks -> Names \cup {NoName}] /\ ready \subseteq Tasks
    BY DEF DagInv, ValidationTypeOK
  <2>2. Names \cup {NoName} \subseteq Nat
    BY NamesAssumption DEF NoName
  <2> QED BY <2>1, <2>2
<1>2. N \subseteq Nat
  BY <1>1
<1>3. CASE ready # {}
  <2>1. PICK n \in N : \A m \in N : n <= m
    <3>1. N # {}
      BY <1>3
    <3> HIDE DEF N
    <3> QED BY <1>2, <3>1, NatMin
  <2>2. PICK t \in ready : n = names[t]
    BY <2>1
  <2> QED BY <2>1, <2>2
<1> QED BY <1>3

\* A child that has neither finished nor got a permit waits for one that holds
\* a permit, which can go on.
LEMMA SomeChildCanGoOn ==
    ASSUME IInv, Live, NEW t \in wave, child[t] # "finished"
    PROVE  \/ \E u \in Tasks : child[u] \in {"created", "handling"}
           \/ child[t] = "waiting" /\ Cardinality(Handling) < MaxParallel
<1>1. t \in Tasks /\ child[t] \in {"created", "waiting", "handling"}
  BY DEF IInv, RunsInv, WaveInv, RunTypeOK
<1>2. CASE child[t] = "waiting" /\ ~(Cardinality(Handling) < MaxParallel)
  <2>1. Handling # {}
    BY <1>2, HandlingFinite, PipelineAssumption, FS_EmptySet
  <2> QED BY <2>1 DEF Handling
<1> QED BY <1>1, <1>2

\* The validation and the run never stand still before their end: with at least
\* one permit no wave waits for itself, and what the loops look for is there.
THEOREM NothingStandsStill == Spec => []SomebodyCanGoOn
<1>1. IInv => SomebodyCanGoOn
  <2>1. SUFFICES ASSUME IInv PROVE SomebodyCanGoOn
    OBVIOUS
  <2>2. ASSUME NEW S, S \subseteq Tasks PROVE S = {} \/ \E t \in S : \A u \in S : t <= u
    BY <2>2, SomeTaskIsFirst
  <2>3. wave \subseteq Tasks
    BY <2>1 DEF IInv, RunsInv, RunTypeOK
  <2>4. /\ {t \in Tasks : Missing(t) \/ OnItself(t)} \subseteq Tasks
        /\ {t \in wave : status[t] = "failed"} \subseteq Tasks
    BY <2>3
  <2>5. stage = "visiting" =>
          ready = {} \/ \E t \in ready : \A u \in ready : names[t] <= names[u]
    BY <2>1, SomeNameIsLeast DEF IInv
  <2>6. ASSUME Live
        PROVE  \/ \E t \in Tasks : child[t] \in {"created", "handling"}
               \/ \E t \in Tasks : child[t] = "waiting" /\ Cardinality(Handling) < MaxParallel
               \/ \A t \in wave : child[t] = "finished"
    BY <2>1, <2>3, <2>6, SomeChildCanGoOn
  <2> QED BY <2>2, <2>4, <2>5, <2>6 DEF SomebodyCanGoOn, Live
<1> QED BY <1>1, Invariance, PTL
===============================================================================
