------------------------------- MODULE TaskGraph -------------------------------
(***************************************************************************)
(* The task graphs of pipelines: what the validation of a definition       *)
(* (PipelineDag) promises and the executor of its runs (PipelineExecutor)  *)
(* relies on.  Tasks are numbered by their position in the definition.     *)
(***************************************************************************)
EXTENDS Naturals

CONSTANT NumTasks  \* number of tasks of the pipeline

\* min_length=1 of PipelineDefinition.tasks
ASSUME TaskGraphAssumption == NumTasks \in Nat \ {0}

Tasks == 1..NumTasks

\* A graph has no cycle if and only if its tasks can be ranked so that each
\* depends only on lower ranks.
Dags == {d \in [Tasks -> SUBSET Tasks] :
           \E rank \in [Tasks -> Tasks] :
             \A t \in Tasks : \A u \in d[t] : rank[u] < rank[t]}
===============================================================================
