------------------------------ MODULE PipelineDag ------------------------------
(***************************************************************************)
(* The validation of a pipeline definition's task graph: validate_dag and  *)
(* _assert_acyclic of app/services/pipelines/models.py, which run when a   *)
(* definition is loaded.  The loop that takes the graph apart is modelled  *)
(* round by round.                                                         *)
(*                                                                         *)
(* The module has no specification of its own: PipelineExecutor goes on    *)
(* with the definitions that are accepted.                                 *)
(*                                                                         *)
(* The dict `remaining` is keyed by position instead of by name, which is  *)
(* the same once the names are known to be distinct.  A name enters the    *)
(* sorted list `ready` when its last dependency is removed, so at most     *)
(* once: the list is a set from which the least name is popped.            *)
(***************************************************************************)
EXTENDS TaskGraph, FiniteSets

CONSTANT Names  \* the names a task may have or refer to, in their sort order

ASSUME NamesAssumption == Names \subseteq Nat \ {0}

NoName == 0

VARIABLES names,      \* name of each task,
          dependsOn,  \*   and its depends_on, of the definition
          stage,      \* where validate_dag is
          verdict,    \* how it ended
          remaining,  \* _assert_acyclic: the dependencies not yet completed
          ready,      \*   the tasks that have none left and are not visited
          visited,    \*   the number of visited tasks
          rank        \* history: the round in which a task was visited, or 0

validation == <<names, dependsOn, stage, verdict, remaining, ready, visited, rank>>

Verdicts == {"none", "duplicate", "unknown", "self", "cycle", "accepted"}

ValidationInit ==
    /\ names \in [Tasks -> Names]
    /\ dependsOn \in [Tasks -> SUBSET Names]
    /\ stage = "names"
    /\ verdict = "none"
    /\ remaining = [t \in Tasks |-> {}]
    /\ ready = {}
    /\ visited = 0
    /\ rank = [t \in Tasks |-> 0]

------------------------------------------------------------------------------
Distinct == \A t, u \in Tasks : names[t] = names[u] => t = u

Missing(t) == \E n \in dependsOn[t] : \A u \in Tasks : names[u] # n

OnItself(t) == names[t] \in dependsOn[t]

Conclude(v) ==
    /\ stage' = "done" /\ verdict' = v
    /\ UNCHANGED <<names, dependsOn, remaining, ready, visited, rank>>

CheckNames ==
    /\ stage = "names"
    /\ IF Distinct
       THEN /\ stage' = "references"
            /\ UNCHANGED <<names, dependsOn, verdict, remaining, ready, visited, rank>>
       ELSE Conclude("duplicate")

\* The first task at fault decides the error; without one the loop is set up.
CheckReferences ==
    /\ stage = "references"
    /\ LET faulty == {t \in Tasks : Missing(t) \/ OnItself(t)} IN
       IF faulty = {}
       THEN /\ stage' = "visiting"
            /\ remaining' = dependsOn
            /\ ready' = {t \in Tasks : dependsOn[t] = {}}
            /\ UNCHANGED <<names, dependsOn, verdict, visited, rank>>
       ELSE \E t \in faulty :
              /\ \A u \in faulty : t <= u
              /\ Conclude(IF Missing(t) THEN "unknown" ELSE "self")

\* Variant: a dependency that is removed need not be the last one.
VisitEager(t) ==
    /\ stage = "visiting" /\ t \in ready
    /\ \A u \in ready : names[t] <= names[u]
    /\ remaining' = [u \in Tasks |-> remaining[u] \ {names[t]}]
    /\ ready' = (ready \ {t}) \cup {u \in Tasks : names[t] \in remaining[u]}
    /\ visited' = visited + 1
    /\ rank' = [rank EXCEPT ![t] = visited + 1]
    /\ UNCHANGED <<names, dependsOn, stage, verdict>>

\* Variant: whatever has no dependencies left is ready again.
VisitAgain(t) ==
    /\ stage = "visiting" /\ t \in ready
    /\ \A u \in ready : names[t] <= names[u]
    /\ remaining' = [u \in Tasks |-> remaining[u] \ {names[t]}]
    /\ ready' = {u \in Tasks : remaining[u] \subseteq {names[t]}}
    /\ visited' = IF visited < NumTasks THEN visited + 1 ELSE visited
    /\ rank' = [rank EXCEPT ![t] = visited']
    /\ UNCHANGED <<names, dependsOn, stage, verdict>>

\* One round of the loop: the least ready name is completed.
Visit(t) ==
    /\ stage = "visiting" /\ t \in ready
    /\ \A u \in ready : names[t] <= names[u]
    /\ remaining' = [u \in Tasks |-> remaining[u] \ {names[t]}]
    /\ ready' = (ready \ {t}) \cup
                {u \in Tasks : names[t] \in remaining[u] /\ remaining[u] \subseteq {names[t]}}
    /\ visited' = visited + 1
    /\ rank' = [rank EXCEPT ![t] = visited + 1]
    /\ UNCHANGED <<names, dependsOn, stage, verdict>>

\* Variant: any visit at all is enough.
CheckVisitedAny ==
    /\ stage = "visiting" /\ ready = {}
    /\ Conclude(IF visited > 0 THEN "accepted" ELSE "cycle")

\* The loop has ended: were all tasks visited?
CheckVisited ==
    /\ stage = "visiting" /\ ready = {}
    /\ Conclude(IF visited = NumTasks THEN "accepted" ELSE "cycle")

Validation ==
    \/ CheckNames
    \/ CheckReferences
    \/ \E t \in Tasks : Visit(t)
    \/ CheckVisited

------------------------------------------------------------------------------
\* Variables range over what the definition and the loop can hold.
ValidationTypeOK ==
    /\ names \in [Tasks -> Names \cup {NoName}]
    /\ dependsOn \in [Tasks -> SUBSET Names]
    /\ stage \in {"names", "references", "visiting", "done", "registered"}
    /\ verdict \in Verdicts
    /\ remaining \in [Tasks -> SUBSET Names]
    /\ ready \subseteq Tasks
    /\ visited \in 0..NumTasks
    /\ rank \in [Tasks -> 0..NumTasks]

\* The graph of the definition over the positions of its tasks.
Graph == [t \in Tasks |-> {u \in Tasks : names[u] \in dependsOn[t]}]

\* A definition is accepted if and only if its names are distinct, it refers
\* only to its own tasks and its graph has no cycle (models.py:54-105): the
\* executor may rely on Dags.
AcceptsExactlyDags ==
    stage = "done" =>
      (verdict = "accepted" <=>
         Distinct /\ (\A t \in Tasks : ~Missing(t)) /\ Graph \in Dags)

\* The tasks a cycle error names (models.py:99-105).
Involved == {t \in Tasks : remaining[t] # {}}

\* A cycle error names at least one task, and with each task one that it
\* depends on: somebody who follows the names comes round to a cycle.
CycleErrorLeadsToCycle ==
    verdict = "cycle" =>
      /\ Involved # {}
      /\ \A t \in Involved : Graph[t] \cap Involved # {}
===============================================================================
