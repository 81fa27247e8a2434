--------------------------- MODULE PipelineDag_proof ---------------------------
(***************************************************************************)
(* Proof that validation accepts exactly the graphs without a cycle, for   *)
(* every number of tasks: the rounds in which the tasks are visited rank   *)
(* an accepted graph, and of a graph that can be ranked some unvisited     *)
(* task is always ready.                                                   *)
(***************************************************************************)
EXTENDS PipelineDag, FiniteSetTheorems, WellFoundedInduction, TLAPS

LEMMA NatMin ==
    ASSUME NEW S, S \subseteq Nat, S # {}
    PROVE  \E x \in S : \A y \in S : x <= y
<1> DEFINE R == OpToRel(<, Nat)
<1>1. \E x \in S : \A y \in S : ~(<<y, x>> \in R)
  <2> HIDE DEF R
  <2>1. IsWellFoundedOn(R, Nat) BY NatLessThanWellFounded DEF R
  <2> QED BY <2>1, WFMin
<1>2. PICK x \in S : \A y \in S : ~(<<y, x>> \in R) BY <1>1
<1>3. ASSUME NEW y \in S PROVE x <= y
  <2>1. x \in Nat /\ y \in Nat OBVIOUS
  <2>2. ~(y < x)
    <3>1. SUFFICES ASSUME y < x PROVE <<y, x>> \in R BY <1>2
    <3> QED BY <2>1, <3>1 DEF OpToRel
  <2> QED BY <2>1, <2>2
<1> QED BY <1>3

\* Among any tasks left there is one that waits for none of them: the one of
\* least rank.
THEOREM SomeTaskIsFree ==
    ASSUME NEW d \in Dags, NEW rest, rest \subseteq Tasks, rest # {}
    PROVE  \E t \in rest : d[t] \cap rest = {}
<1>1. PICK level \in [Tasks -> Tasks] :
        \A t \in Tasks : \A u \in d[t] : level[u] < level[t]
  BY DEF Dags
<1> DEFINE Ranks == {level[t] : t \in rest}
<1>2. Ranks \subseteq Nat /\ Ranks # {}
  <2>1. Tasks \subseteq Nat
    BY TaskGraphAssumption DEF Tasks
  <2>2. \A t \in rest : level[t] \in Tasks
    BY <1>1
  <2> QED BY <2>1, <2>2
<1>3. PICK n \in Ranks : \A m \in Ranks : n <= m
  <2> HIDE DEF Ranks
  <2> QED BY <1>2, NatMin
<1>4. PICK t \in rest : n = level[t]
  BY <1>3
<1>5. ASSUME NEW u \in d[t] \cap rest PROVE FALSE
  <2>1. t \in Tasks /\ u \in d[t] /\ level[u] \in Ranks
    OBVIOUS
  <2>2. level[u] < n /\ n <= level[u]
    BY <1>1, <1>3, <1>4, <2>1
  <2>3. n \in Nat /\ level[u] \in Nat
    <3> HIDE DEF Ranks
    <3> QED BY <1>2, <1>3, <2>1
  <2> QED BY <2>2, <2>3
<1> QED BY <1>4, <1>5

------------------------------------------------------------------------------

Visited == {t \in Tasks : rank[t] > 0}

Looping == stage = "visiting" \/ verdict \in {"cycle", "accepted"}

\* The references a loop that has started can rely on.
CheckedInv ==
    /\ stage \in {"references", "visiting"} => Distinct /\ verdict = "none"
    /\ stage \in {"names", "registered"} => verdict = "none"
    /\ Looping => Distinct /\ \A t \in Tasks : ~Missing(t)
    /\ ~Looping => visited = 0 /\ rank = [t \in Tasks |-> 0]

\* What the loop has done so far.
LoopInv ==
    Looping =>
      /\ remaining = [t \in Tasks |-> {n \in dependsOn[t] : \A u \in Visited : names[u] # n}]
      /\ ready = {t \in Tasks : remaining[t] = {}} \ Visited
      /\ visited = Cardinality(Visited)
      /\ \A t \in Visited : rank[t] <= visited
      /\ \A t \in Visited : \A u \in Graph[t] : u \in Visited /\ rank[u] < rank[t]

\* How a validation that is over ended.
EndInv ==
    /\ stage = "done" => verdict # "none"
    /\ verdict = "duplicate" => ~Distinct
    /\ verdict = "unknown" => \E t \in Tasks : Missing(t)
    /\ verdict = "self" => \E t \in Tasks : OnItself(t)
    /\ verdict \in {"cycle", "accepted"} => ready = {}
    /\ verdict = "accepted" <=> stage = "done" /\ Looping /\ visited = NumTasks

DagInv == ValidationTypeOK /\ CheckedInv /\ LoopInv /\ EndInv

------------------------------------------------------------------------------
LEMMA VisitedFinite ==
    /\ IsFiniteSet(Tasks) /\ Cardinality(Tasks) = NumTasks
    /\ IsFiniteSet(Visited) /\ Cardinality(Visited) \in 0..NumTasks
    /\ Cardinality(Visited) = NumTasks => Visited = Tasks
<1>1. IsFiniteSet(Tasks) /\ Cardinality(Tasks) = NumTasks
  BY TaskGraphAssumption, FS_Interval DEF Tasks
<1>2. Visited \in SUBSET Tasks
  BY DEF Visited
<1>3. /\ IsFiniteSet(Visited) /\ Cardinality(Visited) <= NumTasks
      /\ Cardinality(Visited) = NumTasks => Visited = Tasks
  BY <1>1, <1>2, FS_Subset
<1>4. Cardinality(Visited) \in Nat
  BY <1>3, FS_CardinalityType
<1> QED BY <1>1, <1>3, <1>4, TaskGraphAssumption

LEMMA InitDagInv == ASSUME ValidationInit PROVE DagInv
<1>1. ValidationTypeOK
  <2>1. 0 \in 0..NumTasks
    BY TaskGraphAssumption
  <2>2. rank \in [Tasks -> 0..NumTasks] /\ visited \in 0..NumTasks
    BY <2>1 DEF ValidationInit
  <2>3. remaining \in [Tasks -> SUBSET Names] /\ ready \subseteq Tasks
    BY DEF ValidationInit
  <2> QED BY <2>2, <2>3 DEF ValidationInit, ValidationTypeOK, Verdicts
<1> QED BY <1>1 DEF ValidationInit, DagInv, CheckedInv, LoopInv, EndInv, Looping

LEMMA ConcludeKeeps ==
    ASSUME DagInv, NEW v \in Verdicts, stage # "done", Conclude(v),
           v # "none",
           v = "duplicate" => ~Distinct,
           v = "unknown" => \E t \in Tasks : Missing(t),
           v = "self" => \E t \in Tasks : OnItself(t),
           v \in {"cycle", "accepted"} => stage = "visiting" /\ ready = {},
           v \notin {"cycle", "accepted"} => stage # "visiting",
           stage = "visiting" => (v = "accepted" <=> visited = NumTasks)
    PROVE  DagInv'
<1>1. /\ stage' = "done" /\ verdict' = v
      /\ UNCHANGED <<names, dependsOn, remaining, ready, visited, rank>>
  BY DEF Conclude
<1>2. verdict = "none" /\ (Looping <=> stage = "visiting")
  BY DEF DagInv, CheckedInv, EndInv, ValidationTypeOK, Looping
<1>3. Looping' <=> v \in {"cycle", "accepted"}
  BY <1>1 DEF Looping
<1>4. /\ Distinct' = Distinct /\ Visited' = Visited /\ Graph' = Graph
      /\ \A t \in Tasks : Missing(t)' = Missing(t) /\ OnItself(t)' = OnItself(t)
  BY <1>1 DEF Distinct, Visited, Graph, Missing, OnItself
<1>5. ValidationTypeOK'
  BY <1>1 DEF DagInv, ValidationTypeOK
<1>6. CheckedInv'
  BY <1>1, <1>2, <1>3, <1>4 DEF DagInv, CheckedInv
<1>7. LoopInv'
  BY <1>1, <1>2, <1>3, <1>4 DEF DagInv, LoopInv
<1>8. EndInv'
  BY <1>1, <1>2, <1>3, <1>4 DEF DagInv, EndInv
<1> QED BY <1>5, <1>6, <1>7, <1>8 DEF DagInv

LEMMA CheckNamesKeeps == ASSUME DagInv, CheckNames PROVE DagInv'
<1>1. CASE Distinct
  <2>1. /\ stage = "names" /\ stage' = "references"
        /\ UNCHANGED <<names, dependsOn, verdict, remaining, ready, visited, rank>>
    BY <1>1 DEF CheckNames
  <2> QED BY <1>1, <2>1 DEF DagInv, ValidationTypeOK, CheckedInv, LoopInv, EndInv, Looping, Distinct
<1>2. CASE ~Distinct
  <2>1. stage = "names" /\ Conclude("duplicate")
    BY <1>2 DEF CheckNames
  <2> QED BY <1>2, <2>1, ConcludeKeeps DEF Verdicts
<1> QED BY <1>1, <1>2

LEMMA CheckReferencesKeeps == ASSUME DagInv, CheckReferences PROVE DagInv'
<1> DEFINE faulty == {t \in Tasks : Missing(t) \/ OnItself(t)}
<1>1. stage = "references"
  BY DEF CheckReferences
<1>2. CASE faulty = {}
  <2>1. /\ stage' = "visiting" /\ remaining' = dependsOn
        /\ ready' = {t \in Tasks : dependsOn[t] = {}}
        /\ UNCHANGED <<names, dependsOn, verdict, visited, rank>>
    BY <1>2 DEF CheckReferences
  <2>2. ~Looping /\ Looping' /\ verdict = "none" /\ Distinct
    BY <1>1, <2>1 DEF DagInv, CheckedInv, Looping
  <2>3. Visited = {} /\ Visited' = {} /\ visited = 0
    BY <2>1, <2>2 DEF DagInv, CheckedInv, Visited
  <2>4. ValidationTypeOK'
    BY <2>1 DEF DagInv, ValidationTypeOK
  <2>5. CheckedInv'
    BY <1>2, <2>1, <2>2 DEF CheckedInv, Distinct, Missing
  <2>6. LoopInv'
    <3>1. dependsOn = [t \in Tasks |-> {n \in dependsOn[t] : \A u \in Visited : names[u] # n}]
      BY <2>3 DEF DagInv, ValidationTypeOK
    <3>2. visited = Cardinality(Visited)
      BY <2>3, FS_EmptySet
    <3> QED BY <2>1, <2>3, <3>1, <3>2 DEF LoopInv
  <2>7. EndInv'
    BY <2>1, <2>2 DEF EndInv
  <2> QED BY <2>4, <2>5, <2>6, <2>7 DEF DagInv
<1>3. CASE faulty # {}
  <2>1. PICK t \in faulty : Conclude(IF Missing(t) THEN "unknown" ELSE "self")
    BY <1>3 DEF CheckReferences
  <2>2. CASE Missing(t)
    BY <1>1, <2>1, <2>2, ConcludeKeeps DEF Verdicts
  <2>3. CASE ~Missing(t)
    BY <1>1, <2>1, <2>3, ConcludeKeeps DEF Verdicts
  <2> QED BY <2>2, <2>3
<1> QED BY <1>2, <1>3

LEMMA VisitKeeps == ASSUME DagInv, NEW t \in Tasks, Visit(t) PROVE DagInv'
<1> USE DEF DagInv
<1>1. /\ stage = "visiting" /\ stage' = stage /\ verdict' = verdict /\ verdict = "none"
      /\ names' = names /\ dependsOn' = dependsOn
      /\ t \in ready
      /\ visited' = visited + 1
  BY DEF Visit, CheckedInv
<1>2. /\ remaining' = [u \in Tasks |-> remaining[u] \ {names[t]}]
      /\ ready' = (ready \ {t}) \cup
           {u \in Tasks : names[t] \in remaining[u] /\ remaining[u] \subseteq {names[t]}}
      /\ rank' = [rank EXCEPT ![t] = visited + 1]
  BY DEF Visit
<1>3. Looping /\ Looping' /\ Distinct /\ \A u \in Tasks : ~Missing(u)
  BY <1>1 DEF Looping, CheckedInv
<1>4. /\ remaining = [u \in Tasks |-> {n \in dependsOn[u] : \A w \in Visited : names[w] # n}]
      /\ ready = {u \in Tasks : remaining[u] = {}} \ Visited
      /\ visited = Cardinality(Visited)
      /\ \A u \in Visited : rank[u] <= visited
      /\ \A u \in Visited : \A w \in Graph[u] : w \in Visited /\ rank[w] < rank[u]
  BY <1>3 DEF LoopInv
<1>5. visited \in Nat /\ rank \in [Tasks -> 0..NumTasks]
  BY TaskGraphAssumption DEF ValidationTypeOK
<1>6. /\ rank'[t] = visited + 1
      /\ \A u \in Tasks \ {t} : rank'[u] = rank[u]
  BY <1>2, <1>5
<1>7. t \notin Visited /\ remaining[t] = {}
  BY <1>1, <1>4
<1>8. Visited' = Visited \cup {t}
  BY <1>5, <1>6 DEF Visited
<1>9. visited' = Cardinality(Visited') /\ visited' \in 0..NumTasks
  <2>1. Cardinality(Visited \cup {t}) = Cardinality(Visited) + 1
    BY <1>7, VisitedFinite, FS_AddElement
  <2>2. Cardinality(Visited \cup {t}) <= NumTasks
    <3>1. Visited \cup {t} \in SUBSET Tasks
      BY DEF Visited
    <3> QED BY <3>1, VisitedFinite, FS_Subset
  <2> QED BY <1>1, <1>4, <1>5, <1>8, <2>1, <2>2, TaskGraphAssumption
<1>10. ValidationTypeOK'
  <2>1. rank' \in [Tasks -> 0..NumTasks]
    BY <1>1, <1>2, <1>5, <1>9
  <2>2. remaining' \in [Tasks -> SUBSET Names] /\ ready' \subseteq Tasks
    BY <1>2 DEF ValidationTypeOK
  <2> QED BY <1>1, <1>9, <2>1, <2>2 DEF ValidationTypeOK
<1>11. CheckedInv'
  BY <1>1, <1>3 DEF CheckedInv, Distinct, Missing
<1>12. remaining' = [u \in Tasks |-> {n \in dependsOn'[u] : \A w \in Visited' : names'[w] # n}]
  <2>1. \A u \in Tasks : remaining[u] \ {names[t]}
                          = {n \in dependsOn[u] : \A w \in Visited \cup {t} : names[w] # n}
    BY <1>4
  <2> QED BY <1>1, <1>2, <1>8, <2>1
<1>13. ready' = {u \in Tasks : remaining'[u] = {}} \ Visited'
  <2>1. \A u \in Tasks : remaining'[u] = remaining[u] \ {names[t]}
    BY <1>2
  <2>2. ASSUME NEW u \in Tasks PROVE u \in ready' <=> (remaining'[u] = {} /\ u \notin Visited')
    <3>1. CASE u = t
      BY <1>2, <1>7, <1>8, <3>1
    <3>2. CASE u # t /\ u \in Visited
      <4>1. u \notin ready
        BY <1>4, <3>2
      <4>2. remaining[u] = {}
        <5>1. SUFFICES ASSUME NEW n \in dependsOn[u], \A w \in Visited : names[w] # n
                       PROVE  FALSE
          BY <1>4
        <5>2. PICK w \in Tasks : names[w] = n
          BY <1>3 DEF Missing
        <5>3. w \in Graph[u]
          BY <5>2 DEF Graph
        <5> QED BY <1>4, <3>2, <5>1, <5>2, <5>3
      <4> QED BY <1>2, <1>8, <3>2, <4>1, <4>2
    <3>3. CASE u # t /\ u \notin Visited
      BY <1>2, <1>4, <1>8, <2>1, <3>3
    <3> QED BY <3>1, <3>2, <3>3
  <2>3. ready' \subseteq Tasks
    BY <1>10 DEF ValidationTypeOK
  <2> QED BY <2>2, <2>3
<1>14. \A u \in Visited' : rank'[u] <= visited'
  BY <1>1, <1>4, <1>5, <1>6, <1>8 DEF Visited
<1>15. \A u \in Visited' : \A w \in Graph'[u] : w \in Visited' /\ rank'[w] < rank'[u]
  <2>1. SUFFICES ASSUME NEW u \in Visited', NEW w \in Graph[u]
                 PROVE  w \in Visited' /\ rank'[w] < rank'[u]
    BY <1>1 DEF Graph
  <2>2. u \in Tasks /\ w \in Tasks /\ names[w] \in dependsOn[u]
    <3>1. u \in Tasks BY <1>8 DEF Visited
    <3> QED BY <3>1 DEF Graph
  <2>3. CASE u \in Visited
    <3>1. w \in Visited /\ rank[w] < rank[u] /\ u # t /\ w # t
      BY <1>4, <1>7, <2>3
    <3> QED BY <1>6, <1>8, <2>2, <3>1
  <2>4. CASE u = t
    <3>1. PICK x \in Visited : names[x] = names[w]
      BY <1>4, <1>7, <2>2, <2>4
    <3>2. w \in Visited
      BY <1>3, <2>2, <3>1 DEF Distinct, Visited
    <3>3. rank[w] <= visited /\ rank[w] \in Nat /\ w # t
      BY <1>4, <1>5, <1>7, <2>2, <3>2
    <3> QED BY <1>5, <1>6, <1>8, <2>2, <2>4, <3>2, <3>3
  <2> QED BY <1>8, <2>3, <2>4
<1>16. LoopInv'
  BY <1>9, <1>12, <1>13, <1>14, <1>15 DEF LoopInv
<1>17. EndInv'
  BY <1>1 DEF EndInv
<1> QED BY <1>10, <1>11, <1>16, <1>17

LEMMA ValidationKeeps == ASSUME DagInv, Validation PROVE DagInv'
<1>1. CASE CheckNames BY <1>1, CheckNamesKeeps
<1>2. CASE CheckReferences BY <1>2, CheckReferencesKeeps
<1>3. ASSUME NEW t \in Tasks, Visit(t) PROVE DagInv' BY <1>3, VisitKeeps
<1>4. CASE CheckVisited
  <2>1. /\ stage = "visiting" /\ ready = {}
        /\ Conclude(IF visited = NumTasks THEN "accepted" ELSE "cycle")
    BY <1>4 DEF CheckVisited
  <2>2. CASE visited = NumTasks
    BY <2>1, <2>2, ConcludeKeeps DEF Verdicts
  <2>3. CASE visited # NumTasks
    BY <2>1, <2>3, ConcludeKeeps DEF Verdicts
  <2> QED BY <2>2, <2>3
<1> QED BY <1>1, <1>2, <1>3, <1>4 DEF Validation

LEMMA OthersKeep == ASSUME DagInv, UNCHANGED validation PROVE DagInv'
BY DEF validation, DagInv, ValidationTypeOK, CheckedInv, LoopInv, EndInv, Looping, Visited,
       Distinct, Missing, OnItself, Graph

------------------------------------------------------------------------------
LEMMA UnvisitedWait ==
    ASSUME DagInv, Looping, ready = {}, NEW t \in Tasks, t \notin Visited
    PROVE  \E u \in Graph[t] : u \notin Visited /\ names[u] \in remaining[t]
<1>1. remaining[t] # {} /\ remaining[t] = {n \in dependsOn[t] : \A w \in Visited : names[w] # n}
  BY DEF DagInv, LoopInv
<1>2. PICK n \in dependsOn[t] : n \in remaining[t] /\ \A w \in Visited : names[w] # n
  BY <1>1
<1>3. PICK u \in Tasks : names[u] = n
  BY <1>2 DEF DagInv, CheckedInv, Missing
<1> QED BY <1>2, <1>3 DEF Graph

\* The rounds of the visits rank the graph of an accepted definition.
LEMMA AcceptedIsDag ==
    ASSUME DagInv, verdict = "accepted" PROVE Graph \in Dags
<1>1. Looping /\ visited = NumTasks
  BY DEF DagInv, EndInv
<1>2. Visited = Tasks
  BY <1>1, VisitedFinite DEF DagInv, LoopInv
<1>3. rank \in [Tasks -> Tasks]
  BY <1>2, TaskGraphAssumption DEF DagInv, ValidationTypeOK, Visited, Tasks
<1>4. \A t \in Tasks : \A u \in Graph[t] : rank[u] < rank[t]
  BY <1>1, <1>2 DEF DagInv, LoopInv
<1>5. Graph \in [Tasks -> SUBSET Tasks]
  BY DEF Graph
<1> QED BY <1>3, <1>4, <1>5 DEF Dags

\* The loop visits every task of a graph that can be ranked.
LEMMA DagIsVisited ==
    ASSUME DagInv, Looping, ready = {}, Graph \in Dags PROVE visited = NumTasks
<1>1. Visited = Tasks
  <2>1. SUFFICES ASSUME Tasks \ Visited # {} PROVE FALSE
    BY DEF Visited
  <2>2. PICK t \in Tasks \ Visited : Graph[t] \cap (Tasks \ Visited) = {}
    BY <2>1, SomeTaskIsFree
  <2> QED BY <2>2, UnvisitedWait DEF Graph
<1> QED BY <1>1, VisitedFinite DEF DagInv, LoopInv

\* Validation accepts a definition if and only if its names are distinct, its
\* references are known and its graph has no cycle.
LEMMA ExactValidation == ASSUME DagInv PROVE AcceptsExactlyDags
<1>1. SUFFICES ASSUME stage = "done"
               PROVE  verdict = "accepted" <=>
                        Distinct /\ (\A t \in Tasks : ~Missing(t)) /\ Graph \in Dags
  BY DEF AcceptsExactlyDags
<1>2. ASSUME verdict = "accepted"
      PROVE  Distinct /\ (\A t \in Tasks : ~Missing(t)) /\ Graph \in Dags
  BY <1>1, <1>2, AcceptedIsDag DEF DagInv, CheckedInv, EndInv
<1>3. ASSUME Distinct, \A t \in Tasks : ~Missing(t), Graph \in Dags
      PROVE  verdict = "accepted"
  <2>1. \A t \in Tasks : ~OnItself(t)
    <3>1. SUFFICES ASSUME NEW t \in Tasks, OnItself(t) PROVE FALSE
      OBVIOUS
    <3>2. t \in Graph[t]
      BY <3>1 DEF Graph, OnItself
    <3>3. PICK r \in [Tasks -> Tasks] :
            \A v \in Tasks : \A u \in Graph[v] : r[u] < r[v]
      BY <1>3 DEF Dags
    <3>4. r[t] < r[t] /\ r[t] \in Tasks
      BY <3>2, <3>3
    <3> QED BY <3>4, TaskGraphAssumption DEF Tasks
  <2>2. verdict \in {"cycle", "accepted"} /\ ready = {}
    BY <1>1, <1>3, <2>1 DEF DagInv, ValidationTypeOK, Verdicts, EndInv
  <2>3. Looping
    BY <2>2 DEF Looping
  <2>4. visited = NumTasks
    BY <1>1, <1>3, <2>2, <2>3, DagIsVisited
  <2> QED BY <1>1, <2>3, <2>4 DEF DagInv, EndInv
<1> QED BY <1>2, <1>3

\* The tasks that a cycle error names lead to a cycle.
LEMMA CycleReports == ASSUME DagInv PROVE CycleErrorLeadsToCycle
<1>1. SUFFICES ASSUME verdict = "cycle"
               PROVE  Involved # {} /\ \A t \in Involved : Graph[t] \cap Involved # {}
  BY DEF CycleErrorLeadsToCycle
<1>2. Looping /\ ready = {} /\ visited # NumTasks
  <2>1. Looping /\ ready = {}
    BY <1>1 DEF Looping, DagInv, EndInv
  <2>2. stage = "done"
    BY <1>1 DEF DagInv, CheckedInv, ValidationTypeOK
  <2> QED BY <1>1, <2>1, <2>2 DEF DagInv, EndInv
<1>3. \A t \in Tasks : t \in Involved <=> t \notin Visited
  <2>1. ASSUME NEW t \in Tasks, t \notin Visited PROVE t \in Involved
    BY <1>1, <1>2, <2>1, UnvisitedWait DEF Involved
  <2>2. ASSUME NEW t \in Tasks, t \in Visited PROVE remaining[t] = {}
    <3>1. SUFFICES ASSUME NEW n \in dependsOn[t], \A w \in Visited : names[w] # n
                   PROVE  FALSE
      BY <1>1, <1>2 DEF DagInv, LoopInv
    <3>2. PICK w \in Tasks : names[w] = n
      BY <1>1, <1>2 DEF DagInv, CheckedInv, Missing
    <3>3. w \in Graph[t]
      BY <3>2 DEF Graph
    <3> QED BY <1>1, <1>2, <2>2, <3>1, <3>2, <3>3 DEF DagInv, LoopInv
  <2> QED BY <2>1, <2>2 DEF Involved
<1>4. Involved # {}
  <2>1. Visited # Tasks
    BY <1>1, <1>2, VisitedFinite DEF DagInv, LoopInv
  <2> QED BY <1>3, <2>1 DEF Visited
<1>5. ASSUME NEW t \in Involved PROVE Graph[t] \cap Involved # {}
  <2>1. t \in Tasks /\ t \notin Visited
    BY <1>3 DEF Involved
  <2>2. PICK u \in Graph[t] : u \notin Visited
    BY <1>1, <1>2, <2>1, UnvisitedWait
  <2>3. u \in Tasks
    BY <2>1, <2>2 DEF Graph
  <2> QED BY <1>3, <2>2, <2>3
<1> QED BY <1>4, <1>5
===============================================================================
