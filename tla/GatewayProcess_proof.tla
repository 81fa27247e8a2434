------------------------- MODULE GatewayProcess_proof -------------------------
(***************************************************************************)
(* Proofs about GatewayProcess, for any files in any number, any global    *)
(* guard setting and any number of runs.  What a loader has kept is known  *)
(* because the folders it has not come to are still empty; a process that  *)
(* is up has mounted its catalog as it is, and the catalog never changes   *)
(* after loading; the rest of the invariant says for each stage what is    *)
(* open, ensured and entered.                                              *)
(*                                                                         *)
(* What a chain of tasks of any length amounts to is shown by the least    *)
(* number of tasks for which it would not hold.                            *)
(***************************************************************************)
EXTENDS GatewayProcess, SequenceTheorems, WellFoundedInduction, TLAPS

\* Only a file without fault is ever kept.
FaultFree ==
    \A s \in Folders : \A d \in catalog[s] :
      \E f \in Files[s] : d = Definition(f) /\ f.fault = "none"

\* What a loader has kept are the files it has read and not left out, none of
\* them faulty and no two under one name.
KeptInv ==
    stage = "loading" =>
      LET on == {i \in DOMAIN files : ~Skipped(Folder, files[i])} IN
      /\ catalog[Folder] = {Definition(files[i]) : i \in on}
      /\ \A i \in on : files[i].fault = "none" /\ ~Refused(Folder, files[i])
      /\ \A i, j \in on : files[i].name = files[j].name => i = j

LoadInv ==
    /\ LoadingTypeOK /\ KeptInv /\ OneDefinitionPerName /\ FaultFree
    /\ stage = "loading" => \A i \in 1..6 : i > section => catalog[Sections[i]] = {}

BuiltInv ==
    /\ stage \notin Up => mounts = {}
    /\ stage \in Up =>
         /\ mounts = {Mount(d) : d \in catalog["servers"]}
         /\ \A d \in catalog["servers"] : HasPolicy(d) => Loaded("policies", d.body.policy)

LifeInv ==
    /\ stage \in {"loading", "loaded", "failed"} \cup Up
    /\ database \in {"closed", "open"} /\ schemas \in 0..3 /\ entered \subseteq NamesIn("servers")
    /\ database = "open" <=> stage \in {"entering", "serving", "leaving"}
    /\ stage \notin {"entering", "serving", "leaving"} => entered = {}
    /\ entered # {} => schemas = 3
    /\ stage = "serving" => schemas = 3 /\ entered = NamesIn("servers")

Runs == [pipeline : Pipelines, status : {"pending", "running"} \cup Ended, cancel : BOOLEAN,
         blocked : SUBSET Nat]

ServiceInv ==
    /\ runs \in Seq(Runs)
    /\ tracked \subseteq DOMAIN runs
    /\ latest \in [Pipelines -> 0..Len(runs)]
    /\ RunsAreTracked

\* What SuccessesResolve says of one run, by the catalogs c.
Resolved(r, c) ==
    LET names(s) == {d.name : d \in c[s]}
        tasks == (CHOOSE d \in c["pipelines"] : d.name = r.pipeline).body
    IN r.status = "succeeded" => Honoured(tasks, names("servers"), names("policies"), r.blocked)

Known(r, c) == \E d \in c["pipelines"] : d.name = r.pipeline

\* A run's pipeline is found in the catalog, which is complete before any run.
ResolvedInv ==
    /\ stage = "loading" => runs = <<>>
    /\ \A i \in DOMAIN runs : Known(runs[i], catalog) /\ Resolved(runs[i], catalog)

IInv == LoadInv /\ BuiltInv /\ LifeInv /\ ServiceInv /\ ResolvedInv

------------------------------------------------------------------------------
\* The folders are six and no two are the same.
LEMMA SectionsApart ==
    /\ \A i \in 1..6 : Sections[i] \in Folders
    /\ \A i, j \in 1..6 : Sections[i] = Sections[j] => i = j
    /\ {"servers", "policies", "workflows", "pipelines"} \subseteq Folders
<1>1. \A i \in 1..6 : Sections[i] \in Folders
  BY DEF Folders
<1>2. \A i, j \in 1..6 : Sections[i] = Sections[j] => i = j
  BY DEF Sections
<1>3. /\ Sections[1] = "servers" /\ Sections[2] = "policies"
      /\ Sections[5] = "workflows" /\ Sections[6] = "pipelines"
  BY DEF Sections
<1>4. \A i \in {1, 2, 5, 6} : Sections[i] \in Folders
  BY <1>1
<1> QED BY <1>1, <1>2, <1>3, <1>4

\* No loader leaves out a file that does not speak of it. One that says false is
\* left out, but by the policies', which refuses it.
LEMMA SkippedIs ==
    ASSUME NEW s \in Folders, NEW file \in Files[s]
    PROVE  /\ file.enabled = "absent" => ~Skipped(s, file)
           /\ file.enabled = "no" => Skipped(s, file) \/ Refused(s, file)
           /\ file.fault \in Faults
<1>1. s \in {"servers", "policies", "sources", "outputs", "workflows", "pipelines"}
  BY DEF Folders, Sections
<1>2. file.fault \in Faults
  BY ConfigurationAssumption
<1> QED BY <1>1, <1>2 DEF Skipped, Refused

------------------------------------------------------------------------------
LEMMA InitLoadInv == ASSUME LoadingInit PROVE LoadInv
<1>1. LoadingTypeOK
  BY DEF LoadingInit, LoadingTypeOK
<1>2. \A s \in Folders : catalog[s] = {}
  BY DEF LoadingInit
<1>3. Folder \in Folders
  BY <1>1, SectionsApart DEF LoadingTypeOK, Folder
<1>4. KeptInv
  BY <1>2, <1>3 DEF LoadingInit, KeptInv
<1> QED BY <1>1, <1>2, <1>4, SectionsApart DEF LoadInv, OneDefinitionPerName, FaultFree

\* A file more, which is kept if and only if it is not left out.
LEMMA KeptFile ==
    ASSUME LoadInv, stage = "loading", NEW file \in Files[Folder],
           stage' = stage, section' = section, files' = Append(files, file),
           DOMAIN catalog' = Folders,
           \A s \in Folders \ {Folder} : catalog'[s] = catalog[s],
           catalog'[Folder] = catalog[Folder]
              \cup (IF Skipped(Folder, file) THEN {} ELSE {Definition(file)}),
           ~Skipped(Folder, file) =>
             file.fault = "none" /\ ~Refused(Folder, file) /\ ~Loaded(Folder, file.name)
    PROVE  LoadInv'
<1>1. /\ section \in 1..6 /\ files \in Seq(Files[Folder]) /\ DOMAIN catalog = Folders
      /\ \A s \in Folders : catalog[s] \subseteq {Definition(f) : f \in Files[s]}
      /\ Folder \in Folders /\ Folder' = Folder
  BY SectionsApart DEF LoadInv, LoadingTypeOK, Folder
<1> DEFINE new == Len(files) + 1
           on == {i \in DOMAIN files : ~Skipped(Folder, files[i])}
           onNext == {i \in DOMAIN files' : ~Skipped(Folder, files'[i])}
<1>2. /\ files' \in Seq(Files[Folder]) /\ DOMAIN files' = DOMAIN files \cup {new}
      /\ files'[new] = file /\ \A i \in DOMAIN files : files'[i] = files[i]
      /\ new \notin DOMAIN files
  BY <1>1
<1>3. /\ catalog[Folder] = {Definition(files[i]) : i \in on}
      /\ \A i \in on : files[i].fault = "none" /\ ~Refused(Folder, files[i])
      /\ \A i, j \in on : files[i].name = files[j].name => i = j
  BY DEF LoadInv, KeptInv
<1>4. onNext = on \cup (IF Skipped(Folder, file) THEN {} ELSE {new})
  <2> HIDE DEF new
  <2> QED BY <1>2
<1> HIDE DEF new
<1>5. \A i \in on : i \in DOMAIN files /\ files'[i] = files[i]
  BY <1>2
<1>6. {Definition(files'[i]) : i \in onNext}
        = {Definition(files[i]) : i \in on}
            \cup (IF Skipped(Folder, file) THEN {} ELSE {Definition(file)})
  <2> HIDE DEF on, onNext
  <2> QED BY <1>2, <1>4, <1>5
<1>7. LoadingTypeOK'
  <2>1. \A s \in Folders : catalog'[s] \subseteq {Definition(f) : f \in Files[s]}
    BY <1>1
  <2> QED BY <1>1, <1>2, <2>1 DEF LoadingTypeOK
<1>8. ASSUME ~Skipped(Folder, file), NEW i \in on PROVE files[i].name # file.name
  <2>1. Definition(files[i]) \in catalog[Folder]
    BY <1>3
  <2> QED BY <1>8, <2>1 DEF Loaded, Definition
<1>9. KeptInv'
  <2>1. catalog'[Folder] = {Definition(files'[i]) : i \in onNext}
    BY <1>3, <1>6
  <2>2. \A i \in onNext : files'[i].fault = "none" /\ ~Refused(Folder, files'[i])
    <3> HIDE DEF on, onNext
    <3> QED BY <1>2, <1>3, <1>4, <1>5
  <2>3. \A i, j \in onNext : files'[i].name = files'[j].name => i = j
    <3> HIDE DEF on, onNext
    <3> QED BY <1>2, <1>3, <1>4, <1>5, <1>8
  <2> QED BY <1>1, <2>1, <2>2, <2>3 DEF KeptInv
<1>10. OneDefinitionPerName'
  <2>1. SUFFICES ASSUME NEW s \in Folders, NEW d \in catalog'[s], NEW e \in catalog'[s],
                        d.name = e.name
                 PROVE  d = e
    BY DEF OneDefinitionPerName
  <2>2. CASE s # Folder
    BY <2>1, <2>2 DEF LoadInv, OneDefinitionPerName
  <2>3. CASE s = Folder
    <3>1. \A c \in catalog[Folder] : ~Skipped(Folder, file) => c.name # file.name
      BY DEF Loaded
    <3>2. Definition(file).name = file.name
      BY DEF Definition
    <3> QED BY <1>1, <2>1, <2>3, <3>1, <3>2 DEF LoadInv, OneDefinitionPerName
  <2> QED BY <2>2, <2>3
<1>11. \A i \in 1..6 : i > section => catalog'[Sections[i]] = {}
  <2>1. SUFFICES ASSUME NEW i \in 1..6, i > section PROVE catalog'[Sections[i]] = {}
    OBVIOUS
  <2>2. Sections[i] # Folder /\ Sections[i] \in Folders
    BY <1>1, <2>1, SectionsApart DEF Folder
  <2> QED BY <2>1, <2>2 DEF LoadInv
<1>12. FaultFree'
  <2>1. SUFFICES ASSUME NEW s \in Folders, NEW d \in catalog'[s]
                 PROVE  \E f \in Files[s] : d = Definition(f) /\ f.fault = "none"
    BY DEF FaultFree
  <2>2. CASE d \in catalog[s]
    BY <2>1, <2>2 DEF LoadInv, FaultFree
  <2>3. CASE d \notin catalog[s]
    BY <1>1, <2>1, <2>3
  <2> QED BY <2>2, <2>3
<1> QED BY <1>7, <1>9, <1>10, <1>11, <1>12 DEF LoadInv

\* Nothing but the stage is touched by a startup that fails.
LEMMA AbandonKeeps == ASSUME LoadInv, Abandon PROVE LoadInv'
BY DEF Abandon, loading, LoadInv, LoadingTypeOK, KeptInv, OneDefinitionPerName, FaultFree, Folder

LEMMA ReadFileKeeps ==
    ASSUME LoadInv, NEW file \in Files[Folder], ReadFile(file) PROVE LoadInv'
<1>1. /\ stage = "loading" /\ Folder \in Folders
      /\ DOMAIN catalog = Folders
  BY SectionsApart DEF ReadFile, LoadInv, LoadingTypeOK, Folder
<1>2. file.fault \in Faults
  BY <1>1, SkippedIs
<1>3. CASE Abandon BY <1>3, AbandonKeeps
<1>4. CASE /\ file.fault # "unreadable" /\ Skipped(Folder, file)
           /\ files' = Append(files, file)
           /\ UNCHANGED <<stage, section, catalog>>
  <2>1. Skipped(Folder, file)
    BY <1>4
  <2>2. catalog'[Folder] = catalog[Folder]
           \cup (IF Skipped(Folder, file) THEN {} ELSE {Definition(file)})
    BY <1>4, <2>1
  <2>3. /\ stage' = stage /\ section' = section /\ files' = Append(files, file)
        /\ DOMAIN catalog' = Folders
        /\ \A s \in Folders \ {Folder} : catalog'[s] = catalog[s]
        /\ ~Skipped(Folder, file) =>
             file.fault = "none" /\ ~Refused(Folder, file) /\ ~Loaded(Folder, file.name)
    BY <1>1, <1>4, <2>1
  <2> QED BY <1>1, <2>2, <2>3, KeptFile
<1>5. CASE /\ file.fault # "unreadable" /\ ~Skipped(Folder, file) /\ ~Refused(Folder, file)
           /\ ~Loaded(Folder, file.name)
           /\ files' = Append(files, file)
           /\ catalog' = [catalog EXCEPT ![Folder] = @ \cup {Definition(file)}]
           /\ UNCHANGED <<stage, section>>
  <2>1. ~Skipped(Folder, file) /\ ~Refused(Folder, file)
    BY <1>5
  <2>2. catalog'[Folder] = catalog[Folder]
           \cup (IF Skipped(Folder, file) THEN {} ELSE {Definition(file)})
    BY <1>1, <1>5, <2>1
  <2>3. file.fault = "none"
    BY <1>2, <1>5 DEF Refused, Faults
  <2>4. /\ stage' = stage /\ section' = section /\ files' = Append(files, file)
        /\ DOMAIN catalog' = Folders
        /\ \A s \in Folders \ {Folder} : catalog'[s] = catalog[s]
        /\ ~Skipped(Folder, file) =>
             file.fault = "none" /\ ~Refused(Folder, file) /\ ~Loaded(Folder, file.name)
    BY <1>1, <1>5, <2>3
  <2> QED BY <1>1, <2>2, <2>4, KeptFile
<1> QED BY <1>3, <1>4, <1>5 DEF ReadFile

\* The next loader finds its folder's catalog empty.
LEMMA FinishFolderKeeps == ASSUME LoadInv, FinishFolder PROVE LoadInv'
<1>1. /\ stage = "loading" /\ section \in 1..6 /\ files' = <<>> /\ catalog' = catalog
      /\ section' = IF section < 6 THEN section + 1 ELSE section
      /\ stage' = IF section < 6 THEN "loading" ELSE "loaded"
  BY DEF LoadInv, LoadingTypeOK, FinishFolder
<1>2. LoadingTypeOK'
  BY <1>1 DEF LoadInv, LoadingTypeOK
<1>3. KeptInv'
  <2>1. CASE section = 6
    BY <1>1, <2>1 DEF KeptInv
  <2>2. CASE section < 6
    <3>1. section' \in 1..6 /\ section' > section
      BY <1>1, <2>2
    <3>2. catalog'[Folder'] = {}
      BY <1>1, <3>1 DEF LoadInv, Folder
    <3>3. DOMAIN files' = {}
      BY <1>1
    <3> QED BY <3>2, <3>3 DEF KeptInv
  <2> QED BY <1>1, <2>1, <2>2
<1>4. OneDefinitionPerName'
  BY <1>1 DEF LoadInv, OneDefinitionPerName
<1>5. stage' = "loading" => \A i \in 1..6 : i > section' => catalog'[Sections[i]] = {}
  BY <1>1 DEF LoadInv
<1>6. FaultFree'
  BY <1>1 DEF LoadInv, FaultFree
<1> QED BY <1>2, <1>3, <1>4, <1>5, <1>6 DEF LoadInv

LEMMA LoadingKeeps == ASSUME LoadInv, Loading PROVE LoadInv'
<1>1. CASE FinishFolder BY <1>1, FinishFolderKeeps
<1>2. CASE Abandon BY <1>2, AbandonKeeps
<1>3. CASE \E file \in Files[Folder] : ReadFile(file) BY <1>3, ReadFileKeeps
<1> QED BY <1>1, <1>2, <1>3 DEF Loading, MissingFolder

\* In whatever way a loader leaves files out, what it has kept is what it should.
LEMMA WrittenIsKept == ASSUME LoadInv PROVE KeptAsWritten
<1> SUFFICES ASSUME stage = "loading" PROVE KeptAsWritten
  BY DEF KeptAsWritten
<1>1. Folder \in Folders /\ \A i \in DOMAIN files : files[i] \in Files[Folder]
  BY SectionsApart DEF LoadInv, LoadingTypeOK, Folder
<1> DEFINE in == {i \in DOMAIN files : ~Skipped(Folder, files[i])}
<1>2. /\ catalog[Folder] = {Definition(files[i]) : i \in in}
      /\ \A i \in in : files[i].fault = "none" /\ ~Refused(Folder, files[i])
      /\ \A i, j \in in : files[i].name = files[j].name => i = j
  BY DEF LoadInv, KeptInv
<1>3. \A i \in DOMAIN files : files[i].enabled = "absent" => i \in in
  BY <1>1, SkippedIs
<1>4. \A i \in in : files[i].enabled # "no"
  BY <1>1, <1>2, SkippedIs
<1> HIDE DEF in
<1>5. \A i \in in : i \in DOMAIN files
  BY DEF in
<1> QED BY <1>2, <1>3, <1>4, <1>5 DEF KeptAsWritten

\* Nothing is loaded later on.
LEMMA LoadedKeeps ==
    ASSUME LoadInv, UNCHANGED loading, stage' # "loading" \/ stage' = stage PROVE LoadInv'
BY DEF loading, LoadInv, LoadingTypeOK, KeptInv, OneDefinitionPerName, FaultFree, Folder

------------------------------------------------------------------------------
LEMMA LeastNatural ==
    ASSUME NEW S, S \subseteq Nat, S # {}
    PROVE  \E x \in S : \A y \in S : x <= y
<1> DEFINE R == OpToRel(<, Nat)
<1>1. \E x \in S : \A y \in S : ~(<<y, x>> \in R)
  <2> HIDE DEF R
  <2>1. IsWellFoundedOn(R, Nat) BY NatLessThanWellFounded DEF R
  <2> QED BY <2>1, WFMin
<1>2. PICK x \in S : \A y \in S : ~(<<y, x>> \in R) BY <1>1
<1>3. ASSUME NEW y \in S PROVE x <= y
  <2>1. x \in Nat /\ y \in Nat OBVIOUS
  <2>2. ~(y < x)
    <3>1. SUFFICES ASSUME y < x PROVE <<y, x>> \in R BY <1>2
    <3> QED BY <2>1, <3>1 DEF OpToRel
  <2> QED BY <2>1, <2>2
<1> QED BY <1>3

\* The recursive function that ChainResults is made of exists, and so has the
\* values that its definition gives it.
LEMMA ChainUnfolds ==
    ASSUME NEW tasks, Len(tasks) \in Nat, NEW servers, NEW policies, NEW blocked
    PROVE  \E f : /\ f[0] = <<>>
                  /\ \A i \in 1..Len(tasks) :
                       f[i] = OneMore(i, f[i - 1], tasks, servers, policies, blocked)
                  /\ ChainResults(tasks, servers, policies, blocked) = f[Len(tasks)]
<1> DEFINE More(i, results) == OneMore(i, results, tasks, servers, policies, blocked)
           Unfolds(n, f) == f = [i \in 0..n |-> IF i = 0 THEN <<>> ELSE More(i, f[i - 1])]
           Bad == {n \in Nat : \A f : ~Unfolds(n, f)}
<1>1. ChainResults(tasks, servers, policies, blocked)
        = (CHOOSE f : Unfolds(Len(tasks), f))[Len(tasks)]
  BY DEF ChainResults
<1> HIDE DEF More
<1>2. ASSUME NEW n \in Bad, \A m \in Bad : n <= m PROVE FALSE
  <2>1. n \in Nat /\ \A f : ~Unfolds(n, f)
    OBVIOUS
  <2>2. CASE n = 0
    <3>1. Unfolds(0, [i \in 0..0 |-> <<>>])
      OBVIOUS
    <3> QED BY <2>1, <2>2, <3>1
  <2>3. CASE n # 0
    <3>1. n - 1 \in Nat /\ n - 1 \notin Bad
      BY <1>2, <2>1, <2>3
    <3>2. PICK f : Unfolds(n - 1, f)
      BY <3>1
    <3>3. /\ DOMAIN f = 0..n - 1 /\ f[0] = <<>>
          /\ \A i \in 1..n - 1 : f[i] = More(i, f[i - 1])
      BY <3>1, <3>2
    <3> DEFINE g == [i \in 0..n |-> IF i = n THEN More(n, f[n - 1]) ELSE f[i]]
    <3>4. \A i \in 0..n : g[i] = IF i = 0 THEN <<>> ELSE More(i, g[i - 1])
      BY <2>1, <2>3, <3>3
    <3>5. g = [i \in 0..n |-> g[i]]
      OBVIOUS
    <3> HIDE DEF g
    <3>6. Unfolds(n, g)
      BY <3>4, <3>5
    <3> QED BY <2>1, <3>6
  <2> QED BY <2>2, <2>3
<1>3. Len(tasks) \notin Bad
  <2> HIDE DEF Bad
  <2>1. Bad \subseteq Nat
    BY DEF Bad
  <2> QED BY <1>2, <2>1, LeastNatural
<1>4. PICK f : f = (CHOOSE g : Unfolds(Len(tasks), g)) /\ Unfolds(Len(tasks), f)
  BY <1>3
<1>5. f[0] = <<>> /\ \A i \in 1..Len(tasks) : f[i] = More(i, f[i - 1])
  <2>1. \A i \in 0..Len(tasks) : f[i] = IF i = 0 THEN <<>> ELSE More(i, f[i - 1])
    BY <1>4
  <2>2. 0 \in 0..Len(tasks) /\ \A i \in 1..Len(tasks) : i \in 0..Len(tasks) /\ i # 0
    OBVIOUS
  <2> QED BY <2>1, <2>2
<1>6. ChainResults(tasks, servers, policies, blocked) = f[Len(tasks)]
  BY <1>1, <1>4
<1> QED BY <1>5, <1>6 DEF More

------------------------------------------------------------------------------
OutputKeys == {"server", "policy", "source", "config", "wrapped", "verdict"}

Results == [status : {"succeeded", "failed", "skipped"}, keys : SUBSET OutputKeys]

\* The keys a task may require, and where they can come from.
KeysOfTasks == {"server", "policy", "verdict"}

\* What the handlers return, of the types that refer to something, ask the
\* guard or require the output of another; and where required keys come from.
LEMMA HandlersReturn ==
    ASSUME NEW task, task.type \in TaskTypes, task.enabled, NEW inputs, inputs \subseteq Results,
           NEW servers, NEW policies, NEW verdict
    PROVE  LET result == Handled(task, inputs, servers, policies, verdict) IN
           /\ result \in Results
           /\ result.status # "failed" => Resolves(task, servers, policies)
           /\ task.type = "guard" /\ task.option = "call" /\ verdict = "block" =>
                result.status = "failed"
           /\ task.type = "validation" /\ task.option \in KeysOfTasks /\ result.status # "failed" =>
                \E r \in inputs : task.option \in r.keys
           /\ \A key \in result.keys \cap KeysOfTasks :
                \/ Provides(task, key, servers, policies)
                \/ HandsOn(task) /\ \E r \in inputs : key \in r.keys
<1> DEFINE result == Handled(task, inputs, servers, policies, verdict)
<1>1. \A keys \in SUBSET OutputKeys :
        Succeeded(keys) \in Results /\ FailedWith(keys) \in Results
  BY DEF Succeeded, FailedWith, Results
<1>2. \A keys : /\ Succeeded(keys).status = "succeeded" /\ FailedWith(keys).status = "failed"
                /\ Succeeded(keys).keys = keys /\ FailedWith(keys).keys = keys
  BY DEF Succeeded, FailedWith
<1>3. CASE task.type = "source"
  <2>1. result = Source(task, servers)
    BY <1>3 DEF Handled
  <2>2. {IF task.name \in servers THEN "source" ELSE "config"} \in SUBSET OutputKeys
    BY DEF OutputKeys
  <2> QED BY <1>1, <1>2, <1>3, <2>1, <2>2 DEF Source, Resolves, KeysOfTasks
<1>4. CASE task.type = "mcp_server"
  <2>1. result = McpServer(task, servers)
    BY <1>4 DEF Handled
  <2>2. {"server"} \in SUBSET OutputKeys /\ {} \in SUBSET OutputKeys
    BY DEF OutputKeys
  <2> QED BY <1>1, <1>2, <1>4, <2>1, <2>2 DEF McpServer, Resolves, Provides
<1>5. CASE task.type = "policy"
  <2>1. result = Policy(task, policies)
    BY <1>5 DEF Handled
  <2>2. {"policy"} \in SUBSET OutputKeys /\ {} \in SUBSET OutputKeys
    BY DEF OutputKeys
  <2> QED BY <1>1, <1>2, <1>5, <2>1, <2>2 DEF Policy, Resolves, Provides
<1>6. CASE task.type = "transform"
  <2>1. result = Transform(task, inputs)
    BY <1>6 DEF Handled
  <2>2. /\ {"config"} \cup UNION {r.keys : r \in inputs} \in SUBSET OutputKeys
        /\ {"wrapped"} \in SUBSET OutputKeys /\ {} \in SUBSET OutputKeys
    BY DEF OutputKeys, Results
  <2>3. CASE task.option = "merge"
    <3>1. result = Succeeded({"config"} \cup UNION {r.keys : r \in inputs})
      BY <2>1, <2>3 DEF Transform
    <3>2. \A key \in result.keys \cap KeysOfTasks : \E r \in inputs : key \in r.keys
      BY <1>2, <3>1 DEF KeysOfTasks
    <3> QED BY <1>1, <1>6, <2>2, <2>3, <3>1, <3>2 DEF HandsOn, Resolves
  <2>4. CASE task.option # "merge"
    <3>1. result \in {Succeeded({"wrapped"}), FailedWith({})}
      BY <2>1, <2>4 DEF Transform
    <3>2. result.keys \cap KeysOfTasks = {}
      BY <1>2, <3>1 DEF KeysOfTasks
    <3> QED BY <1>1, <1>6, <2>2, <3>1, <3>2 DEF Resolves
  <2> QED BY <2>3, <2>4
<1>7. CASE task.type = "validation"
  <2>1. result = ValidationOf(task, inputs)
    BY <1>7 DEF Handled
  <2>2. {"wrapped"} \in SUBSET OutputKeys /\ {} \in SUBSET OutputKeys
    BY DEF OutputKeys
  <2>3. result \in {Succeeded({"wrapped"}), FailedWith({})}
    BY <2>1 DEF ValidationOf
  <2>4. result.keys \cap KeysOfTasks = {} /\ result \in Results
    BY <1>1, <1>2, <2>2, <2>3 DEF KeysOfTasks
  <2>5. task.option \in KeysOfTasks /\ result.status # "failed" =>
          \E r \in inputs : task.option \in r.keys
    BY <1>2, <2>1 DEF ValidationOf, KeysOfTasks
  <2> QED BY <1>7, <2>4, <2>5 DEF Resolves
<1>8. CASE task.type = "guard"
  <2>1. result = Guard(task, verdict)
    BY <1>8 DEF Handled
  <2>2. {"wrapped"} \in SUBSET OutputKeys /\ {"verdict"} \in SUBSET OutputKeys
    BY DEF OutputKeys
  <2>3. result \in {Succeeded({"wrapped"}), Succeeded({"verdict"}), FailedWith({"verdict"})}
    BY <2>1 DEF Guard
  <2>4. /\ task.option = "call" /\ verdict = "block" => result.status = "failed"
        /\ task.option # "call" => result.keys = {"wrapped"}
        /\ result.keys \subseteq {"wrapped", "verdict"}
    BY <1>2, <2>1, <2>3 DEF Guard
  <2>5. \A key \in result.keys \cap KeysOfTasks : Provides(task, key, servers, policies)
    BY <1>8, <2>4 DEF Provides, KeysOfTasks
  <2> QED BY <1>1, <1>8, <2>2, <2>3, <2>4, <2>5 DEF Resolves
<1>9. CASE task.type \in {"output", "custom"}
  <2>1. result = Succeeded({"wrapped"})
    BY <1>9 DEF Handled, Output, Custom
  <2>2. {"wrapped"} \in SUBSET OutputKeys
    BY DEF OutputKeys
  <2>3. result.keys \cap KeysOfTasks = {}
    BY <1>2, <2>1 DEF KeysOfTasks
  <2> QED BY <1>1, <1>9, <2>1, <2>2, <2>3 DEF Resolves
<1> HIDE DEF result
<1> QED BY <1>3, <1>4, <1>5, <1>6, <1>7, <1>8, <1>9 DEF TaskTypes, result

LEMMA TolerationKeeps ==
    ASSUME NEW task, NEW result \in Results
    PROVE  /\ Tolerated(task, result) \in Results
           /\ Tolerated(task, result).keys = result.keys
           /\ task.onFailure = "fail" => Tolerated(task, result) = result
BY DEF Tolerated, Results

LEMMA TaskResultTyped ==
    ASSUME NEW task, task.type \in TaskTypes, NEW inputs, inputs \subseteq Results,
           NEW servers, NEW policies, NEW verdict
    PROVE  TaskResult(task, inputs, servers, policies, verdict) \in Results
<1>1. CASE task.enabled
  <2>1. Handled(task, inputs, servers, policies, verdict) \in Results
    BY <1>1, HandlersReturn
  <2> QED BY <1>1, <2>1, TolerationKeeps DEF TaskResult
<1>2. CASE ~task.enabled
  BY <1>2 DEF TaskResult, Results
<1> QED BY <1>1, <1>2

Verdict(k, blocked) == IF k \in blocked THEN "block" ELSE "allow"

\* The results of the first i tasks, as long as none of them has failed.
Played(i, results, tasks, servers, policies, blocked) ==
    /\ results \in Seq(Results)
    /\ i > 0 => results # <<>>
    /\ ~Over(results) =>
         /\ Len(results) = i
         /\ \A k \in 1..i :
              /\ results[k].status # "failed"
              /\ results[k] = TaskResult(tasks[k], IF k = 1 THEN {} ELSE {results[k - 1]},
                                         servers, policies, Verdict(k, blocked))

LEMMA OneMorePlayed ==
    ASSUME NEW tasks, NEW servers, NEW policies, NEW blocked,
           NEW i \in Nat \ {0}, tasks[i].type \in TaskTypes,
           NEW results, Played(i - 1, results, tasks, servers, policies, blocked)
    PROVE  Played(i, OneMore(i, results, tasks, servers, policies, blocked),
                  tasks, servers, policies, blocked)
<1> DEFINE inputs == IF i = 1 THEN {} ELSE {results[i - 1]}
           r == TaskResult(tasks[i], inputs, servers, policies, Verdict(i, blocked))
           more == OneMore(i, results, tasks, servers, policies, blocked)
<1>1. results \in Seq(Results)
  BY DEF Played
<1>2. CASE Over(results)
  <2>1. more = results
    BY <1>2 DEF OneMore
  <2>2. results # <<>>
    BY <1>2 DEF Over
  <2> QED BY <1>1, <1>2, <2>1, <2>2 DEF Played
<1>3. CASE ~Over(results)
  <2>1. /\ Len(results) = i - 1
        /\ \A k \in 1..i - 1 :
             /\ results[k].status # "failed"
             /\ results[k] = TaskResult(tasks[k], IF k = 1 THEN {} ELSE {results[k - 1]},
                                        servers, policies, Verdict(k, blocked))
    BY <1>3 DEF Played
  <2>2. inputs \subseteq Results
    BY <1>1, <2>1
  <2>3. r \in Results
    <3> HIDE DEF inputs
    <3> QED BY <2>2, TaskResultTyped
  <2>4. more = Append(results, r)
    BY <1>3 DEF OneMore, Verdict
  <2> HIDE DEF more
  <2>5. r = TaskResult(tasks[i], IF i = 1 THEN {} ELSE {results[i - 1]}, servers, policies,
                       Verdict(i, blocked))
    OBVIOUS
  <2> HIDE DEF r, inputs
  <2>6. /\ more \in Seq(Results) /\ Len(more) = i /\ more # <<>>
        /\ more[i] = r /\ \A k \in 1..i - 1 : more[k] = results[k]
    BY <1>1, <2>1, <2>3, <2>4
  <2>7. ~Over(more) => r.status # "failed"
    BY <2>6 DEF Over
  <2>8. ASSUME ~Over(more), NEW k \in 1..i
        PROVE  /\ more[k].status # "failed"
               /\ more[k] = TaskResult(tasks[k], IF k = 1 THEN {} ELSE {more[k - 1]},
                                       servers, policies, Verdict(k, blocked))
    <3>1. k # 1 => more[k - 1] = results[k - 1]
      BY <2>6
    <3>2. CASE k = i
      BY <2>5, <2>6, <2>7, <2>8, <3>1, <3>2
    <3>3. CASE k # i
      <4>1. k \in 1..i - 1
        BY <3>3
      <4> QED BY <2>1, <2>6, <3>1, <4>1
    <3> QED BY <3>2, <3>3
  <2>9. Len(more) = i /\ more \in Seq(Results) /\ (i > 0 => more # <<>>)
    BY <2>6
  <2>10. Played(i, more, tasks, servers, policies, blocked)
    BY <2>8, <2>9 DEF Played
  <2> QED BY <2>10 DEF more
<1> QED BY <1>2, <1>3

\* A chain that does not fail has run every task, on the result of the one
\* before, and none of them failed.
LEMMA ChainPlayed ==
    ASSUME NEW tasks, IsChain(tasks), NEW servers, NEW policies, NEW blocked
    PROVE  Played(Len(tasks), ChainResults(tasks, servers, policies, blocked),
                  tasks, servers, policies, blocked)
<1> DEFINE Done(i, results) == Played(i, results, tasks, servers, policies, blocked)
           More(i, results) == OneMore(i, results, tasks, servers, policies, blocked)
<1>1. Len(tasks) \in Nat /\ \A i \in 1..Len(tasks) : tasks[i].type \in TaskTypes
  BY DEF IsChain
<1>2. PICK f : /\ f[0] = <<>>
               /\ \A i \in 1..Len(tasks) : f[i] = More(i, f[i - 1])
               /\ ChainResults(tasks, servers, policies, blocked) = f[Len(tasks)]
  BY <1>1, ChainUnfolds
<1> DEFINE Bad == {i \in 0..Len(tasks) : ~Done(i, f[i])}
<1>3. Done(0, f[0])
  BY <1>2 DEF Played
<1>4. ASSUME NEW i \in 1..Len(tasks), Done(i - 1, f[i - 1]) PROVE Done(i, f[i])
  <2>1. i \in Nat \ {0} /\ tasks[i].type \in TaskTypes
    BY <1>1
  <2>2. f[i] = More(i, f[i - 1])
    BY <1>2
  <2> QED BY <1>4, <2>1, <2>2, OneMorePlayed
<1> HIDE DEF Done
<1>5. ASSUME NEW i \in Bad, \A m \in Bad : i <= m PROVE FALSE
  <2>1. i \in 0..Len(tasks) /\ ~Done(i, f[i])
    OBVIOUS
  <2>2. i # 0
    BY <1>3, <2>1
  <2>3. i \in 1..Len(tasks) /\ i - 1 \in 0..Len(tasks) /\ ~(i <= i - 1)
    BY <1>1, <2>1, <2>2
  <2>4. i - 1 \notin Bad
    BY <1>5, <2>3
  <2> QED BY <1>4, <2>1, <2>3, <2>4
<1>6. Bad = {}
  <2>1. Bad \subseteq Nat
    OBVIOUS
  <2> HIDE DEF Bad
  <2> QED BY <1>5, <2>1, LeastNatural
<1>7. Done(Len(tasks), f[Len(tasks)])
  BY <1>1, <1>6
<1> QED BY <1>2, <1>7 DEF Done

\* What a chain that succeeds says of its tasks; a required key is followed back
\* to the task that put it out, from the least one that would have it otherwise.
LEMMA SuccessIsHonoured ==
    ASSUME NEW tasks, IsChain(tasks), NEW servers, NEW policies,
           NEW blocked \in SUBSET Calls(tasks),
           ChainStatus(tasks, servers, policies, blocked) = "succeeded"
    PROVE  Honoured(tasks, servers, policies, blocked)
<1> DEFINE results == ChainResults(tasks, servers, policies, blocked)
           Inputs(i) == IF i = 1 THEN {} ELSE {results[i - 1]}
           result(i) == Handled(tasks[i], Inputs(i), servers, policies, Verdict(i, blocked))
<1>1. /\ Len(tasks) \in Nat \ {0} /\ DOMAIN tasks = 1..Len(tasks)
      /\ \A i \in 1..Len(tasks) : tasks[i].type \in TaskTypes
  BY DEF IsChain
<1>2. ~Over(results)
  BY DEF ChainStatus, Over
<1>3. Played(Len(tasks), results, tasks, servers, policies, blocked)
  BY ChainPlayed
<1> HIDE DEF results
<1>4. /\ results \in Seq(Results) /\ Len(results) = Len(tasks)
      /\ \A i \in 1..Len(tasks) :
           /\ results[i].status # "failed"
           /\ results[i] = TaskResult(tasks[i], Inputs(i), servers, policies, Verdict(i, blocked))
  BY <1>2, <1>3 DEF Played
<1>5. ASSUME NEW i \in 1..Len(tasks), tasks[i].enabled
      PROVE  /\ results[i].keys = result(i).keys
             /\ tasks[i].onFailure = "fail" => result(i).status # "failed"
             /\ result(i).status # "failed" => Resolves(tasks[i], servers, policies)
             /\ i \in blocked => result(i).status = "failed"
             /\ tasks[i].type = "validation" /\ tasks[i].option \in KeysOfTasks
                  /\ result(i).status # "failed" => \E r \in Inputs(i) : tasks[i].option \in r.keys
             /\ \A key \in result(i).keys \cap KeysOfTasks :
                  \/ Provides(tasks[i], key, servers, policies)
                  \/ HandsOn(tasks[i]) /\ \E r \in Inputs(i) : key \in r.keys
  <2>1. Inputs(i) \subseteq Results
    BY <1>1, <1>4
  <2>2. tasks[i].type \in TaskTypes
    BY <1>1
  <2>3. i \in blocked => /\ tasks[i].type = "guard" /\ tasks[i].option = "call"
                         /\ Verdict(i, blocked) = "block"
    BY DEF Calls, Verdict
  <2> HIDE DEF Inputs
  <2>4. /\ result(i) \in Results
        /\ result(i).status # "failed" => Resolves(tasks[i], servers, policies)
        /\ i \in blocked => result(i).status = "failed"
        /\ tasks[i].type = "validation" /\ tasks[i].option \in KeysOfTasks
             /\ result(i).status # "failed" => \E r \in Inputs(i) : tasks[i].option \in r.keys
        /\ \A key \in result(i).keys \cap KeysOfTasks :
             \/ Provides(tasks[i], key, servers, policies)
             \/ HandsOn(tasks[i]) /\ \E r \in Inputs(i) : key \in r.keys
    <3> DEFINE inputs == Inputs(i)
               v == Verdict(i, blocked)
    <3>1. inputs \subseteq Results /\ (i \in blocked => v = "block")
      BY <2>1, <2>3
    <3>2. result(i) = Handled(tasks[i], inputs, servers, policies, v)
      OBVIOUS
    <3> HIDE DEF inputs, v, result
    <3>3. /\ result(i) \in Results
          /\ result(i).status # "failed" => Resolves(tasks[i], servers, policies)
          /\ tasks[i].type = "guard" /\ tasks[i].option = "call" /\ v = "block" =>
               result(i).status = "failed"
          /\ tasks[i].type = "validation" /\ tasks[i].option \in KeysOfTasks
               /\ result(i).status # "failed" => \E r \in inputs : tasks[i].option \in r.keys
          /\ \A key \in result(i).keys \cap KeysOfTasks :
               \/ Provides(tasks[i], key, servers, policies)
               \/ HandsOn(tasks[i]) /\ \E r \in inputs : key \in r.keys
      BY <1>5, <2>2, <3>1, <3>2, HandlersReturn
    <3> QED BY <2>3, <3>1, <3>3 DEF inputs
  <2>5. results[i] = Tolerated(tasks[i], result(i))
    BY <1>4, <1>5, Zenon DEF TaskResult
  <2> HIDE DEF result
  <2> QED BY <1>4, <2>4, <2>5, TolerationKeeps
<1> HIDE DEF result
<1> DEFINE Sourced(i, key) == ProvidedBefore(i + 1, key, tasks, servers, policies)
           Bad == {i \in 1..Len(tasks) :
                     \E key \in KeysOfTasks : key \in results[i].keys /\ ~Sourced(i, key)}
<1>6. ASSUME NEW i \in Bad, \A m \in Bad : i <= m PROVE FALSE
  <2>1. PICK key \in KeysOfTasks : key \in results[i].keys /\ ~Sourced(i, key)
    OBVIOUS
  <2>2. i \in 1..Len(tasks) /\ i \in Nat /\ (i + 1) - 1 = i
    BY <1>1
  <2>3. tasks[i].enabled
    <3>1. results[i] = TaskResult(tasks[i], Inputs(i), servers, policies, Verdict(i, blocked))
      BY <1>4, <2>2
    <3> HIDE DEF Inputs
    <3>2. ~tasks[i].enabled => results[i] = [status |-> "skipped", keys |-> {}]
      BY <3>1, Zenon DEF TaskResult
    <3>3. ~tasks[i].enabled => results[i].keys = {}
      BY <3>2
    <3> QED BY <2>1, <3>3
  <2>4. ~Provides(tasks[i], key, servers, policies)
    BY <2>1, <2>2 DEF ProvidedBefore
  <2>5. HandsOn(tasks[i]) /\ \E r \in Inputs(i) : key \in r.keys
    BY <1>5, <2>1, <2>2, <2>3, <2>4
  <2>6. i - 1 \in 1..Len(tasks) /\ key \in results[i - 1].keys /\ ~(i <= i - 1)
    BY <1>1, <2>2, <2>5
  <2>7. Sourced(i - 1, key)
    BY <1>6, <2>6
  <2>8. PICK j \in 1..i - 1 : /\ Provides(tasks[j], key, servers, policies)
                              /\ \A m \in (j + 1)..(i - 1) : HandsOn(tasks[m])
    BY <2>2, <2>7 DEF ProvidedBefore
  <2>9. j \in 1..i /\ \A m \in (j + 1)..i : m \in (j + 1)..(i - 1) \/ m = i
    BY <2>2
  <2> QED BY <2>1, <2>2, <2>5, <2>8, <2>9 DEF ProvidedBefore
<1>7. Bad = {}
  <2>1. Bad \subseteq Nat
    BY <1>1
  <2> HIDE DEF Bad
  <2> QED BY <1>6, <2>1, LeastNatural
<1>8. ASSUME NEW k \in DOMAIN tasks, tasks[k].enabled, tasks[k].onFailure = "fail"
      PROVE  /\ Resolves(tasks[k], servers, policies)
             /\ k \notin blocked
             /\ tasks[k].type = "validation" /\ tasks[k].option \in KeysOfTasks =>
                  ProvidedBefore(k, tasks[k].option, tasks, servers, policies)
  <2>1. k \in 1..Len(tasks)
    BY <1>1
  <2>2. Resolves(tasks[k], servers, policies) /\ k \notin blocked
    BY <1>5, <1>8, <2>1
  <2>3. ASSUME tasks[k].type = "validation", tasks[k].option \in KeysOfTasks
        PROVE  ProvidedBefore(k, tasks[k].option, tasks, servers, policies)
    <3>1. \E r \in Inputs(k) : tasks[k].option \in r.keys
      BY <1>5, <1>8, <2>1, <2>3
    <3>2. k - 1 \in 1..Len(tasks) /\ tasks[k].option \in results[k - 1].keys /\ (k - 1) + 1 = k
      BY <1>1, <2>1, <3>1
    <3>3. Sourced(k - 1, tasks[k].option)
      BY <1>7, <2>3, <3>2
    <3> QED BY <3>2, <3>3
  <2> QED BY <2>2, <2>3
<1> QED BY <1>8 DEF Honoured, KeysOfTasks

------------------------------------------------------------------------------
LEMMA InitIInv == ASSUME Init PROVE IInv
<1>1. LoadInv
  BY InitLoadInv DEF Init
<1>2. BuiltInv /\ LifeInv
  BY DEF Init, LoadingInit, BuiltInv, LifeInv, Up
<1>3. ServiceInv
  <2>1. runs = <<>> /\ tracked = {} /\ DOMAIN runs = {} /\ Len(runs) = 0
    BY DEF Init
  <2>2. latest \in [Pipelines -> 0..Len(runs)]
    BY <2>1 DEF Init
  <2> QED BY <2>1, <2>2 DEF ServiceInv, RunsAreTracked
<1>4. ResolvedInv
  BY DEF Init, ResolvedInv
<1> QED BY <1>1, <1>2, <1>3, <1>4 DEF IInv

LEMMA LoadKeeps == ASSUME IInv, Load PROVE IInv'
<1>1. /\ Loading
      /\ UNCHANGED <<mounts, database, schemas, entered, runs, tracked, latest>>
  BY DEF Load, process, service
<1>2. LoadInv'
  BY <1>1, LoadingKeeps DEF IInv
<1>3. stage = "loading" /\ stage' \in {"loading", "loaded", "failed"}
  BY <1>1 DEF Loading, ReadFile, Abandon, FinishFolder, MissingFolder
<1>4. BuiltInv' /\ LifeInv'
  BY <1>1, <1>3 DEF IInv, BuiltInv, LifeInv, Up
<1>5. ServiceInv'
  BY <1>1 DEF IInv, ServiceInv, RunsAreTracked
<1>6. ResolvedInv'
  BY <1>1, <1>3 DEF IInv, ResolvedInv
<1> QED BY <1>2, <1>4, <1>5, <1>6 DEF IInv

\* The catalogs and the runs are left alone by the steps of the way in and out.
LEMMA StagesKeep ==
    ASSUME IInv, UNCHANGED loading, UNCHANGED service, stage # "loading", stage' # "loading"
    PROVE  LoadInv' /\ ServiceInv' /\ ResolvedInv' /\ UNCHANGED <<catalog, NamesIn("servers")>>
<1>1. LoadInv' /\ UNCHANGED catalog
  BY LoadedKeeps DEF IInv, loading
<1>2. ServiceInv'
  BY DEF IInv, service, ServiceInv, RunsAreTracked
<1>3. UNCHANGED NamesIn("servers")
  BY <1>1 DEF NamesIn
<1>4. ResolvedInv'
  BY <1>1 DEF IInv, service, ResolvedInv
<1> QED BY <1>1, <1>2, <1>3, <1>4

LEMMA BuildKeeps == ASSUME IInv, Build PROVE IInv'
<1>1. /\ stage = "loaded" /\ stage' \in {"failed", "built"}
      /\ UNCHANGED loading /\ UNCHANGED service
      /\ UNCHANGED <<database, schemas, entered>>
  BY DEF Build
<1>2. LoadInv' /\ ServiceInv' /\ ResolvedInv' /\ UNCHANGED <<catalog, NamesIn("servers")>>
  BY <1>1, StagesKeep
<1>3. CASE stage' = "failed" /\ UNCHANGED mounts
  BY <1>1, <1>2, <1>3 DEF IInv, BuiltInv, LifeInv, Up
<1>4. CASE /\ ~\E d \in catalog["servers"] : HasPolicy(d) /\ ~Loaded("policies", d.body.policy)
           /\ stage' = "built" /\ mounts' = {Mount(d) : d \in catalog["servers"]}
  <2>1. BuiltInv'
    BY <1>2, <1>4 DEF BuiltInv, Up, Loaded
  <2>2. LifeInv'
    BY <1>1, <1>2, <1>4 DEF IInv, LifeInv, Up
  <2> QED BY <1>2, <2>1, <2>2 DEF IInv
<1> QED BY <1>3, <1>4 DEF Build

\* A step between two stages in which the application is built.
LEMMA BuiltKeeps ==
    ASSUME BuiltInv, stage \in Up, stage' \in Up, UNCHANGED <<mounts, catalog>>
    PROVE  BuiltInv'
BY DEF BuiltInv, Loaded

LEMMA LifespanKeeps ==
    ASSUME IInv,
           \/ OpenDatabase \/ EnsureSchema \/ Serve \/ Stop \/ CloseDatabase
           \/ \E n \in NamesIn("servers") : EnterApp(n) \/ LeaveApp(n)
    PROVE  IInv'
<1>1. /\ UNCHANGED loading /\ UNCHANGED service /\ UNCHANGED mounts
      /\ stage \in Up /\ stage' \in Up
  BY DEF OpenDatabase, EnsureSchema, Serve, Stop, CloseDatabase, EnterApp, LeaveApp, process, Up
<1>2. LoadInv' /\ ServiceInv' /\ ResolvedInv' /\ UNCHANGED <<catalog, NamesIn("servers")>>
  BY <1>1, StagesKeep DEF Up
<1>3. BuiltInv'
  BY <1>1, <1>2, BuiltKeeps DEF IInv
<1>4. LifeInv'
  <2>1. LifeInv /\ NamesIn("servers")' = NamesIn("servers")
    BY <1>2 DEF IInv
  <2>2. CASE OpenDatabase BY <2>1, <2>2 DEF OpenDatabase, LifeInv, Up
  <2>3. CASE EnsureSchema BY <2>1, <2>3 DEF EnsureSchema, LifeInv, Up
  <2>4. CASE Serve BY <2>1, <2>4 DEF Serve, process, LifeInv, Up
  <2>5. CASE Stop BY <2>1, <2>5 DEF Stop, process, LifeInv, Up
  <2>6. CASE CloseDatabase BY <2>1, <2>6 DEF CloseDatabase, LifeInv, Up
  <2>7. ASSUME NEW n \in NamesIn("servers"), EnterApp(n) PROVE LifeInv'
    BY <2>1, <2>7 DEF EnterApp, LifeInv, Up
  <2>8. ASSUME NEW n \in NamesIn("servers"), LeaveApp(n) PROVE LifeInv'
    BY <2>1, <2>8 DEF LeaveApp, LifeInv, Up
  <2> QED BY <2>2, <2>3, <2>4, <2>5, <2>6, <2>7, <2>8
<1> QED BY <1>2, <1>3, <1>4 DEF IInv

------------------------------------------------------------------------------
\* The steps of runs leave everything else alone.
LEMMA RunsKeep ==
    ASSUME IInv, UNCHANGED <<stage, loading, process>>, stage # "loading", ServiceInv', ResolvedInv'
    PROVE  IInv'
<1>1. LoadInv' /\ UNCHANGED <<catalog, mounts, database, schemas, entered>>
  BY LoadedKeeps DEF IInv, loading, process
<1>2. BuiltInv' /\ LifeInv'
  BY <1>1 DEF IInv, BuiltInv, LifeInv, Loaded, NamesIn
<1> QED BY <1>1, <1>2 DEF IInv

LEMMA StartRunKeeps == ASSUME IInv, NEW p \in Pipelines, StartRun(p) PROVE IInv'
<1> DEFINE r == [pipeline |-> p, status |-> "pending", cancel |-> FALSE, blocked |-> {}]
           n == Len(runs) + 1
<1>1. /\ runs' = Append(runs, r) /\ tracked' = tracked \cup {n}
      /\ latest' = [latest EXCEPT ![p] = n]
  BY DEF StartRun
<1>2. /\ runs \in Seq(Runs) /\ tracked \subseteq DOMAIN runs
      /\ latest \in [Pipelines -> 0..Len(runs)] /\ r \in Runs /\ Len(runs) \in Nat
      /\ RunsAreTracked
  BY DEF IInv, ServiceInv, Runs
<1>3. /\ runs' \in Seq(Runs) /\ Len(runs') = n /\ DOMAIN runs' = DOMAIN runs \cup {n}
      /\ runs'[n] = r /\ \A i \in DOMAIN runs : runs'[i] = runs[i] /\ i <= n /\ i \in 1..Len(runs)
  <2> HIDE DEF r
  <2> QED BY <1>1, <1>2
<1>4. latest' \in [Pipelines -> 0..Len(runs')]
  BY <1>1, <1>2, <1>3
<1>5. RunsAreTracked'
  <2>1. SUFFICES ASSUME NEW i \in DOMAIN runs'
                 PROVE  /\ runs'[i].status \notin Ended
                              => i \in tracked' /\ latest'[runs'[i].pipeline] >= i
                        /\ runs'[i].status = "cancelled" => runs'[i].cancel
    BY DEF RunsAreTracked
  <2>2. CASE i = n
    <3>1. r.status = "pending" /\ r.pipeline = p
      OBVIOUS
    <3>2. latest'[p] = n /\ n \in tracked' /\ n >= n
      BY <1>1, <1>2
    <3> HIDE DEF r, n
    <3> QED BY <1>3, <2>2, <3>1, <3>2 DEF Ended
  <2>3. CASE i \in DOMAIN runs
    <3>1. runs'[i] = runs[i] /\ i <= n /\ i \in Nat /\ runs[i].pipeline \in Pipelines
      <4>1. runs[i] \in Runs
        BY <1>2, <2>3
      <4>2. i \in Nat /\ i <= n /\ runs'[i] = runs[i]
        <5> HIDE DEF n, r
        <5> QED BY <1>2, <1>3, <2>3
      <4> QED BY <4>1, <4>2 DEF Runs
    <3>2. latest'[runs[i].pipeline] \in {latest[runs[i].pipeline], n}
      BY <1>1, <1>2, <3>1
    <3>3. /\ runs[i].status \notin Ended => i \in tracked /\ latest[runs[i].pipeline] >= i
          /\ runs[i].status = "cancelled" => runs[i].cancel
      BY <1>2, <2>3 DEF RunsAreTracked
    <3> QED BY <1>1, <1>2, <3>1, <3>2, <3>3
  <2> QED BY <1>3, <2>2, <2>3
<1>6. ServiceInv'
  BY <1>1, <1>2, <1>3, <1>4, <1>5 DEF ServiceInv
<1>7. ResolvedInv'
  <2>1. UNCHANGED <<stage, catalog>> /\ stage = "serving" /\ Known(r, catalog)
    BY DEF StartRun, loading, Loaded, Known
  <2>2. Resolved(r, catalog)
    BY DEF Resolved
  <2> HIDE DEF r, n
  <2> QED BY <1>3, <2>1, <2>2 DEF IInv, ResolvedInv
<1> QED BY <1>6, <1>7, RunsKeep DEF StartRun

\* One run changes its status or is asked to stop.
LEMMA RunChanges ==
    ASSUME ServiceInv, ResolvedInv, stage # "loading", NEW i \in DOMAIN runs, NEW r \in Runs,
           runs' = [runs EXCEPT ![i] = r], r.pipeline = runs[i].pipeline,
           r.status \notin Ended => runs[i].status \notin Ended,
           r.status = "cancelled" => r.cancel, Resolved(r, catalog),
           UNCHANGED <<stage, catalog, tracked, latest>>
    PROVE  ServiceInv' /\ ResolvedInv'
<1>1. /\ runs \in Seq(Runs) /\ runs' \in Seq(Runs)
      /\ DOMAIN runs' = DOMAIN runs /\ Len(runs') = Len(runs)
      /\ \A j \in DOMAIN runs : runs'[j] = IF j = i THEN r ELSE runs[j]
  BY DEF ServiceInv
<1>2. RunsAreTracked'
  BY <1>1 DEF ServiceInv, RunsAreTracked
<1>3. ResolvedInv'
  BY <1>1 DEF ResolvedInv, Known
<1> QED BY <1>1, <1>2, <1>3 DEF ServiceInv

\* The pipeline of a run has been loaded, from a file that validates.
LEMMA KnownIsChain ==
    ASSUME LoadInv, NEW r, Known(r, catalog) PROVE IsChain(Tasks(r.pipeline))
<1> DEFINE definition == CHOOSE d \in catalog["pipelines"] : d.name = r.pipeline
<1>1. definition \in catalog["pipelines"] /\ Tasks(r.pipeline) = definition.body
  BY DEF Known, Tasks
<1> HIDE DEF definition
<1>2. PICK f \in Files["pipelines"] : definition = Definition(f) /\ f.fault = "none"
  BY <1>1, SectionsApart DEF LoadInv, FaultFree
<1> QED BY <1>1, <1>2, GatewayAssumption DEF Definition

\* The handlers' part: a chain that succeeds has honoured its tasks.
LEMMA SuccessIsResolved ==
    ASSUME LoadInv, NEW r, Known(r, catalog), r.blocked \subseteq Calls(Tasks(r.pipeline)),
           r.status = ChainStatus(Tasks(r.pipeline), NamesIn("servers"), NamesIn("policies"),
                                  r.blocked)
    PROVE  Resolved(r, catalog)
<1> DEFINE tasks == Tasks(r.pipeline)
<1>2. IsChain(tasks)
  BY KnownIsChain
<1>3. SUFFICES ASSUME r.status = "succeeded"
               PROVE  Honoured(tasks, NamesIn("servers"), NamesIn("policies"), r.blocked)
  BY DEF Resolved, NamesIn, Tasks
<1> HIDE DEF tasks
<1>4. /\ ChainStatus(tasks, NamesIn("servers"), NamesIn("policies"), r.blocked) = "succeeded"
      /\ r.blocked \in SUBSET Calls(tasks)
  BY <1>3 DEF tasks
<1> QED BY <1>2, <1>4, SuccessIsHonoured

LEMMA RunStepKeeps ==
    ASSUME IInv, NEW i \in DOMAIN runs, BeginRun(i) \/ CancelRun(i) \/ EndRun(i) PROVE IInv'
<1>1. /\ stage \in {"serving", "leaving"}
      /\ UNCHANGED <<stage, loading, process, catalog, tracked, latest>>
      /\ runs[i].status \notin Ended
  BY DEF BeginRun, CancelRun, EndRun, LoopRuns, Ended, loading
<1>2. runs \in Seq(Runs) /\ runs[i] \in Runs /\ Known(runs[i], catalog)
  BY DEF IInv, ServiceInv, ResolvedInv
<1>3. \E r \in Runs :
        /\ runs' = [runs EXCEPT ![i] = r] /\ r.pipeline = runs[i].pipeline
        /\ r.status = "cancelled" => r.cancel
        /\ Resolved(r, catalog)
  <2> DEFINE With(status) == [runs[i] EXCEPT !.status = status]
             tasks == Tasks(runs[i].pipeline)
             Status(blocked) == ChainStatus(tasks, NamesIn("servers"), NamesIn("policies"), blocked)
  <2>1. ASSUME NEW status \in {"running", "succeeded", "failed", "cancelled"}
        PROVE  /\ With(status) \in Runs /\ With(status).pipeline = runs[i].pipeline
               /\ With(status).status = status /\ With(status).cancel = runs[i].cancel
    BY <1>2 DEF Runs, Ended
  <2>2. \A status : SetStatus(i, status) => runs' = [runs EXCEPT ![i] = With(status)]
    BY DEF SetStatus
  <2>3. \A r : r.status # "succeeded" => Resolved(r, catalog)
    BY DEF Resolved
  <2>4. CASE CancelRun(i)
    <3> DEFINE r == [runs[i] EXCEPT !.cancel = TRUE]
    <3>1. r \in Runs /\ r.pipeline = runs[i].pipeline /\ r.cancel /\ r.status = runs[i].status
      BY <1>2 DEF Runs
    <3>2. runs' = [runs EXCEPT ![i] = r] /\ r.status # "succeeded"
      BY <2>4, <3>1 DEF CancelRun
    <3> HIDE DEF r
    <3> QED BY <2>3, <3>1, <3>2
  <2> HIDE DEF With
  <2>5. CASE BeginRun(i)
    BY <2>1, <2>2, <2>3, <2>5 DEF BeginRun
  <2>6. CASE runs[i].cancel /\ SetStatus(i, "cancelled")
    BY <2>1, <2>2, <2>3, <2>6
  <2>7. ASSUME NEW blocked \in SUBSET Calls(tasks),
               runs' = [runs EXCEPT ![i].status = Status(blocked), ![i].blocked = blocked]
        PROVE  \E r \in Runs :
                 /\ runs' = [runs EXCEPT ![i] = r] /\ r.pipeline = runs[i].pipeline
                 /\ r.status = "cancelled" => r.cancel
                 /\ Resolved(r, catalog)
    <3> DEFINE r == [runs[i] EXCEPT !.status = Status(blocked), !.blocked = blocked]
    <3>1. Status(blocked) \in {"succeeded", "failed"}
      BY DEF ChainStatus
    <3>2. blocked \in SUBSET Nat
      <4>1. Calls(tasks) \subseteq DOMAIN tasks /\ DOMAIN tasks \subseteq Nat
        BY <1>2, KnownIsChain DEF Calls, IsChain, IInv
      <4> QED BY <4>1
    <3>3. /\ r \in Runs /\ r.pipeline = runs[i].pipeline /\ r.status = Status(blocked)
          /\ r.blocked = blocked
      <4> HIDE DEF Status
      <4> QED BY <1>2, <3>1, <3>2 DEF Runs, Ended
    <3>4. runs' = [runs EXCEPT ![i] = r]
      <4> HIDE DEF Status
      <4> QED BY <1>2, <2>7
    <3>5. Resolved(r, catalog)
      <4>1. Known(r, catalog)
        BY <1>2, <3>3 DEF Known
      <4> HIDE DEF r
      <4> QED BY <3>3, <4>1, SuccessIsResolved DEF IInv
    <3> HIDE DEF r, Status
    <3> QED BY <3>1, <3>3, <3>4, <3>5
  <2> QED BY <2>4, <2>5, <2>6, <2>7 DEF EndRun
<1>4. ServiceInv' /\ ResolvedInv'
  BY <1>1, <1>3, RunChanges DEF IInv
<1> QED BY <1>1, <1>4, RunsKeep

LEMMA CompleteRunKeeps == ASSUME IInv, NEW i \in DOMAIN runs, CompleteRun(i) PROVE IInv'
<1>1. ServiceInv'
  BY DEF IInv, ServiceInv, RunsAreTracked, CompleteRun
<1>2. ResolvedInv'
  BY DEF IInv, ResolvedInv, CompleteRun, loading
<1> QED BY <1>1, <1>2, RunsKeep DEF CompleteRun, LoopRuns

THEOREM Invariance == Spec => []IInv
<1>1. IInv /\ [Next]_vars => IInv'
  <2>1. SUFFICES ASSUME IInv, [Next]_vars PROVE IInv'
    OBVIOUS
  <2>2. CASE Load BY <2>1, <2>2, LoadKeeps
  <2>3. CASE Build BY <2>1, <2>3, BuildKeeps
  <2>4. CASE \/ OpenDatabase \/ EnsureSchema \/ Serve \/ Stop \/ CloseDatabase
             \/ \E n \in NamesIn("servers") : EnterApp(n) \/ LeaveApp(n)
    BY <2>1, <2>4, LifespanKeeps
  <2>5. ASSUME NEW p \in Pipelines, StartRun(p) PROVE IInv'
    BY <2>1, <2>5, StartRunKeeps
  <2>6. ASSUME NEW i \in DOMAIN runs, BeginRun(i) \/ CancelRun(i) \/ EndRun(i) PROVE IInv'
    BY <2>1, <2>6, RunStepKeeps
  <2>7. ASSUME NEW i \in DOMAIN runs, CompleteRun(i) PROVE IInv'
    BY <2>1, <2>7, CompleteRunKeeps
  <2>8. CASE UNCHANGED vars
    <3>1. UNCHANGED <<stage, loading, process, runs, tracked, latest>>
      BY <2>8 DEF vars, loading, process
    <3>2. ServiceInv'
      BY <2>1, <3>1 DEF IInv, ServiceInv, RunsAreTracked
    <3>3. LoadInv' /\ UNCHANGED <<catalog, mounts, database, schemas, entered>>
      BY <2>1, <3>1, LoadedKeeps DEF IInv, loading, process
    <3>4. BuiltInv' /\ LifeInv'
      BY <2>1, <3>1, <3>3 DEF IInv, BuiltInv, LifeInv, Loaded, NamesIn
    <3>5. ResolvedInv'
      BY <2>1, <3>1, <3>3 DEF IInv, ResolvedInv
    <3> QED BY <3>2, <3>3, <3>4, <3>5 DEF IInv
  <2> QED BY <2>1, <2>2, <2>3, <2>4, <2>5, <2>6, <2>7, <2>8 DEF Next
<1> QED BY <1>1, InitIInv, PTL DEF Spec

\* Every variable keeps its type; nothing is mounted but the catalog's servers.
THEOREM TypeCorrect == Spec => []TypeOK
<1>1. IInv => TypeOK
  BY DEF IInv, LoadInv, BuiltInv, LifeInv, ServiceInv, Runs, Up, TypeOK
<1> QED BY <1>1, Invariance, PTL

------------------------------------------------------------------------------
\* The concatenations that Layers is made of, for any names of the layers.
LEMMA Join31 ==
    ASSUME NEW S, NEW a \in S, NEW b \in S, NEW c \in S, NEW d \in S
    PROVE  <<a, b, c>> \o <<d>> = <<a, b, c, d>>
<1>1. <<a, b, c>> \in Seq(S) /\ <<d>> \in Seq(S) /\ <<a, b, c, d>> \in Seq(S)
  OBVIOUS
<1>2. Len(<<a, b, c>>) = 3 /\ Len(<<d>>) = 1 /\ Len(<<a, b, c, d>>) = 4
  OBVIOUS
<1>3. <<a, b, c>> \o <<d>> \in Seq(S) /\ Len(<<a, b, c>> \o <<d>>) = 4
  BY <1>1, <1>2, ConcatProperties
<1>4. \A i \in 1..4 : (<<a, b, c>> \o <<d>>)[i] = <<a, b, c, d>>[i]
  BY <1>1, <1>2, ConcatProperties
<1> QED BY <1>1, <1>2, <1>3, <1>4, SeqEqual

LEMMA Join41 ==
    ASSUME NEW S, NEW a \in S, NEW b \in S, NEW c \in S, NEW d \in S, NEW e \in S
    PROVE  <<a, b, c, d>> \o <<e>> = <<a, b, c, d, e>>
<1>1. <<a, b, c, d>> \in Seq(S) /\ <<e>> \in Seq(S) /\ <<a, b, c, d, e>> \in Seq(S)
  OBVIOUS
<1>2. Len(<<a, b, c, d>>) = 4 /\ Len(<<e>>) = 1 /\ Len(<<a, b, c, d, e>>) = 5
  OBVIOUS
<1>3. <<a, b, c, d>> \o <<e>> \in Seq(S) /\ Len(<<a, b, c, d>> \o <<e>>) = 5
  BY <1>1, <1>2, ConcatProperties
<1>4. \A i \in 1..5 : (<<a, b, c, d>> \o <<e>>)[i] = <<a, b, c, d, e>>[i]
  BY <1>1, <1>2, ConcatProperties
<1> QED BY <1>1, <1>2, <1>3, <1>4, SeqEqual

LEMMA Join42 ==
    ASSUME NEW S, NEW a \in S, NEW b \in S, NEW c \in S, NEW d \in S, NEW e \in S, NEW f \in S
    PROVE  <<a, b, c, d>> \o <<e, f>> = <<a, b, c, d, e, f>>
<1>1. <<a, b, c, d>> \in Seq(S) /\ <<e, f>> \in Seq(S) /\ <<a, b, c, d, e, f>> \in Seq(S)
  OBVIOUS
<1>2. Len(<<a, b, c, d>>) = 4 /\ Len(<<e, f>>) = 2 /\ Len(<<a, b, c, d, e, f>>) = 6
  OBVIOUS
<1>3. <<a, b, c, d>> \o <<e, f>> \in Seq(S) /\ Len(<<a, b, c, d>> \o <<e, f>>) = 6
  BY <1>1, <1>2, ConcatProperties
<1>4. \A i \in 1..6 : (<<a, b, c, d>> \o <<e, f>>)[i] = <<a, b, c, d, e, f>>[i]
  BY <1>1, <1>2, ConcatProperties
<1> QED BY <1>1, <1>2, <1>3, <1>4, SeqEqual

LEMMA Join52 ==
    ASSUME NEW S, NEW a \in S, NEW b \in S, NEW c \in S, NEW d \in S, NEW e \in S, NEW f \in S, NEW g \in S
    PROVE  <<a, b, c, d, e>> \o <<f, g>> = <<a, b, c, d, e, f, g>>
<1>1. <<a, b, c, d, e>> \in Seq(S) /\ <<f, g>> \in Seq(S) /\ <<a, b, c, d, e, f, g>> \in Seq(S)
  OBVIOUS
<1>2. Len(<<a, b, c, d, e>>) = 5 /\ Len(<<f, g>>) = 2 /\ Len(<<a, b, c, d, e, f, g>>) = 7
  OBVIOUS
<1>3. <<a, b, c, d, e>> \o <<f, g>> \in Seq(S) /\ Len(<<a, b, c, d, e>> \o <<f, g>>) = 7
  BY <1>1, <1>2, ConcatProperties
<1>4. \A i \in 1..7 : (<<a, b, c, d, e>> \o <<f, g>>)[i] = <<a, b, c, d, e, f, g>>[i]
  BY <1>1, <1>2, ConcatProperties
<1> QED BY <1>1, <1>2, <1>3, <1>4, SeqEqual

\* The stack of a server, for each of the four ways it can be configured.
LEMMA LayersAre ==
    ASSUME NEW d
    PROVE  /\ HasPolicy(d) /\ Guarded(d) => Layers(d) =
                <<"session", "report", "tools", "sql", "guard", "rewrite", "mask">>
           /\ HasPolicy(d) /\ ~Guarded(d) => Layers(d) =
                <<"session", "report", "tools", "sql", "rewrite", "mask">>
           /\ ~HasPolicy(d) /\ Guarded(d) => Layers(d) =
                <<"session", "report", "tools", "guard">>
           /\ ~HasPolicy(d) /\ ~Guarded(d) => Layers(d) = <<"session", "report", "tools">>
<1>1. /\ HasPolicy(d) /\ Guarded(d) => Layers(d) =
           <<"session", "report", "tools">> \o <<"sql">> \o <<"guard">> \o <<"rewrite", "mask">>
      /\ HasPolicy(d) /\ ~Guarded(d) => Layers(d) =
           <<"session", "report", "tools">> \o <<"sql">> \o <<>> \o <<"rewrite", "mask">>
      /\ ~HasPolicy(d) /\ Guarded(d) => Layers(d) =
           <<"session", "report", "tools">> \o <<>> \o <<"guard">> \o <<>>
      /\ ~HasPolicy(d) /\ ~Guarded(d) => Layers(d) =
           <<"session", "report", "tools">> \o <<>> \o <<>> \o <<>>
  BY DEF Layers
<1> DEFINE S == {"session", "report", "tools", "sql", "guard", "rewrite", "mask"}
<1>2. /\ "session" \in S /\ "report" \in S /\ "tools" \in S /\ "sql" \in S /\ "guard" \in S
      /\ "rewrite" \in S /\ "mask" \in S
  OBVIOUS
<1> HIDE DEF S
<1>3. <<"session", "report", "tools">> \o <<"sql">> = <<"session", "report", "tools", "sql">>
  BY <1>2, Join31
<1>4. <<"session", "report", "tools">> \o <<"guard">> = <<"session", "report", "tools", "guard">>
  BY <1>2, Join31
<1>5. <<"session", "report", "tools", "sql">> \o <<"guard">>
         = <<"session", "report", "tools", "sql", "guard">>
  BY <1>2, Join41
<1>6. <<"session", "report", "tools", "sql", "guard">> \o <<"rewrite", "mask">>
         = <<"session", "report", "tools", "sql", "guard", "rewrite", "mask">>
  BY <1>2, Join52
<1>7. <<"session", "report", "tools", "sql">> \o <<"rewrite", "mask">>
         = <<"session", "report", "tools", "sql", "rewrite", "mask">>
  BY <1>2, Join42
<1>8. /\ <<"session", "report", "tools">> \in Seq(S)
      /\ <<"session", "report", "tools", "sql">> \in Seq(S)
      /\ <<"session", "report", "tools", "guard">> \in Seq(S)
  BY <1>2
<1>9. <<"session", "report", "tools">> \o <<>> = <<"session", "report", "tools">>
  BY <1>8, ConcatEmptySeq
<1>10. <<"session", "report", "tools", "sql">> \o <<>> = <<"session", "report", "tools", "sql">>
  BY <1>8, ConcatEmptySeq
<1>11. <<"session", "report", "tools", "guard">> \o <<>> = <<"session", "report", "tools", "guard">>
  BY <1>8, ConcatEmptySeq
<1> QED BY <1>1, <1>3, <1>4, <1>5, <1>6, <1>7, <1>9, <1>10, <1>11

\* What a stack holds, and which layer wraps which.
LEMMA StackIsGoverned ==
    ASSUME NEW d
    PROVE  /\ Layers(d)[1] = "session"
           /\ \A n \in {"tools", "sql", "guard", "rewrite", "mask"} :
                Has(Layers(d), n) => Wraps(Layers(d), "report", n)
           /\ Has(Layers(d), "guard") <=> Guarded(d)
           /\ ~HasPolicy(d) => \A n \in {"sql", "rewrite", "mask"} : ~Has(Layers(d), n)
           /\ HasPolicy(d) =>
                /\ Wraps(Layers(d), "sql", "rewrite") /\ Wraps(Layers(d), "rewrite", "mask")
                /\ Guarded(d) =>
                     Wraps(Layers(d), "sql", "guard") /\ Wraps(Layers(d), "guard", "mask")
<1>1. CASE HasPolicy(d) /\ Guarded(d)
  <2> DEFINE l == <<"session", "report", "tools", "sql", "guard", "rewrite", "mask">>
  <2>1. Layers(d) = l BY <1>1, LayersAre
  <2>2. /\ DOMAIN l = 1..7 /\ l[1] = "session" /\ l[2] = "report" /\ l[3] = "tools"
        /\ l[4] = "sql" /\ l[5] = "guard" /\ l[6] = "rewrite" /\ l[7] = "mask"
    OBVIOUS
  <2> HIDE DEF l
  <2> QED BY <1>1, <2>1, <2>2 DEF Has, Wraps
<1>2. CASE HasPolicy(d) /\ ~Guarded(d)
  <2> DEFINE l == <<"session", "report", "tools", "sql", "rewrite", "mask">>
  <2>1. Layers(d) = l BY <1>2, LayersAre
  <2>2. /\ DOMAIN l = 1..6 /\ l[1] = "session" /\ l[2] = "report" /\ l[3] = "tools"
        /\ l[4] = "sql" /\ l[5] = "rewrite" /\ l[6] = "mask"
    OBVIOUS
  <2> HIDE DEF l
  <2> QED BY <1>2, <2>1, <2>2 DEF Has, Wraps
<1>3. CASE ~HasPolicy(d) /\ Guarded(d)
  <2> DEFINE l == <<"session", "report", "tools", "guard">>
  <2>1. Layers(d) = l BY <1>3, LayersAre
  <2>2. /\ DOMAIN l = 1..4 /\ l[1] = "session" /\ l[2] = "report" /\ l[3] = "tools"
        /\ l[4] = "guard"
    OBVIOUS
  <2> HIDE DEF l
  <2> QED BY <1>3, <2>1, <2>2 DEF Has, Wraps
<1>4. CASE ~HasPolicy(d) /\ ~Guarded(d)
  <2> DEFINE l == <<"session", "report", "tools">>
  <2>1. Layers(d) = l BY <1>4, LayersAre
  <2>2. DOMAIN l = 1..3 /\ l[1] = "session" /\ l[2] = "report" /\ l[3] = "tools"
    OBVIOUS
  <2> HIDE DEF l
  <2> QED BY <1>4, <2>1, <2>2 DEF Has, Wraps
<1> QED BY <1>1, <1>2, <1>3, <1>4

LEMMA MountIsGoverned ==
    ASSUME NEW d \in catalog["servers"], HasPolicy(d) => Loaded("policies", d.body.policy)
    PROVE  Governed(Mount(d))
<1>1. /\ Mount(d).name = d.name /\ Mount(d).policy = d.body.policy
      /\ Mount(d).layers = Layers(d)
  BY DEF Mount
<1>2. Guarded(d) <=> (d.body.guard = "on" \/ (d.body.guard = "default" /\ GuardByDefault))
  BY DEF Guarded
<1>3. HasPolicy(d) <=> d.body.policy # NoPolicy
  BY DEF HasPolicy
<1>4. HasPolicy(d) => \E q \in catalog["policies"] : q.name = d.body.policy
  BY DEF Loaded
<1> HIDE DEF Mount
<1> QED BY <1>1, <1>2, <1>3, <1>4, StackIsGoverned DEF Governed

\* The graph of a workflow has no way around its server or its policies.
LEMMA WorkflowIsDescribed == ASSUME NEW d PROVE Described(d)
<1> DEFINE w == d.body
           source == Node("source", w.source, NamesIn("sources"))
           mcp == Node("mcp", w.server, NamesIn("servers"))
           output == Node("output", w.output, NamesIn("outputs"))
           between == PolicyNodes(w, NamesIn("policies"))
           nodes == {source, mcp, output} \cup between
           edges == {<<source, mcp>>}
                      \cup (IF between = {} THEN {<<mcp, output>>}
                            ELSE {<<mcp, q>> : q \in between} \cup {<<q, output>> : q \in between})
           From(n) == {m \in nodes : <<n, m>> \in edges}
<1>1. /\ Shown(d).valid <=> \A n \in nodes : ~n.missing
      /\ Shown(d).nodes = nodes /\ Shown(d).edges = edges
  BY DEF Shown, Summary, Nodes, Edges
<1>2. /\ source.kind = "source" /\ mcp.kind = "mcp" /\ output.kind = "output"
      /\ \A q \in between : q.kind = "policy"
  BY DEF Node, PolicyNodes
<1>3. between = {} <=> w.policies = {}
  BY DEF PolicyNodes
<1>4. ASSUME \A n \in nodes : ~n.missing
      PROVE  /\ w.source \in NamesIn("sources") /\ w.server \in NamesIn("servers")
             /\ w.policies \subseteq NamesIn("policies") /\ w.output \in NamesIn("outputs")
  <2>1. ~source.missing /\ ~mcp.missing /\ ~output.missing
    BY <1>4
  <2>2. \A q \in w.policies : ~Node("policy", q, NamesIn("policies")).missing
    BY <1>4 DEF PolicyNodes
  <2> QED BY <2>1, <2>2 DEF Node
<1> HIDE DEF source, mcp, output, between
<1>5. /\ edges \subseteq nodes \X nodes
      /\ \A m : <<source, m>> \in edges <=> m = mcp
      /\ \A m : <<output, m>> \notin edges
      /\ \A m : <<mcp, m>> \in edges <=> IF between = {} THEN m = output ELSE m \in between
      /\ \A q \in between : \A m : <<q, m>> \in edges <=> m = output
  BY <1>2
<1> HIDE DEF edges
<1>6. From(source) = {mcp} /\ From(output) = {}
  BY <1>5
<1>7. /\ From(mcp) = IF between = {} THEN {output} ELSE between
      /\ \A q \in between : From(q) = {output}
  BY <1>5
<1> HIDE DEF From
<1>8. \A n \in nodes :
        /\ From(n) = {} <=> n.kind = "output"
        /\ n.kind = "source" => \A m \in From(n) : m.kind = "mcp"
        /\ n.kind = "mcp" => \A m \in From(n) :
             m.kind = IF w.policies = {} THEN "output" ELSE "policy"
  BY <1>2, <1>3, <1>6, <1>7
<1> HIDE DEF nodes
<1>9. \A n : From(n) = {m \in Shown(d).nodes : <<n, m>> \in Shown(d).edges}
  BY <1>1 DEF From
<1> QED BY <1>1, <1>4, <1>5, <1>8, <1>9 DEF Described

\* No loader loses a file that is on, keeps one that says false or lets a faulty
\* one pass, and what is served is what was loaded: every server behind exactly
\* the layers it is configured to have, in the order that lets the policy see the
\* statement first and the result last.
THEOREM ServedSafety == Spec => []ServedAsConfigured
<1>1. IInv => ServedAsConfigured
  <2>1. SUFFICES ASSUME IInv PROVE ServedAsConfigured
    OBVIOUS
  <2>2. KeptAsWritten /\ OneDefinitionPerName /\ (stage \notin Up => mounts = {})
    BY <2>1, WrittenIsKept DEF IInv, LoadInv, BuiltInv
  <2>3. ASSUME stage \in Up
        PROVE  /\ {m.name : m \in mounts} = NamesIn("servers")
               /\ \A m \in mounts : Governed(m)
               /\ \A m, n \in mounts : m.name = n.name => m = n
    <3>1. mounts = {Mount(d) : d \in catalog["servers"]}
      BY <2>1, <2>3 DEF IInv, BuiltInv
    <3>2. \A d : Mount(d).name = d.name
      BY DEF Mount
    <3>3. {m.name : m \in mounts} = NamesIn("servers")
      BY <3>1, <3>2 DEF NamesIn
    <3>4. \A m \in mounts : Governed(m)
      BY <2>1, <2>3, <3>1, MountIsGoverned DEF IInv, BuiltInv
    <3>5. ASSUME NEW d \in catalog["servers"], NEW e \in catalog["servers"], d.name = e.name
          PROVE  d = e
      BY <2>2, <3>5, SectionsApart DEF OneDefinitionPerName
    <3>6. \A m, n \in mounts : m.name = n.name => m = n
      BY <3>1, <3>2, <3>5
    <3> QED BY <3>3, <3>4, <3>6
  <2> QED BY <2>2, <2>3, WorkflowIsDescribed DEF ServedAsConfigured
<1> QED BY <1>1, Invariance, PTL

\* The database outlives every MCP app, also when the way in fails half-way.
THEOREM DatabaseSafety == Spec => []DatabaseCoversApps
<1>1. IInv => DatabaseCoversApps
  BY DEF IInv, LifeInv, DatabaseCoversApps
<1> QED BY <1>1, Invariance, PTL

\* Every run that is not over is in the table of running tasks, by which it is
\* cancelled, none is cancelled unasked, and none succeeds past an enabled
\* fail-hard task whose reference is not loaded, whose call the guard blocked or
\* whose required output nobody put out, however long its chain of tasks is.
THEOREM RunsAccountedFor == Spec => []RunsAreAccountedFor
<1>1. IInv => RunsAreTracked
  BY DEF IInv, ServiceInv
<1>2. IInv => SuccessesResolve
  BY DEF IInv, ResolvedInv, Resolved, NamesIn, Tasks, SuccessesResolve
<1> QED BY <1>1, <1>2, Invariance, PTL DEF RunsAreAccountedFor

------------------------------------------------------------------------------
\* A step of one run, as it is seen from outside.
LEMMA RunStepFollows ==
    ASSUME IInv, NEW i \in DOMAIN runs, BeginRun(i) \/ CancelRun(i) \/ EndRun(i),
           NEW j \in DOMAIN runs
    PROVE  FromOutside(j)!Next \/ UNCHANGED <<runs[j].status, runs[j].cancel>>
<1>1. runs \in Seq(Runs) /\ runs[i] \in Runs
  BY DEF IInv, ServiceInv
<1>2. ASSUME NEW r \in Runs, runs' = [runs EXCEPT ![i] = r]
      PROVE  runs'[j] = IF j = i THEN r ELSE runs[j]
  BY <1>1, <1>2
<1>3. ASSUME NEW status \in {"running", "succeeded", "failed", "cancelled"}, SetStatus(i, status)
      PROVE  /\ j # i => runs'[j] = runs[j]
             /\ runs'[i].status = status /\ runs'[i].cancel = runs[i].cancel
  <2> DEFINE r == [runs[i] EXCEPT !.status = status]
  <2>1. r \in Runs /\ r.status = status /\ r.cancel = runs[i].cancel
    BY <1>1 DEF Runs, Ended
  <2>2. runs' = [runs EXCEPT ![i] = r]
    BY <1>3 DEF SetStatus
  <2> HIDE DEF r
  <2> QED BY <1>1, <2>1, <2>2
<1>4. CASE BeginRun(i)
  BY <1>3, <1>4 DEF BeginRun, FromOutside!Next, FromOutside!Begin
<1>5. CASE CancelRun(i)
  <2>1. /\ j # i => runs'[j] = runs[j]
        /\ runs'[i].status = runs[i].status /\ runs'[i].cancel = TRUE
    BY <1>1, <1>5 DEF CancelRun, Runs
  <2> QED BY <1>5, <2>1 DEF CancelRun, FromOutside!Next, FromOutside!Cancel
<1>6. CASE EndRun(i)
  <2>1. CASE runs[i].cancel /\ SetStatus(i, "cancelled")
    BY <1>3, <1>6, <2>1 DEF EndRun, FromOutside!Next, FromOutside!Abort
  <2>2. ASSUME NEW status \in {"succeeded", "failed"}, NEW blocked, ~runs[i].cancel,
               runs' = [runs EXCEPT ![i].status = status, ![i].blocked = blocked]
        PROVE  FromOutside(j)!Next \/ UNCHANGED <<runs[j].status, runs[j].cancel>>
    <3>1. /\ j # i => runs'[j] = runs[j]
          /\ runs'[i].status = status /\ runs'[i].cancel = runs[i].cancel
      BY <1>1, <2>2 DEF Runs
    <3> QED BY <1>6, <2>2, <3>1 DEF EndRun, FromOutside!Next, FromOutside!End
  <2> QED BY <1>6, <2>1, <2>2 DEF EndRun, ChainStatus
<1> QED BY <1>4, <1>5, <1>6

\* Runs do not disturb each other: each one goes through the steps of the
\* contract that the executor implements, and is started at its beginning.
THEOREM RunsContract == Spec => RunsFollowContract
<1> DEFINE Follows ==
      /\ \A i \in DOMAIN runs : FromOutside(i)!Next \/ UNCHANGED <<runs[i].status, runs[i].cancel>>
      /\ \A i \in DOMAIN runs' \ DOMAIN runs :
           runs'[i].status = "pending" /\ ~runs'[i].cancel
<1>1. IInv /\ [Next]_vars => [Follows]_vars
  <2> SUFFICES ASSUME IInv, [Next]_vars PROVE Follows \/ UNCHANGED vars
    OBVIOUS
  <2>1. ASSUME UNCHANGED runs PROVE Follows
    BY <2>1
  <2>2. ASSUME NEW p \in Pipelines, StartRun(p) PROVE Follows
    <3> DEFINE r == [pipeline |-> p, status |-> "pending", cancel |-> FALSE, blocked |-> {}]
    <3>1. runs \in Seq(Runs) /\ r \in Runs /\ r.status = "pending" /\ ~r.cancel
      BY DEF IInv, ServiceInv, Runs
    <3>2. runs' = Append(runs, r)
      BY <2>2 DEF StartRun
    <3> HIDE DEF r
    <3>3. /\ \A i \in DOMAIN runs : runs'[i] = runs[i]
          /\ \A i \in DOMAIN runs' \ DOMAIN runs : runs'[i] = r
      BY <3>1, <3>2
    <3> QED BY <3>1, <3>3
  <2>3. ASSUME NEW i \in DOMAIN runs, BeginRun(i) \/ CancelRun(i) \/ EndRun(i) PROVE Follows
    <3>1. DOMAIN runs' = DOMAIN runs
      BY <2>3 DEF BeginRun, CancelRun, EndRun, SetStatus, IInv, ServiceInv
    <3> QED BY <2>3, <3>1, RunStepFollows
  <2>4. ASSUME NEW i \in DOMAIN runs, CompleteRun(i) PROVE UNCHANGED runs
    BY <2>4 DEF CompleteRun
  <2>5. CASE \/ Load \/ Build \/ OpenDatabase \/ EnsureSchema \/ Serve \/ Stop \/ CloseDatabase
             \/ \E n \in NamesIn("servers") : EnterApp(n) \/ LeaveApp(n)
    <3>1. UNCHANGED runs
      BY <2>5 DEF Load, Build, OpenDatabase, EnsureSchema, Serve, Stop, CloseDatabase, EnterApp,
                  LeaveApp, service
    <3> QED BY <2>1, <3>1
  <2> QED BY <2>1, <2>2, <2>3, <2>4, <2>5 DEF Next
<1> QED BY <1>1, Invariance, PTL DEF Spec, RunsFollowContract
===============================================================================
