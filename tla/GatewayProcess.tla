---------------------------- MODULE GatewayProcess ----------------------------
(***************************************************************************)
(* One gateway process from start to stop: GatewayApplication.build loads  *)
(* the configuration and assembles a proxy with its middleware for every   *)
(* server, the combined lifespans open the database and enter each MCP     *)
(* app, the gateway serves and runs pipelines, and on the way out, or when *)
(* a step of the way in fails, what was entered is left in reverse.        *)
(*                                                                         *)
(* The container gives the application all its optional parts: database,   *)
(* stores, guard service, rewriter and pipeline executor.  Apps are        *)
(* entered in the order of the servers' names.  A run of a pipeline is one *)
(* step here; PipelineExecutor models its inside.  A process that has      *)
(* stopped or is killed takes its runs with it: what asyncio does to those *)
(* that are left is seen by nobody and is no action.                       *)
(***************************************************************************)
EXTENDS Configuration, TaskHandlers, WorkflowGraph

CONSTANTS NoPolicy,        \* a server definition without a policy
          GuardByDefault,  \* GuardSettings.enabled
          MaxRuns          \* pipeline runs that are started (a bound)

ASSUME GatewayAssumption ==
    /\ GuardByDefault \in BOOLEAN
    /\ MaxRuns \in Nat
    /\ \A f \in Files["servers"] : f.name \in Nat
    /\ \A f \in Files["pipelines"] : f.fault = "none" => IsChain(f.body)

VARIABLES mounts,    \* the proxies: server, policy and middleware of each
          database,  \* whether the engine is open
          schemas,   \* schemas ensured: of auth, then session, then history
          entered,   \* the servers whose MCP app's lifespan is entered
          runs,      \* PipelineService._runs, in the order they were started
          tracked,   \* PipelineService._running_tasks
          latest     \* PipelineService._latest_runs, 0 for none

process == <<mounts, database, schemas, entered>>
service == <<runs, tracked, latest>>
vars == <<stage, section, files, catalog, mounts, database, schemas, entered, runs, tracked, latest>>

NamesIn(s) == {d.name : d \in catalog[s]}

Pipelines == {f.name : f \in Files["pipelines"]}

Init ==
    /\ LoadingInit
    /\ mounts = {}
    /\ database = "closed"
    /\ schemas = 0
    /\ entered = {}
    /\ runs = <<>>
    /\ tracked = {}
    /\ latest = [p \in Pipelines |-> 0]

Load == Loading /\ UNCHANGED <<process, service>>

------------------------------------------------------------------------------
\* The server's own setting wins over the global one.
Guarded(d) == d.body.guard = "on" \/ (d.body.guard = "default" /\ GuardByDefault)

HasPolicy(d) == d.body.policy # NoPolicy

\* Variant: the result is masked before the guard is asked.
LayersSwapped(d) ==
    <<"session", "report", "tools">>
    \o (IF HasPolicy(d) THEN <<"sql", "mask">> ELSE <<>>)
    \o (IF Guarded(d) THEN <<"guard">> ELSE <<>>)
    \o (IF HasPolicy(d) THEN <<"rewrite">> ELSE <<>>)

\* ProxyFactory.create: the middleware around a server, outermost first.
Layers(d) ==
    <<"session", "report", "tools">>
    \o (IF HasPolicy(d) THEN <<"sql">> ELSE <<>>)
    \o (IF Guarded(d) THEN <<"guard">> ELSE <<>>)
    \o (IF HasPolicy(d) THEN <<"rewrite", "mask">> ELSE <<>>)

Mount(d) == [name |-> d.name, policy |-> d.body.policy, layers |-> Layers(d)]

\* Variant: an unknown policy is no policy.
BuildAnyway ==
    /\ stage = "loaded"
    /\ stage' = "built"
    /\ mounts' = {Mount(d) : d \in catalog["servers"]}
    /\ UNCHANGED <<loading, database, schemas, entered, service>>

\* build_mcp_app for every server: a policy nobody has loaded ends the startup.
Build ==
    /\ stage = "loaded"
    /\ IF \E d \in catalog["servers"] : HasPolicy(d) /\ ~Loaded("policies", d.body.policy)
       THEN stage' = "failed" /\ UNCHANGED mounts
       ELSE /\ stage' = "built"
            /\ mounts' = {Mount(d) : d \in catalog["servers"]}
    /\ UNCHANGED <<loading, database, schemas, entered, service>>

------------------------------------------------------------------------------
\* _database_lifespan is the first of the lifespans.
OpenDatabase ==
    /\ stage = "built"
    /\ stage' = "entering" /\ database' = "open"
    /\ UNCHANGED <<loading, mounts, schemas, entered, service>>

EnsureSchema ==
    /\ stage = "entering" /\ schemas < 3
    /\ \/ schemas' = schemas + 1 /\ UNCHANGED stage
       \/ stage' = "leaving" /\ UNCHANGED schemas
    /\ UNCHANGED <<loading, mounts, database, entered, service>>

EnterApp(n) ==
    /\ stage = "entering" /\ schemas = 3
    /\ n \in NamesIn("servers") \ entered
    /\ \A m \in NamesIn("servers") \ entered : n <= m
    /\ \/ entered' = entered \cup {n} /\ UNCHANGED stage
       \/ stage' = "leaving" /\ UNCHANGED entered
    /\ UNCHANGED <<loading, mounts, database, schemas, service>>

\* Every lifespan is entered: requests are answered from now on.
Serve ==
    /\ stage = "entering" /\ schemas = 3 /\ entered = NamesIn("servers")
    /\ stage' = "serving"
    /\ UNCHANGED <<loading, process, service>>

Stop ==
    /\ stage = "serving"
    /\ stage' = "leaving"
    /\ UNCHANGED <<loading, process, service>>

LeaveApp(n) ==
    /\ stage = "leaving" /\ n \in entered
    /\ \A m \in entered : m <= n
    /\ entered' = entered \ {n}
    /\ UNCHANGED <<stage, loading, mounts, database, schemas, service>>

\* Variant: the database is closed first.
CloseDatabaseFirst ==
    /\ stage = "leaving" /\ database = "open"
    /\ database' = "closed"
    /\ stage' = IF entered = {} THEN "stopped" ELSE "leaving"
    /\ UNCHANGED <<loading, mounts, schemas, entered, service>>

\* The finally of _database_lifespan.
CloseDatabase ==
    /\ stage = "leaving" /\ entered = {}
    /\ stage' = "stopped" /\ database' = "closed"
    /\ UNCHANGED <<loading, mounts, schemas, entered, service>>

------------------------------------------------------------------------------
Ended == {"succeeded", "failed", "cancelled"}

Tasks(p) == (CHOOSE d \in catalog["pipelines"] : d.name = p).body

SetStatus(i, status) == runs' = [runs EXCEPT ![i].status = status]

LoopRuns == stage \in {"serving", "leaving"}

\* POST .../pipelines/{name}/runs and PipelineService.start.
StartRun(p) ==
    /\ stage = "serving" /\ Loaded("pipelines", p) /\ Len(runs) < MaxRuns
    /\ runs' = Append(runs, [pipeline |-> p, status |-> "pending", cancel |-> FALSE,
                             blocked |-> {}])
    /\ tracked' = tracked \cup {Len(runs) + 1}
    /\ latest' = [latest EXCEPT ![p] = Len(runs) + 1]
    /\ UNCHANGED <<stage, loading, process>>

\* execute begins.
BeginRun(i) ==
    /\ LoopRuns /\ runs[i].status = "pending"
    /\ SetStatus(i, "running")
    /\ UNCHANGED <<stage, loading, process, tracked, latest>>

\* POST .../pipeline-runs/{id}/cancel and PipelineService.cancel: a run that
\* is over is left as it is.
CancelRun(i) ==
    /\ stage = "serving"
    /\ i \in tracked /\ runs[i].status = "running" /\ ~runs[i].cancel
    /\ runs' = [runs EXCEPT ![i].cancel = TRUE]
    /\ UNCHANGED <<stage, loading, process, tracked, latest>>

\* execute ends: with what the handlers made of the tasks, or cancelled.  The
\* guard blocks any of the calls it is asked about, which the run keeps as a
\* history.
EndRun(i) ==
    /\ LoopRuns /\ runs[i].status = "running"
    /\ \/ runs[i].cancel /\ SetStatus(i, "cancelled")
       \/ /\ ~runs[i].cancel
          /\ LET tasks == Tasks(runs[i].pipeline) IN
             \E blocked \in SUBSET Calls(tasks) :
               runs' = [runs EXCEPT
                          ![i].status = ChainStatus(tasks, NamesIn("servers"),
                                                    NamesIn("policies"), blocked),
                          ![i].blocked = blocked]
    /\ UNCHANGED <<stage, loading, process, tracked, latest>>

\* Variant: the callback takes the newest run of the pipeline for its own.
CompleteLatest(i) ==
    /\ LoopRuns /\ i \in tracked /\ runs[i].status \in Ended
    /\ tracked' = tracked \ {latest[runs[i].pipeline]}
    /\ UNCHANGED <<stage, loading, process, runs, latest>>

\* The task's done callback, _complete_run.
CompleteRun(i) ==
    /\ LoopRuns /\ i \in tracked /\ runs[i].status \in Ended
    /\ tracked' = tracked \ {i}
    /\ UNCHANGED <<stage, loading, process, runs, latest>>

Next ==
    \/ Load
    \/ Build
    \/ OpenDatabase
    \/ EnsureSchema
    \/ \E n \in NamesIn("servers") : EnterApp(n) \/ LeaveApp(n)
    \/ Serve
    \/ Stop
    \/ CloseDatabase
    \/ \E p \in Pipelines : StartRun(p)
    \/ \E i \in DOMAIN runs : BeginRun(i) \/ CancelRun(i) \/ EndRun(i) \/ CompleteRun(i)

Spec == Init /\ [][Next]_vars

------------------------------------------------------------------------------
\* Variables range over what the process can hold.
TypeOK ==
    /\ LoadingTypeOK
    /\ stage \in {"loading", "loaded", "failed", "built", "entering", "serving",
                  "leaving", "stopped"}
    /\ mounts \subseteq {Mount(d) : d \in catalog["servers"]}
    /\ database \in {"closed", "open"}
    /\ schemas \in 0..3
    /\ entered \subseteq NamesIn("servers")
    /\ runs \in Seq([pipeline : Pipelines, status : {"pending", "running"} \cup Ended,
                     cancel : BOOLEAN, blocked : SUBSET Nat])
    /\ tracked \subseteq DOMAIN runs
    /\ latest \in [Pipelines -> 0..Len(runs)]

Up == {"built", "entering", "serving", "leaving", "stopped"}

\* m is a layer of the stack and wraps n.
Wraps(layers, m, n) ==
    \E i, j \in DOMAIN layers : i < j /\ layers[i] = m /\ layers[j] = n

Has(layers, m) == \E i \in DOMAIN layers : layers[i] = m

\* A proxy answers to the definition of its server: the policy it names has
\* been loaded, is checked before the guard or the rewriter sees the statement,
\* and masks the result before the guard and the report see it; the guard is
\* there if the server's setting, or else the global one, asks for it.
Governed(m) ==
    \E d \in catalog["servers"] :
      /\ m.name = d.name /\ m.policy = d.body.policy
      /\ m.layers[1] = "session"
      /\ \A n \in {"tools", "sql", "guard", "rewrite", "mask"} :
           Has(m.layers, n) => Wraps(m.layers, "report", n)
      /\ Has(m.layers, "guard") <=>
           (d.body.guard = "on" \/ (d.body.guard = "default" /\ GuardByDefault))
      /\ IF m.policy = NoPolicy
         THEN \A n \in {"sql", "rewrite", "mask"} : ~Has(m.layers, n)
         ELSE /\ \E q \in catalog["policies"] : q.name = m.policy
              /\ Wraps(m.layers, "sql", "rewrite") /\ Wraps(m.layers, "rewrite", "mask")
              /\ Has(m.layers, "guard") =>
                   Wraps(m.layers, "sql", "guard") /\ Wraps(m.layers, "guard", "mask")

\* GET .../workflows
Shown(d) == Summary(d.body, NamesIn("sources"), NamesIn("servers"), NamesIn("policies"),
                    NamesIn("outputs"))

\* A workflow that is shown as valid names only what is loaded, and in the graph
\* of any workflow all the ways from the source lead to the output, past the
\* server and, if the workflow has policies, past one of them.
Described(d) ==
    LET shown == Shown(d)
        From(n) == {m \in shown.nodes : <<n, m>> \in shown.edges}
    IN /\ shown.valid => /\ d.body.source \in NamesIn("sources")
                         /\ d.body.server \in NamesIn("servers")
                         /\ d.body.policies \subseteq NamesIn("policies")
                         /\ d.body.output \in NamesIn("outputs")
       /\ shown.edges \subseteq shown.nodes \X shown.nodes
       /\ \A n \in shown.nodes :
            /\ From(n) = {} <=> n.kind = "output"
            /\ n.kind = "source" => \A m \in From(n) : m.kind = "mcp"
            /\ n.kind = "mcp" => \A m \in From(n) :
                 m.kind = IF d.body.policies = {} THEN "output" ELSE "policy"

\* What is served is what was loaded, and what was loaded are all the files that
\* are on and none that says false, one per name (README: what becomes of other
\* false values); once the application is built every server of the catalog has
\* one proxy, which is governed as it is configured, and every workflow is
\* described as what it names is loaded
\* (config_loader.py:47-72, mcp.py:25-33, proxy_factory.py:76-133, graph.py:30-83).
ServedAsConfigured ==
    /\ KeptAsWritten
    /\ OneDefinitionPerName
    /\ stage \notin Up => mounts = {}
    /\ stage \in Up =>
         /\ {m.name : m \in mounts} = NamesIn("servers")
         /\ \A m \in mounts : Governed(m)
         /\ \A m, n \in mounts : m.name = n.name => m = n
         /\ \A d \in catalog["workflows"] : Described(d)

\* The database is open, with every schema in place, before the first MCP app
\* starts and until the last one has ended, whichever step of the way in fails;
\* a process that stops has closed it (application.py:121-131, 179-193).
DatabaseCoversApps ==
    /\ entered # {} => database = "open" /\ schemas = 3
    /\ stage = "serving" => database = "open" /\ schemas = 3 /\ entered = NamesIn("servers")
    /\ stage \notin {"entering", "serving", "leaving"} => database = "closed"

\* From outside, every run is a PipelineRun, whatever becomes of the others and
\* of the process: it is added as a new one, and each step of the process is a
\* step of it or leaves it alone (pipelines/service.py:53-110).
FromOutside(i) == INSTANCE PipelineRun WITH status <- runs[i].status, cancel <- runs[i].cancel

RunsFollowContract ==
    [][/\ \A i \in DOMAIN runs : FromOutside(i)!Next \/ UNCHANGED <<runs[i].status, runs[i].cancel>>
       /\ \A i \in DOMAIN runs' \ DOMAIN runs :
            runs'[i].status = "pending" /\ ~runs'[i].cancel]_vars

\* As long as a run is not over it can be found and cancelled, and it ends as
\* cancelled only when it was asked to.
RunsAreTracked ==
    \A i \in DOMAIN runs :
      /\ runs[i].status \notin Ended => i \in tracked /\ latest[runs[i].pipeline] >= i
      /\ runs[i].status = "cancelled" => runs[i].cancel

\* A run succeeds only if every enabled task whose failure is not tolerated was
\* honoured: what it names is loaded, the guard allowed its call, and the output
\* it requires was put out before, also when failures in between are tolerated
\* or tasks are disabled.
SuccessesResolve ==
    \A i \in DOMAIN runs : runs[i].status = "succeeded" =>
      Honoured(Tasks(runs[i].pipeline), NamesIn("servers"), NamesIn("policies"), runs[i].blocked)

\* A run is accounted for while it lasts and after it has ended
\* (pipelines/service.py:53-110, executor.py:107-140, handlers/validation.py:29-55).
RunsAreAccountedFor == RunsAreTracked /\ SuccessesResolve
===============================================================================
