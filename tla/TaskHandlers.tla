----------------------------- MODULE TaskHandlers -----------------------------
(***************************************************************************)
(* The built-in handlers of pipeline tasks (app/services/pipelines/        *)
(* handlers) and what they make of a pipeline whose tasks form a chain,    *)
(* each depending on the one before: graphs that branch, retries and       *)
(* timeouts are PipelineExecutor's.                                        *)
(*                                                                         *)
(* A task is a record of its type, whether it is enabled, the name its     *)
(* config refers to, another option of the config that matters to its      *)
(* handler, and its on_failure.                                            *)
(* A result is a status and the keys of its output, each key standing for  *)
(* the fields of the thing that was put out; of an output that only wraps  *)
(* others the key is "wrapped".                                            *)
(***************************************************************************)
EXTENDS Naturals, Sequences

TaskTypes == {"source", "policy", "transform", "validation", "guard", "mcp_server",
              "output", "custom"}

\* The tasks of a definition that validates: at least one, of these types.
IsChain(tasks) ==
    /\ tasks \in Seq({tasks[k] : k \in DOMAIN tasks}) /\ tasks # <<>>
    /\ \A k \in DOMAIN tasks : tasks[k].type \in TaskTypes

Succeeded(keys) == [status |-> "succeeded", keys |-> keys]
FailedWith(keys) == [status |-> "failed", keys |-> keys]

\* McpServerHandler and PolicyHandler: a reference to something loaded is put
\* out, any other is a failure.
McpServer(task, servers) ==
    IF task.name \in servers THEN Succeeded({"server"}) ELSE FailedWith({})

Policy(task, policies) ==
    IF task.name \in policies THEN Succeeded({"policy"}) ELSE FailedWith({})

\* SourceHandler: a source that is no server's is an inline one.
Source(task, servers) == Succeeded({IF task.name \in servers THEN "source" ELSE "config"})

\* TransformHandler
Transform(task, inputs) ==
    IF task.option = "merge" THEN Succeeded({"config"} \cup UNION {r.keys : r \in inputs})
    ELSE IF task.option = "collect" THEN Succeeded({"wrapped"})
    ELSE FailedWith({})

\* Variant: the statuses of the dependencies are enough.
ValidationByStatus(task, inputs) ==
    IF \A r \in inputs : r.status \in {"succeeded", "skipped"}
    THEN Succeeded({"wrapped"}) ELSE FailedWith({})

\* ValidationHandler: the dependencies ended well and put out the required key.
ValidationOf(task, inputs) ==
    IF /\ \A r \in inputs : r.status \in {"succeeded", "skipped"}
       /\ task.option = "nothing" \/ \E r \in inputs : task.option \in r.keys
    THEN Succeeded({"wrapped"}) ELSE FailedWith({})

\* GuardHandler: without a call it only shows its configuration.
Guard(task, verdict) ==
    IF task.option # "call" THEN Succeeded({"wrapped"})
    ELSE IF verdict = "block" THEN FailedWith({"verdict"}) ELSE Succeeded({"verdict"})

\* OutputHandler and CustomHandler wrap what they are given.
Output == Succeeded({"wrapped"})
Custom == Succeeded({"wrapped"})

\* The result of the handler that the registry has for the task's type.
Handled(task, inputs, servers, policies, verdict) ==
    CASE task.type = "source" -> Source(task, servers)
      [] task.type = "mcp_server" -> McpServer(task, servers)
      [] task.type = "policy" -> Policy(task, policies)
      [] task.type = "transform" -> Transform(task, inputs)
      [] task.type = "validation" -> ValidationOf(task, inputs)
      [] task.type = "guard" -> Guard(task, verdict)
      [] task.type = "output" -> Output
      [] task.type = "custom" -> Custom

\* _apply_failure_mode: a tolerated failure keeps its output.
Tolerated(task, result) ==
    IF result.status # "failed" \/ task.onFailure = "fail" THEN result
    ELSE [result EXCEPT !.status = IF task.onFailure = "skip" THEN "skipped" ELSE "succeeded"]

\* _execute_task: a task that is disabled is skipped, whatever its on_failure.
TaskResult(task, inputs, servers, policies, verdict) ==
    IF ~task.enabled THEN [status |-> "skipped", keys |-> {}]
    ELSE Tolerated(task, Handled(task, inputs, servers, policies, verdict))

\* A failure ends the chain.
Over(results) == results # <<>> /\ results[Len(results)].status = "failed"

\* The guards of a chain that are asked about a call; it is external to the
\* chain which of them block.
Calls(tasks) ==
    {k \in DOMAIN tasks :
       tasks[k].enabled /\ tasks[k].type = "guard" /\ tasks[k].option = "call"}

\* The results of the first i tasks, from those of the first i - 1.
OneMore(i, results, tasks, servers, policies, blocked) ==
    LET inputs == IF i = 1 THEN {} ELSE {results[i - 1]}
        verdict == IF i \in blocked THEN "block" ELSE "allow" IN
    IF Over(results) THEN results
    ELSE Append(results, TaskResult(tasks[i], inputs, servers, policies, verdict))

\* The results of a chain, up to the first failure.
ChainResults(tasks, servers, policies, blocked) ==
    LET upTo[i \in 0..Len(tasks)] ==
          IF i = 0 THEN <<>>
          ELSE OneMore(i, upTo[i - 1], tasks, servers, policies, blocked)
    IN upTo[Len(tasks)]

\* How the run of a chain ends.
ChainStatus(tasks, servers, policies, blocked) ==
    LET results == ChainResults(tasks, servers, policies, blocked) IN
    IF results[Len(results)].status = "failed" THEN "failed" ELSE "succeeded"

------------------------------------------------------------------------------
\* What the success of a chain stands for.

Resolves(task, servers, policies) ==
    /\ task.type = "mcp_server" => task.name \in servers
    /\ task.type = "policy" => task.name \in policies

\* The output of the task is what a required key of this name stands for ...
Provides(task, key, servers, policies) ==
    /\ task.enabled
    /\ \/ key = "server" /\ task.type = "mcp_server" /\ task.name \in servers
       \/ key = "policy" /\ task.type = "policy" /\ task.name \in policies
       \/ key = "verdict" /\ task.type = "guard" /\ task.option = "call"

\* ... or is made of the outputs it was given.
HandsOn(task) == task.enabled /\ task.type = "transform" /\ task.option = "merge"

ProvidedBefore(k, key, tasks, servers, policies) ==
    \E j \in 1..(k - 1) :
      /\ Provides(tasks[j], key, servers, policies)
      /\ \A m \in (j + 1)..(k - 1) : HandsOn(tasks[m])

\* No enabled task whose failure is not tolerated names what is not loaded, was
\* blocked by the guard, or required an output that nobody before it put out.
Honoured(tasks, servers, policies, blocked) ==
    \A k \in DOMAIN tasks : tasks[k].enabled /\ tasks[k].onFailure = "fail" =>
      /\ Resolves(tasks[k], servers, policies)
      /\ k \notin blocked
      /\ tasks[k].type = "validation" /\ tasks[k].option \in {"server", "policy", "verdict"} =>
           ProvidedBefore(k, tasks[k].option, tasks, servers, policies)
===============================================================================
