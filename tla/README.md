# Verification of the AI-SafeDB gateway

TLA+ modules, TLC runs and TLAPS proofs about the MCP gateway under `src/app`. The modules are
translated from the Python source; `PROJECT.json` maps every definition that models code to the
lines it models (`"map"`), lists the parts of the system (`"components"`), the runs, the hazards
that the properties are for, and the theorems. File names below are relative to `src/app` unless
they start with `src/`.

## The system

An MCP client (an agent) talks to the gateway, a FastAPI/FastMCP process. The gateway
authenticates it by an API key, recognizes its MCP session, and proxies its tool calls to
configured MCP servers, mostly servers that run SQL. On the way a call passes a chain of
middleware (`proxy_factory.py:62-136`):

    SessionAuth -> ToolReport -> ToolPolicy -> SqlPolicy -> LlmGuard
                -> PiiHashRewrite -> PiiMasking -> upstream server

Beside that there is a management API: pipelines that run task graphs in the background, a web
console with its own users, and listings of past calls. Everything runs on one asyncio loop per
process; the state that outlives a request is in Postgres.

### Components

| Component | State it keeps | Operations | Hard behaviour | What makes it correct |
|---|---|---|---|---|
| MCP sessions (`services/session/service.py`, `http/session_terminate.py`, `domain/routes/v1/sessions.py`) | table of sessions (owner key, `data_key`, `last_seen_at`, `closed_at`), API keys | authenticate, open, touch, get, latest open, close, two data-key routes | every method is a transaction of its own: read and UPDATE of different requests interleave; idle expiry; re-initialize re-binds a row | one data key per session, never another's; only an initialize binds or re-opens; keys are disclosed to their owner only |
| Tool-call chain (`middleware.py`, `reporting.py`) | request-scoped report, hashed-columns state | one `tools/call` | awaits at the guard, the store, the model, the server and the history; the session can end and the call be cancelled at each; failures follow `on_error` | only cleared statements leave; failing closed; the report and the history tell what happened and hold no key |
| SQL policy (`policies/sql.py`, `policies/models.py`) | none (one immutable policy per server) | enforce, expand stars, drop columns, projected columns | the same statement is judged at several stages of its transformation | what leaves satisfies the policy |
| PII rewriter (`services/rewriter/service.py`) | none | rewrite: ask the model, validate, retry once | a model may answer anything, two nested retries | an accepted rewrite keeps names and references every target |
| Guard (`services/guard/`) | cache of verdicts by text | review call, review result | concurrent reviews of one text, failures cached as verdicts, TTL | recent verdicts, failures follow `on_error` |
| LLM client (`llm/openai_compatible.py`) | semaphore | complete | bounded concurrency, retry, cancellation, error translation | permits conserved, everybody is served |
| Pipeline definitions (`services/pipelines/models.py`) | none | validation of a task graph | cycle detection | accepts exactly the acyclic graphs |
| Pipeline executor (`services/pipelines/executor.py`) | one run: status and tasks | execute, with retries, failure modes, cancellation | waves of tasks under a semaphore; timeouts; a cancellation at any await | order, nothing at work when it is over, final verdicts, termination |
| Pipeline service (`services/pipelines/service.py`) | runs, tasks under way, latest run by name | start, get, cancel, completion callback | runs outlive the request; the callback of one run comes after the start of the next | a run can be found and cancelled until it is over; nobody is told "cancelled" who did not ask |
| Task handlers (`services/pipelines/handlers/`) | none | one `execute` each | a tolerated failure hands its output on | a run succeeds only if what it may not do without is loaded |
| Web authentication (`services/auth/service.py`, `domain/dependencies.py`, routes) | users, browser sessions | login, resolve (sliding TTL), logout, create and update users, the administrator seeded at start | resolve is a SELECT and an UPDATE that other requests come between; the user is read once and used after | nobody without standing is let in, no session outlives a TTL without use, a logout stays one, updates do not undo each other |
| History (`services/history/service.py`, routes) | table of calls | record, list by page, facets, get | a page and its total are two statements; lines are added while somebody pages, not in the order of their dates; the session may be re-bound during a call | nobody who pages misses a line, no total counts a line no page can show, a line keeps its owner |
| Red-team agent (`agents/redteam.py`) | transcript | bounded loop of model and tools | step and wall-clock limits | limits hold, the transcript is kept |
| Loading of configuration (`services/config_loader.py`, `policies/loader.py`, `services/pipelines/loader.py`, `services/workflows/loader.py`, `core/config.py`) | definitions by name, once read | read six folders of YAML at start | four loops with different ideas of "switched off", duplicates, dangling references | nothing inconsistent is served |
| Assembly (`domain/application.py`, `domain/mcp.py`, `proxy_factory.py`, `core/container.py`, `core/database.py`) | a proxy for each server, the engine, entered lifespans | build, start, stop | a step of the start fails after others were taken; order of the middleware | each server has the chain it is configured with; the database is open as long as an app runs |
| Workflow graph (`services/workflows/graph.py`) | none | summary of a workflow | a picture built apart from what is enforced | it names what is missing, and what it shows as valid is loaded |
| Prefilters, settings, logging, tracing, in-memory stores, frontend | none of their own | - | - | - |

### How they interact

* SessionAuth calls the session store: `open_session` on initialize, `touch` on every other
  request. PiiHashRewrite and ToolReport call `get_session` later in the same request, and find
  the row as other requests have left it.
* LlmGuard calls the guard, PiiHashRewrite the rewriter; both share one LLM client and its
  semaphore (`core/container.py:76-96`).
* PiiHashRewrite tells PiiMasking by one flag in the request's state that the call was hashed
  (`middleware.py:653`), and LlmGuard by the list of columns and by the report.
* ToolReport, outermost, catches what the inner middleware raise and hands the report to the
  history store.
* The history store is read by the two consoles: by a user for the API keys that are his, by the
  manager for all. The routes ask web authentication first.
* The pipeline service starts one asyncio task per run, which calls the executor; a pipeline's
  guard task calls the same guard service, and its other tasks look their references up in what
  has been loaded.
* The application reads the configuration, builds a chain for every server and enters the
  lifespans: the database first, then each MCP app.

The hazards that follow from this are listed, each at its line, in `PROJECT.json` under
`"hazards"`, with the property that would fail.

## Modules

| Module | Models | Kind |
|---|---|---|
| `SessionLifecycle` | what a session is: opened, granted to requests while open, closed | abstract specification |
| `SessionStore` | the store and its request paths | state machine |
| `SessionStore_proof` | its theorems | proofs |
| `SqlPolicy` | `SqlPolicyEnforcer` and the rewriter's validation | operators |
| `GatewayCall` | what the gateway promises of one tool call | abstract specification |
| `ToolCall` | one tool call through the middleware chain | state machine |
| `ToolCall_proof` | its theorems | proofs |
| `LlmServices` | guard, rewriter and LLM client under contention | state machine |
| `LlmServices_proof` | its theorems | proofs |
| `TaskGraph` | the acyclic task graphs | operators |
| `PipelineDag`, `PipelineDag_proof` | validation of a pipeline definition | state machine, proofs |
| `PipelineRun` | what a run looks like to those who start, poll and cancel it | abstract specification |
| `PipelineExecutor`, `PipelineExecutor_proof` | a definition that is validated, registered and run; extends `PipelineDag` | state machine, proofs |
| `Configuration` | the folders of YAML files and their loaders | part of a state machine |
| `TaskHandlers` | the handlers of pipeline tasks and a chain of them | operators |
| `WorkflowGraph` | the graph shown of a workflow | operators |
| `GatewayProcess`, `GatewayProcess_proof` | the process from start to stop, with the pipeline service; extends the three above | state machine, proofs |
| `WebAuth`, `WebAuth_proof` | users and browser sessions of the consoles | state machine, proofs |
| `CallHistory`, `CallHistory_proof` | lines of history and paging, composed with `SessionLifecycle` | state machine, proofs |
| `MC*` | instances for TLC | |

Operators named "Variant" in a comment are not part of a specification: each is the action or
helper before which it stands with a plausible bug in it, and is there to show that a property
notices the bug (`"mutants"`).

### SessionStore

`rows` is the sessions table by `mcp_session_id`, `revoked` the keys whose `revoked_at` is set,
`minted` numbers the data keys given to inserted rows (a key is random in the code; a fresh number
is what the properties need of it), `req[r]` is what request slot `r` is doing. A store method is
cut at the awaits where another request can run: between the SELECT and the UPDATE of `touch`
(`TouchRead`, then `TouchRefresh` or `ExpireCommit`), of `get_session` (`AuditRead`,
`DataKeyRead`, then `ExpireCommit`) and of `get_latest_open_session` (`LatestRead`, then
`ExpireCommit`), and between the upsert and the read-back of `open_session` (`Upsert`,
`FetchOpened`). An UPDATE names only the columns that were assigned, so `TouchRefresh` writes
`lastSeen` and nothing else: this is what keeps a stale `touch` from reviving a row, and the
mutant that writes the whole row shows it. `close_session` is one conditional UPDATE, one step.

`SessionLifecycle` says what is meant: a session is opened for a key, granted to a request only
while it is open and for the key it is bound to, closed, and re-opened only by opening. The
refinement maps the read of a row to the instant of the grant, which is why a grant may outlive a
close: that is the code's behaviour, not a weakness of the mapping.

### SqlPolicy and ToolCall

A statement is a record: its tables, the tables of its stars, its projections (which column, under
which output name, hashed or not), the columns it names elsewhere, whether it passes the checks of
kind, keywords and tables, and whether its text holds the placeholder or the key. `Enforced`,
`ExpandStars`, `DropColumns`, `Projected`, `ValidRewrite` follow the functions of the same names.
Joins, subqueries, qualifiers, several statements in one text and the resolution of table names are
not told apart; every column name belongs to one table.

`ValidRewrite` asks what the rewriter's `_validate` asks: the placeholder somewhere in the text,
every column to hash somewhere in it, in a projection or not, and the output names unchanged. It
does not ask whether the one is wrapped in the other, so a rewrite that filters by a "mask" column
and projects it raw is valid, in the code and in the model, and `FailClosedHashes` says no more
than that what leaves holds the data key and names those columns.

`ToolCall` follows one call. Its steps end at the awaits of `middleware.py`: `Admit` (ToolPolicy
and SqlPolicy, which do not wait), `ReviewCall`, `Prepare` or `PrepareRejects` (expansion and drop
of every argument), `ResolveSession`, `RewriteAccepted` or `RewriteFails` for one argument after
the other, `Assemble`, `UpstreamAnswers` with PiiMasking over the result, `ReviewResult`,
`Persist` and `Record`. `CloseSession` and `Cancel` come between any two of them, and `Fails` is
any exception nobody translates. The model and the upstream server are external: a rewrite is any
statement over the same projections, a result holds the fields the statements ask for, or any
columns if the tool takes no SQL.

`GatewayCall` is the contract: sent at most once and cleared, a success only after sending, one
line of history at most that tells how the call ended. `ToolCall` implements it.

### LlmServices

A job is one call of `review_call`, `review_result` or `rewrite`. `Review` runs up to the client
with the prefilter, the cache and the shortcut for protected results; a prompt is a subject, which
stands for its cache key. `Acquire` is the semaphore; the outcomes of a POST are `CannotConnect`
(retried once under the same permit), `Unavailable` (timeout, HTTP error, no completion), `Breaks`
(any other transport error), `GivesVerdict`, `GivesRewrite`, `GivesGarbage`. `CancelJob` is the
cancellation of the caller. Cache entries carry, as history, who decided them about what.

### TaskGraph, PipelineDag, PipelineExecutor, PipelineRun

`PipelineDag` runs `validate_dag` over arbitrary definitions: names may repeat, dependencies may
be unknown, be the task itself or close a cycle. One turn of the loop of `_assert_acyclic` is one
`Visit`. Its history variable `rank` is the order of the visits, which the proof of exactness
needs.

`PipelineExecutor` goes on with the definition that has been accepted: the loader registers it
(`Register`), a request starts a run (`Start`), and waves of ready tasks follow (`ScheduleWave`),
each child up to the semaphore (`StartTask`), its permit (`Acquire`), its handler's end
(`HandlerReturns`, or `HandlerRaises` for an exception or a timeout), the join (`JoinWave`).
`Cancel` is `PipelineService.cancel`; `Abort`, `Unwind` and `CancelRun` are what asyncio and the
executor make of it. That the executor may rely on the validation, and on nothing else, is what
makes `NeverStalls` a property of the two together.

`PipelineRun` is the contract of a run: one status, which reaches one end, and that is `cancelled`
if and only if somebody asked before. `PipelineExecutor` implements it, and so does each run of
`GatewayProcess` (`RunsFollowContract`), so that the process may take a run for one step of the
contract at a time.

### Configuration, TaskHandlers, WorkflowGraph, GatewayProcess

`Configuration` reads six folders in the order of `GatewayApplication.build`. One turn of a
loader's loop is one `ReadFile`, for a file that TLC makes up while reading: what its `enabled`
says, whether it can be read and validates, its name and body. The loaders differ, and so do
`Skipped` and `Refused`: most leave out a file whose `enabled` is any false value, pipelines only
`false` itself, policies have no such field and refuse it; the first two folders must exist.
`KeptAsWritten` is stated of what a file says and not of those tests: every file without the field
is kept, in order and without fault, and none that says `false`. Between the two are the values
under "Worth knowing", which the loaders keep although they validate to false.

`GatewayProcess` then builds a proxy for each server (`Build`, with the layers of
`ProxyFactory.create`), opens the database and ensures three schemas, each of which may fail
(`OpenDatabase`, `EnsureSchema`), enters the MCP apps in the order of their names (`EnterApp`,
which may fail as well), serves, and leaves in reverse (`LeaveApp`, `CloseDatabase`), after `Stop`
or after a failure. While it serves, runs are started, begin, are cancelled, end, and their
callback runs (`StartRun`, `BeginRun`, `CancelRun`, `EndRun`, `CompleteRun`); those that are under
way may go on while the process leaves. What a run ends with is computed by `ChainStatus` of
`TaskHandlers` from the definition, what has been loaded and which of its guards block the call
they are asked about (`Calls`), which is external. A task that is disabled is skipped and puts
nothing out, whatever its `on_failure` (`TaskResult`). The inside of a run and graphs that branch
are `PipelineExecutor`'s.

Three things the code does that a reader might not expect, and the module says as they are:

* `enabled` is tested before validation (see "Worth knowing").
* A workflow shown as valid only names what is loaded. That the policies it shows are those
  enforced at its server is not compared anywhere; what is enforced is the server's own `policy`.
* References of pipelines are looked up when a task runs, not at start, so a dangling one is a
  failed task (and with `on_failure` set to `skip` or `warn` a tolerated one). `SuccessesResolve`
  is what is left to rely on: of its enabled tasks with `on_failure: fail`, a run that succeeded has
  none that names what is not loaded, that is a guard which blocked, or that required a server, a
  policy or a verdict which no enabled task before it put out and the merges in between handed on.

### WebAuth

`users` and `web` are the two tables, by username and by token, `req[r]` is what a request is
doing. `Authenticate` and `CreateSession` are the two statements of a login, `Present`, `Select`
and `Refresh` those of `resolve_session`: the stamp is taken when the method is entered
(`Present`), the row and its user are read in one join (`Select`), and the UPDATE sets
`expires_at` alone by token (`Refresh`). `require_admin_session` looks at the role it was handed
(`Admitted`). `UpdateRead` and `UpdateWrite` are `update_user`, whose UPDATE names the columns
that differ from what was read; `Restart` seeds the administrator again. As history a session
carries the times of its uses, and a request the highest rank its user has had since it was made:
a demotion during a request does not stop it, but no request gets what its user was never entitled
to.

Cookies, password hashes, `last_seen_at` and what the views return are left out. The cookie gets
its lifetime at login and not again, so a browser may forget a session the table still holds.
Nothing in the code keeps the last administrator from demoting or disabling himself.

### CallHistory

The sessions are those of `SessionLifecycle`, which `SessionStore` implements: `Open`, `Close`,
`Start` and the ends of a call are its steps with the calls as requests, so what is said of lines
of history rests on the contract of sessions and not on their implementation. `Compose` is the
part of `_persist` up to the INSERT: the session is read once more, the line takes the key found
then and the time of its construction, and a call whose session has ended leaves no line. `Insert`
commits the line, in any order with others. A client (`walk[w]`) asks for a page at any offset
(`Enter`), which is a count (`Count`) and a select (`Rows`), and once it has the answer for the next
one (`NextPage`) while the total says there is one or while pages are full. `IsPage` says what ORDER
BY, LIMIT and OFFSET may return, with ties in any order.

Clients are external, as is the console in the browser. That console does not wait: its button for
the next page goes by the last total it was given, also while a request is under way and after the
filter was changed (`src/frontend/src/pages/HistoryPage.tsx:479`, `301-309`), so it may ask for a
page that is not there. To the server each such request is one more `Enter` at some offset; nothing
is said of what the browser makes of the answers.

`WalkFindsAll` is stated for pages by date that are asked for until one is not full. It does not
hold by a column with ties, for which the query has no tie-breaker, nor for a reader who stops
where the total says so: the total is counted before the page is selected, and lines added in
between push older ones beyond it. No text of the repository promises either. `PageAgreesWithTotal`
is what holds in the other direction, for every order and offset: a page that is not full ends the
listing by its total too, which counts no line that is neither on the page nor before it. It rests
on the order of the two statements.

## Runs

| Run | Instance | What it shows |
|---|---|---|
| `SessionStore` | 2 sessions, 2 keys, 2 requests at a time, TTL 1, clock to 2 | data keys, ownership, binding and the refinement of the lifecycle under every interleaving of two requests |
| `SessionStaleClose` | 1 session, 1 key, 2 requests, clock to 4 | finding: a late idle close ends a session in use |
| `Pipeline` | 3 tasks, names 1..4, every definition over them, 2 permits, 1 retry | validation accepts exactly the acyclic definitions and its cycle error leads to a cycle; runs of what it accepts keep the order, never stall, leave no handler behind, end with a verdict that agrees with the tasks, change no result, and end |
| `Gateway` | 2 server names, 1 policy, source, output, workflow and pipeline name, folders of up to 2 files, 2 runs | what is served is what the files say; the database is open around the apps; runs are accounted for |
| `LlmServices` | 2 jobs, 1 permit, 2 texts (the model is asked about the first), TTL 0, clock to 1 | permits, cache, failure policy, and every job ends |
| `LlmRewriteFailure` | 1 job | finding: an untranslated transport error |
| `ToolCall` | 2 tables with a column each, 1 alias, up to 2 SQL arguments, 8 policies, 5 queries, all settings | clearance, failing closed, the report, masking, the guard, and the contract of a call |
| `ToolCallExecuted` | same | finding: sent but not in `executed_sql` |
| `ToolCallFallback` | same | finding: no masking for the argument that fell back |
| `ToolCallDropped` | same | finding: a column reported as dropped is still selected |
| `WebAuth` | 2 users, 2 tokens, 2 requests at a time, TTL 2, clock to 2 | standing, expiry, logout and updates under every interleaving of two requests |
| `CallHistory` | 1 session, 2 keys (of a user, of nobody), a second user without keys, 3 calls, 1 client that begins at offset 0 or 2, pages of one line, 3 orders | paging while lines are added, the total beside the page, and the owner of a line |

Why the bounds are enough. Sessions: a race needs two requests and a close or a tick between them;
two sessions let a key or a data key go to the wrong one; with TTL 1 a clock that reaches 2 makes
both an expired and a fresh row. The clock runs to 4 in the violation, so that the row is
refreshed after it expired. Pipelines: three tasks make chains, forks, joins and independent
pairs, two permits make one of three wait, one retry tells the first attempt from the last.
Definitions of three tasks over four names have unknown names, duplicates, cycles of length 1 to
3, and a cycle with a task behind it. The process: two files in a folder are the least that share
a name or follow one another; two servers give the lifespans an order, and one may fail after the
other was entered; the policy a server or a workflow names is there or not; the six chains have a
failure tolerated as `skip` and as `warn` before a task that requires its output, guards that block
or not, a merge between an output and who requires it, disabled tasks with and without somebody who
requires their output, and an inline source; two runs of one pipeline make the latest one not the
only one.
`GuardByDefault` is off, and servers say on, off and nothing. LLM: two jobs on one permit are the
least contention, two texts let a verdict be served for the wrong one, the clock tells a fresh
entry from a stale one; the theorems lift the TTL. Tool calls: a second argument is what the
whole-call flag and the report get wrong; one column that is always hashed and one that takes
every action, declared or not, reach every branch of preparation; the alias separates output names
from columns, and a column that is only named in the rest of a statement tells `refs` from
projections. Browser sessions: a race needs two requests, two tokens let one user have two
sessions or each user one; the bodies of updates demote, promote with a password, disable and
enable; a clock of TTL length makes a session refreshed in time and one that is not. History: a
page must be able to shift by a line while another is still unseen, which takes three lines on
pages of one; two keys let a line fall to the wrong one; clients do not influence each other, so
one is enough, and an offset of 2 is beyond, at or before the end of what is there.

TLC explores each run's whole state space, up to the symmetry sets where they are used: in
`SessionStore`, `WebAuth` and `CallHistory`, whose properties are invariants, action properties
and a refinement without fairness.

`CHECK_DEADLOCK FALSE` is given where the system stops: a refused definition, a finished run, an
ended call, a process that has stopped or failed to start.

## Fairness

* `PipelineExecutor`: weak fairness of the validation and the executor as a whole. Validation is a
  sequential function; the event loop runs every coroutine that can go on, and `asyncio.wait_for`
  ends a handler that does not return. The two come one after the other. Nobody has to start a run
  or to cancel it.
* `LlmServices`: weak fairness of the answer to a POST (httpx gives it a timeout, and every
  outcome is allowed) and strong fairness of `Acquire` (asyncio's semaphore serves its waiters
  first in first out, so a waiter is not passed over for ever).
* `ToolCall`, `SessionStore`, `WebAuth`, `CallHistory` and `GatewayProcess` have safety properties
  only: an upstream server reached over stdio has no timeout, so the code does not promise that a
  call ends.

## Proofs

Every theorem holds for all values of the constants under the assumptions named in the modules
(`SessionAssumption`, `TaskGraphAssumption`, `PipelineAssumption`, `NamesAssumption`,
`LlmAssumption`, `SqlAssumption`, `ToolCallAssumption`, `WebAuthAssumption`, `HistoryAssumption`,
`ConfigurationAssumption`, `GatewayAssumption`): they say that the special values are not members
of the sets, that bounds are numbers, for `ToolCall` that a client's statement does not already
hold a data key or a hash, and for `GatewayProcess` that a pipeline file that validates holds a
non-empty chain of tasks of known types (`min_length=1` and `TaskType` in
`services/pipelines/models.py`).

Each proof module states an inductive invariant as a conjunction of named parts, proves that
`Init` implies it and that each action preserves it (theorem `Invariance`), and derives the
properties.

* Sessions. `DataKeyIdentifiesSession` is not inductive: that two sessions never share a data key
  needs that every stored key is at most `minted` and that an absent row has key 0; and a
  request's copy has to be related to a row that may have been re-bound in between, which holds
  because no step changes the data key of a row that exists. `Refinement` maps each step to a step
  of `SessionLifecycle` or a stutter. `StaleCloseNeedsOverlap` goes with the violation
  `SessionStaleClose`: a session is closed before its TTL only if another request of it writes
  `last_seen_at` between the read and the UPDATE of the close.
* Pipelines. `SomeTaskIsFree` is the graph fact: among the tasks of a non-empty set one of least
  rank depends on none of the set. From it and the invariant that `pending` loses exactly the
  joined waves follows that the stall branch is dead. `HandlerSafety` (no run is over, and nothing
  that depends on a task decided, while its handler is at work) needs the same invariant together
  with where each child is when a group is aborted. That results are final needs where each
  child is: a child that still has a step to take has an unfinished task. Exactness of the
  validation uses the order of visits as the rank of an accepted graph, and, for a rejected one,
  that every unvisited task keeps an unvisited dependency, so none of least rank exists.
  `RunRefinement` reads the status of `PipelineRun` off the run; it needs that the first wave is
  never empty, so that every run is seen running, and that only a run that is under way is
  cancelled. `NothingGoesOnForEver` and `NothingStandsStill` are the safety half of `PipelineEnds`:
  a number that every step lowers, built from the tasks left, the attempts left and the places
  of the children, and some step that can be taken while a run is not over, which needs that a
  full semaphore has a holder that is not waiting itself.
* Gateway process. What a loader has kept says nothing of the folders still to come, so the
  invariant adds that those are empty (`LoadInv`). `BuiltInv` says that what is mounted is the
  catalog, which no later step changes, and from it the order of the middleware follows for every
  combination of guard and policy. `LifeInv` says for each stage what is open, ensured and
  entered; `ServiceInv` is inductive as it is. `RunsContract` shows that each run, whatever
  becomes of the others, goes through the steps of `PipelineRun`. `RunsAccountedFor` says further
  what the success of a run stands for. The results of a chain are a recursive
  function of the task's number, and what they mean for a chain of any length is shown without an
  induction theorem: if it failed for some task there would be a first one, and the task before it
  contradicts that. It also needs that only files without fault are kept (`FaultFree`), so that
  what runs is a chain of known tasks.
* LLM services. Permits are conserved by counting the jobs that post, with the cardinality
  theorems; a cached entry is about its own subject, not in the future, and blames an error only
  for the verdict `on_error` names. `JobsComeToAnEnd` and `NobodyWaitsInVain` are the safety half
  of `JobsEnd`: the rounds and POSTs a job has left go down with each of its steps, and a job
  waits only while a permit is free or another job posts. `OnlyBrokenConnectionsRaise` goes with
  the violation `LlmRewriteFailure`: nothing else makes `rewrite` break its docstring.
* Tool calls. The invariant says for each place in the chain what has been established when the
  call is there (what was admitted, enforced, answered, reported), that an accepted answer was
  enforced and holds the placeholder, and that no report entry holds the key; the refinement of
  `GatewayCall` follows from it. For `ResultFollowsRules` it adds that as long as no column is
  known to be hashed nothing that is sent hashes one, since what is prepared holds no hash and a
  rewritten argument has a column to hash (`ResultInv`). The lemmas it rests on say what expansion
  and drop leave of a statement: its output names (`PreparedNames`, `DropNames`) and that it still
  satisfies the policy (`PreparedEnforced`). Three theorems say how far the refuted properties do
  hold: `OutputSafety` (a dropped output name is never sent, `ToolCallDropped` being about a
  column under another name), `ReportCompleteness` (a report that names any statement names all
  the gateway changed, against `ToolCallExecuted`), `FallbackSafety` (masking applies as long as
  no argument was rewritten, against `ToolCallFallback`). `CallsComeToAnEnd` bounds the steps of a
  call and `CallsNeverStick` gives it a next one; neither says that the server answers.
* Web authentication. `UsesLeaveNoGap` is not inductive, because a late request may put its stamp
  between two uses and move the expiry backwards. `NoHole` is: any moment between two uses lies
  between two that are less than a TTL apart; it survives a use wherever that falls, as long as it
  follows another by less than a TTL. Of standing the invariant says, for each statement of a
  request, that the rank it will be let in with has been seen. From the same invariant follows
  `AccountSafety`: only a request whose user was an enabled administrator at some time since it was
  made, or the restart that seeds one, changes an account.
* History. `WalkFindsAll` speaks of the last page only. The invariant (`ProgressOk`) says of each
  line still to be shown that at least as many lines come before it as the walk has skipped: lines
  only ever join, so this survives every insertion, at whichever end, and `PageShowsNext` is the
  step: such a line is on the next page or behind a full one. It needs that no two lines have the
  same date, which is where a column with ties fails. `TotalSafety` needs that what was counted is
  still there to select, and that a page that is not full has all that is left
  (`ShortPageIsTheEnd`).

Only model-checked: the liveness properties `PipelineEnds` and `JobsEnd`. That steps which can be
taken are taken is fairness and ENABLED, which the prover does not support; that they run out, and
that until then there is one, is proved. Every invariant and every other action property of a
passing run is a theorem. The properties of violation runs are refuted, not proved.

## Findings

Five places where the code does not do what a document or a comment of the repository says; the
counterexample of each is the run of that name, and a theorem (named in brackets) bounds how far
the code departs from it.

1. `SessionStaleClose`: `touch`, `get_session` and `get_latest_open_session` write an idle close
   from the `last_seen_at` they have read, by row id alone. If another request refreshes or
   re-initializes the session in between, a session in use is closed. [`StaleCloseNeedsOverlap`]
2. `LlmRewriteFailure`: transport errors other than connect errors and timeouts leave the LLM
   client untranslated, so `rewrite` neither returns `None` nor raises `LlmUnavailableError` as
   its docstring says; with `on_error = "allow"` the call fails.
   [`OnlyBrokenConnectionsRaise`]
3. `ToolCallExecuted`: `executed_sql` misses statements that were sent: all of them when the
   session has ended and `on_error` is `allow`, and with two SQL arguments one that needed no
   change. [`ReportCompleteness`]
4. `ToolCallFallback`: one flag per call says that the query was hashed. With two SQL arguments,
   one hashed and one that fell back, the second's columns come back raw. [`FallbackSafety`]
5. `ToolCallDropped`: `drop_columns` compares output names. A `drop` column under an alias stays
   in the query, while the report says it was dropped and the guard, told the same, allows the
   result without asking the model. [`OutputSafety`]

## Plan

Done, in order of weight: the session store with its lifecycle; the pipeline validation, executor
and contract; guard, rewriter and LLM client; the tool-call chain with its contract; web
authentication; the history of calls; the configuration, its assembly and the process with its
runs; their proofs, with what bounds the steps of a run, a job and a call, and what bounds the
findings.

Next: joins and qualified names in `SqlPolicy`, where a column may belong to several tables, and
the lemmas about expansion and drop for them.

## Not modelled

* The red-team agent (`agents/redteam.py`): a client outside the gateway, one sequential loop that
  is bounded by its `for` and its timeout. Its transcript is a local variable that is handed out
  when `run` returns, so a run that times out or fails leaves none; no text of the repository
  promises more.
* Regular expressions of the prefilters (their outcome is a parameter of `LlmServices`), SQL
  parsing, YAML, prompts, formats of reports and results.
* Settings (`core/config.py`): values read once, which appear as constants.
* Logging, tracing, deployment files, the frontend.
* The lists of filter values (`list_facets`) and other reads whose answers nothing depends on.
* The in-memory stores, which are doubles for tests.
* Failures of the database other than as exceptions that end a request or the start: it is taken
  to run each statement atomically, as Postgres does under read committed.
* What asyncio does to the runs that are under way when the process ends: they are lost with it,
  and nothing keeps them.

Worth knowing: `PipelineService` keeps every finished run until the process ends; `open_session`
takes its time stamp before it writes, so two requests may write `last_seen_at` out of order, by
less than a request's length.

Each loader tests `enabled` before validation (`services/config_loader.py:61`): a text such as
`"${X:-false}"` or `"false"` is true there, so the file is kept and its server mounted, although
the field validates to false; and the pipeline loader leaves out only `false` itself, so `enabled:
0` is kept. Nothing later asks again. The docstrings of the loaders
(`services/config_loader.py:46`, `services/pipelines/loader.py:39`,
`services/workflows/loader.py:51`), that of `PipelineCatalog` (`services/pipelines/models.py:109`)
and `src/mcp-servers/README.md:16`, with the `${VAR:-fallback}` of line 27 for any string, say
that only enabled definitions are returned. The models keep such files as the code does (`"text"`,
`"falsy"` of `Configuration`), and no property takes the documents' side. A role or a standing
that changes between the SELECT of a request and what it does is not noticed by that request, and
a restart makes the seeded user an administrator again whatever was decided about it;
`AcceptedHasStanding` allows both.

## Running

    tlc -config SessionStore.cfg MCSessionStore
    tlapm SessionStore_proof.tla

and likewise for the other runs of `PROJECT.json` and the other `_proof` modules.
