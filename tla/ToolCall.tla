-------------------------------- MODULE ToolCall --------------------------------
(***************************************************************************)
(* One tools/call through the middleware of a proxied server               *)
(* (app/proxy_factory.py, app/middleware.py), from the session check to    *)
(* the answer and its line of history.  Outermost first: ToolReport,       *)
(* ToolPolicy, SqlPolicy, LlmGuard, PiiHashRewrite, PiiMasking, upstream.  *)
(* A step is the code from one await to the next; at each await the MCP    *)
(* session may be closed by somebody else and the call may be cancelled.   *)
(* The language model, the upstream server and the database are external:  *)
(* they may answer anything or fail.                                       *)
(***************************************************************************)
EXTENDS Naturals, FiniteSets, SqlPolicy

CONSTANTS Args,      \* the arguments that may hold SQL, in order: 1..n
          Queries,   \* statements a client may send
          Policies,  \* SQL policies a server may have
          NotSent, NoAnswer, Skipped, NoEntry

ASSUME ToolCallAssumption ==
    /\ Args \subseteq Nat /\ IsFiniteSet(Args)
    /\ Queries \subseteq {s \in Statement : s.key # "secret" /\ \A i \in s.items : ~i.hashed}
    /\ Policies \subseteq Policy
    /\ {NoAnswer, Skipped} \cap Statement = {} /\ NoAnswer # Skipped
    /\ \A A \in SUBSET Args : NotSent \notin [A -> Statement]

VARIABLES server,     \* settings of the server
          policy,     \* its SQL policy
          query,      \* the SQL arguments of the call
          pc,         \* where the call is
          session,    \* whether the MCP session is open
          sent,       \* the SQL arguments sent upstream
          answer,     \* answer[k]: the rewrite accepted for argument k
          hashed,     \* the hashed columns kept in the request's state
          report,     \* the ToolCallReport
          result,     \* the result: its result, and whether it is JSON
          status,     \* how the call ended
          history     \* its line of history

vars == <<server, policy, query, pc, session, sent, answer, hashed, report, result,
          status, history>>

\* guard: whether the guard is off, reviews calls, or calls and results.
Server == [permitted: BOOLEAN, sql: BOOLEAN, guard: {"off", "calls", "results"},
           onError: {"allow", "block"}]

Waiting == {"reviewCall", "resolveSession", "rewrite", "upstream", "reviewResult",
            "persist", "record"}

\* A field of the result, with a history of where its value comes from: arg is
\* 0 for a tool without SQL, and "mangled" a hash that was masked.
Field == [arg: Args \cup {0}, col: Columns, out: Columns \cup Aliases,
          value: {"raw", "hashed", "masked", "mangled"}]

EmptyReport ==
    [executed |-> {}, expanded |-> FALSE, dropped |-> {}, hashed |-> {}, masked |-> {},
     removed |-> {}, call |-> "none", result |-> "none"]

Init ==
    /\ server \in Server
    /\ policy \in Policies
    /\ query \in UNION {[A -> Queries] : A \in SUBSET Args}
    /\ pc = "admit"
    /\ session = "open"
    /\ sent = NotSent
    /\ answer = [k \in Args |-> NoAnswer]
    /\ hashed = {}
    /\ report = EmptyReport
    /\ result = [json |-> FALSE, fields |-> {}]
    /\ status = "none"
    /\ history = NoEntry

------------------------------------------------------------------------------
\* What PiiHashRewrite makes of argument k before the model is asked, the
\* columns it has to hash there, and the arguments it replaces.
PreparedArg(k) == Prepared(policy, query[k])
Targets(k) == Projected(policy, PreparedArg(k), "mask")
ToHash == {k \in DOMAIN query : Targets(k) # {}}
ToReplace == {k \in DOMAIN query : PreparedArg(k) # query[k]} \cup ToHash

\* The call unwinds to ToolReport, which records how it ended.
End(outcome) == status' = outcome /\ pc' = "persist"

\* ToolPolicy, then SqlPolicy over every statement.
Admit ==
    /\ pc = "admit"
    /\ IF /\ server.permitted
          /\ server.sql => \A k \in DOMAIN query : Enforced(policy, query[k])
       THEN /\ pc' = IF server.guard = "off" THEN "prepare" ELSE "reviewCall"
            /\ UNCHANGED status
       ELSE End("blocked")
    /\ UNCHANGED <<server, policy, query, session, sent, answer, hashed, report, result,
                   history>>

\* LlmGuard: the verdict on the call, of the arguments as the client sent them.
ReviewCall(verdict) ==
    /\ pc = "reviewCall"
    /\ report' = [report EXCEPT !.call = verdict]
    /\ IF verdict = "block"
       THEN End("blocked")
       ELSE pc' = "prepare" /\ UNCHANGED status
    /\ UNCHANGED <<server, policy, query, session, sent, answer, hashed, result, history>>

\* PiiHashRewrite prepares the arguments in order; the first that fails ends
\* the call.  The report keeps what was done to those before it, and that its
\* star was expanded when only the drop failed.
Failing == {k \in DOMAIN query : PrepareFailure(policy, query[k]) # "none"}
Reached == {k \in DOMAIN query : \A j \in Failing : k <= j}

PrepareReport ==
    LET expanded(k) == ExpandStars(policy, query[k]) IN
    [report EXCEPT
       !.expanded = \E k \in Reached : /\ expanded(k) # query[k]
                                       /\ Enforced(policy, expanded(k)),
       !.dropped = UNION {Projected(policy, expanded(k), "drop") : k \in Reached \ Failing}]

\* The call is handed on with the arguments m.
Forward(m) == sent' = m /\ pc' = "upstream"

\* A server without SQL policy has no PiiHashRewrite.
PassThrough ==
    /\ pc = "prepare" /\ ~server.sql
    /\ Forward(query)
    /\ UNCHANGED <<server, policy, query, session, answer, hashed, report, result, status,
                   history>>

PrepareRejects ==
    /\ pc = "prepare" /\ server.sql
    /\ \E k \in Failing : k \in Reached /\ End(PrepareFailure(policy, query[k]))
    /\ report' = PrepareReport
    /\ UNCHANGED <<server, policy, query, session, sent, answer, hashed, result, history>>

\* Variant: the report is filled in before it is known what will be sent.
PrepareReportsFirst ==
    /\ pc = "prepare" /\ server.sql /\ Failing = {}
    /\ report' = [PrepareReport EXCEPT !.executed = {query[k] : k \in DOMAIN query}]
    /\ \/ ToReplace = {} /\ Forward(query)
       \/ /\ ToReplace # {}
          /\ pc' = IF ToHash = {} THEN "assemble" ELSE "resolveSession"
          /\ UNCHANGED sent
    /\ UNCHANGED <<server, policy, query, session, answer, hashed, result, status, history>>

\* PiiHashRewrite up to its first await.
Prepare ==
    /\ pc = "prepare" /\ server.sql /\ Failing = {}
    /\ \/ /\ ToReplace = {}
          /\ report' = [PrepareReport EXCEPT !.executed = {query[k] : k \in DOMAIN query}]
          /\ Forward(query)
       \/ /\ ToReplace # {}
          /\ report' = PrepareReport
          /\ pc' = IF ToHash = {} THEN "assemble" ELSE "resolveSession"
          /\ UNCHANGED sent
    /\ UNCHANGED <<server, policy, query, session, answer, hashed, result, status, history>>

\* The arguments with those that were prepared replaced.
WithPrepared == [k \in DOMAIN query |-> IF k \in ToReplace THEN PreparedArg(k) ELSE query[k]]

\* Variant: a call that has lost its session is forwarded whatever on_error says.
ResolveSessionOpen ==
    /\ pc = "resolveSession"
    /\ \/ session = "open" /\ pc' = "rewrite" /\ UNCHANGED sent
       \/ session = "closed" /\ Forward(WithPrepared)
    /\ UNCHANGED <<server, policy, query, session, answer, hashed, report, result, status,
                   history>>

\* Without a session there is no data_key: by on_error the prepared
\* statements are forwarded or the call is rejected.
ResolveSession ==
    /\ pc = "resolveSession"
    /\ \/ session = "open" /\ pc' = "rewrite" /\ UNCHANGED <<sent, status>>
       \/ session = "closed" /\ server.onError = "allow" /\ Forward(WithPrepared)
          /\ UNCHANGED status
       \/ session = "closed" /\ server.onError = "block" /\ End("blocked")
          /\ UNCHANGED sent
    /\ UNCHANGED <<server, policy, query, session, answer, hashed, report, result, history>>

\* The statements are rewritten one after the other.
Unanswered == {k \in ToHash : answer[k] = NoAnswer}
NextToHash(k) == k \in Unanswered /\ \A j \in Unanswered : k <= j

Answer(k, a) ==
    /\ answer' = [answer EXCEPT ![k] = a]
    /\ pc' = IF Unanswered = {k} THEN "assemble" ELSE "rewrite"

\* Variant: a valid rewrite is not held against the policy again.
RewriteUnchecked(k) ==
    /\ pc = "rewrite" /\ NextToHash(k)
    /\ \E r \in Rewrites(PreparedArg(k)) :
         ValidRewrite(PreparedArg(k), r, Targets(k)) /\ Answer(k, r)
    /\ UNCHANGED <<server, policy, query, session, sent, hashed, report, result, status,
                   history>>

\* The model's rewrite is valid and the policy accepts it.
RewriteAccepted(k) ==
    /\ pc = "rewrite" /\ NextToHash(k)
    /\ \E r \in Rewrites(PreparedArg(k)) :
         /\ ValidRewrite(PreparedArg(k), r, Targets(k))
         /\ Enforced(policy, r)
         /\ Answer(k, r)
    /\ UNCHANGED <<server, policy, query, session, sent, hashed, report, result, status,
                   history>>

\* The model fails, or its answers are not valid, or the policy rejects one.
RewriteFails(k) ==
    /\ pc = "rewrite" /\ NextToHash(k)
    /\ \/ server.onError = "allow" /\ Answer(k, Skipped) /\ UNCHANGED status
       \/ server.onError = "block" /\ End("blocked") /\ UNCHANGED answer
    /\ UNCHANGED <<server, policy, query, session, sent, hashed, report, result, history>>

Rewritten == {k \in ToHash : answer[k] \notin {NoAnswer, Skipped}}

\* Variant: the report takes the statements as they are sent.
AssembleReportsSent ==
    /\ pc = "assemble"
    /\ Forward([k \in DOMAIN query |-> IF k \in Rewritten THEN Substituted(answer[k])
                                      ELSE WithPrepared[k]])
    /\ hashed' = UNION {Targets(k) : k \in Rewritten}
    /\ report' = [report EXCEPT !.executed = {sent'[k] : k \in ToReplace},
                                !.hashed = UNION {Targets(k) : k \in Rewritten}]
    /\ UNCHANGED <<server, policy, query, session, answer, result, status, history>>

\* PiiHashRewrite from its last await on: the arguments are replaced, the
\* data_key substituted in what was rewritten, and the call handed on.
Assemble ==
    /\ pc = "assemble"
    /\ Forward([k \in DOMAIN query |-> IF k \in Rewritten THEN Substituted(answer[k])
                                      ELSE WithPrepared[k]])
    /\ hashed' = UNION {Targets(k) : k \in Rewritten}
    /\ report' = [report EXCEPT
                    !.executed = {IF k \in Rewritten THEN answer[k] ELSE PreparedArg(k) :
                                    k \in ToReplace},
                    !.hashed = UNION {Targets(k) : k \in Rewritten}]
    /\ UNCHANGED <<server, policy, query, session, answer, result, status, history>>

------------------------------------------------------------------------------
\* The fields an upstream server returns for a statement.
FieldsOf(k, s) ==
    {[arg |-> k, col |-> i.col, out |-> i.out,
      value |-> IF i.hashed THEN "hashed" ELSE "raw"] : i \in s.items}
    \cup {[arg |-> k, col |-> c, out |-> c, value |-> "raw"] :
            c \in {d \in Columns : TableOf[d] \in s.stars}}

\* Variant: results are masked whether the query was hashed or not.
MaskedAlways(f) == f.out \in Columns /\ policy.action[f.out] = "mask"

\* PiiMasking of one field, by the rule of its name.
RemovedField(f) == f.out \in Columns /\ policy.action[f.out] = "drop"
MaskedField(f) == f.out \in Columns /\ policy.action[f.out] = "mask" /\ hashed = {}
Mask(f) == [f EXCEPT !.value = IF @ = "raw" THEN "masked" ELSE "mangled"]

\* What an upstream server may return: the fields of the statements, or any
\* columns for a tool without SQL.
Returned(columns) ==
    {[arg |-> 0, col |-> c, out |-> c, value |-> "raw"] : c \in columns}
    \cup UNION {FieldsOf(k, sent[k]) : k \in DOMAIN sent}

\* The server answers, and PiiMasking goes over a result it can read as JSON.
UpstreamAnswers(json) ==
    /\ pc = "upstream"
    /\ \E columns \in IF DOMAIN sent = {} THEN SUBSET Columns ELSE {{}} :
         LET returned == Returned(columns)
             removed == {f \in returned : RemovedField(f)}
             masked == {f \in returned : MaskedField(f)} IN
         IF server.sql /\ json
         THEN /\ result' = [json |-> TRUE,
                            fields |-> (returned \ (removed \cup masked))
                                       \cup {Mask(f) : f \in masked}]
              /\ report' = [report EXCEPT !.masked = {f.out : f \in masked},
                                          !.removed = {f.out : f \in removed}]
         ELSE result' = [json |-> json, fields |-> returned] /\ UNCHANGED report
    /\ \/ server.guard = "results" /\ pc' = "reviewResult" /\ UNCHANGED status
       \/ server.guard # "results" /\ End("ok")
    /\ UNCHANGED <<server, policy, query, session, sent, answer, hashed, history>>

\* Variant: the verdict on the result is only reported.
ReviewResultReported(verdict) ==
    /\ pc = "reviewResult"
    /\ report' = [report EXCEPT !.result = verdict]
    /\ End("ok")
    /\ UNCHANGED <<server, policy, query, session, sent, answer, hashed, result, history>>

\* LlmGuard: the verdict on the result as masked.
ReviewResult(verdict) ==
    /\ pc = "reviewResult"
    /\ report' = [report EXCEPT !.result = verdict]
    /\ End(IF verdict = "block" THEN "blocked" ELSE "ok")
    /\ UNCHANGED <<server, policy, query, session, sent, answer, hashed, result, history>>

\* A failure that nobody translates: of the server, the database, or of the
\* connection to the model (a result that is protected already needs none).
Fails ==
    /\ \/ pc \in {"reviewCall", "resolveSession", "rewrite", "upstream"}
       \/ pc = "reviewResult" /\ hashed = {} /\ report.dropped = {}
    /\ End("error")
    /\ UNCHANGED <<server, policy, query, session, sent, answer, hashed, report, result,
                   history>>

\* _persist: the session is looked up again; without one nothing is recorded.
Persist ==
    /\ pc = "persist"
    /\ pc' = IF session = "open" THEN "record" ELSE "done"
    /\ UNCHANGED <<server, policy, query, session, sent, answer, hashed, report, result,
                   status, history>>

Line == [status |-> status, executed |-> report.executed, hashed |-> report.hashed,
         masked |-> report.masked]

\* Variant: the line says "ok" however the call ended.
RecordOk(written) ==
    /\ pc = "record"
    /\ history' = IF written THEN [Line EXCEPT !.status = "ok"] ELSE history
    /\ pc' = "done"
    /\ UNCHANGED <<server, policy, query, session, sent, answer, hashed, report, result,
                   status>>

\* ... and a failure to look up or to record is only logged.
Record(written) ==
    /\ pc = "record"
    /\ history' = IF written THEN Line ELSE history
    /\ pc' = "done"
    /\ UNCHANGED <<server, policy, query, session, sent, answer, hashed, report, result,
                   status>>

\* Variant: a cancelled call is recorded like one that failed.
CancelRecorded ==
    /\ pc \in Waiting
    /\ End("cancelled")
    /\ UNCHANGED <<server, policy, query, session, sent, answer, hashed, report, result,
                   history>>

\* The call is cancelled at an await.  ToolReport catches only Exception, so
\* nothing more is recorded; a line being written may still be.
Cancel ==
    /\ pc \in Waiting
    /\ status' = "cancelled" /\ pc' = "done"
    /\ \/ pc = "record" /\ history' = Line
       \/ UNCHANGED history
    /\ UNCHANGED <<server, policy, query, session, sent, answer, hashed, report, result>>

\* Another request ends the session, or it expires.
CloseSession ==
    /\ session = "open" /\ pc # "done"
    /\ session' = "closed"
    /\ UNCHANGED <<server, policy, query, pc, sent, answer, hashed, report, result, status,
                   history>>

Next ==
    \/ Admit
    \/ \E verdict \in {"allow", "block"} : ReviewCall(verdict) \/ ReviewResult(verdict)
    \/ PassThrough \/ PrepareRejects \/ Prepare
    \/ ResolveSession
    \/ \E k \in Args : RewriteAccepted(k) \/ RewriteFails(k)
    \/ Assemble
    \/ \E json \in BOOLEAN : UpstreamAnswers(json)
    \/ Fails
    \/ Persist
    \/ \E written \in BOOLEAN : Record(written)
    \/ Cancel
    \/ CloseSession

Spec == Init /\ [][Next]_vars

------------------------------------------------------------------------------
Report == [executed: SUBSET Statement, expanded: BOOLEAN, dropped: SUBSET Columns,
           hashed: SUBSET Columns, masked: SUBSET Columns, removed: SUBSET Columns,
           call: {"none", "allow", "block"}, result: {"none", "allow", "block"}]

\* Variables range over what the request, its report and its context hold.
TypeOK ==
    /\ server \in Server /\ policy \in Policy
    /\ DOMAIN query \subseteq Args
    /\ pc \in {"admit", "prepare", "assemble", "done"} \cup Waiting
    /\ session \in {"open", "closed"}
    /\ sent # NotSent => DOMAIN sent = DOMAIN query /\ \A k \in DOMAIN sent : sent[k] \in Statement
    /\ \A k \in Args : answer[k] \in Statement \cup {NoAnswer, Skipped}
    /\ hashed \subseteq Columns
    /\ report \in Report
    /\ result.fields \subseteq Field
    /\ status \in {"none", "ok", "blocked", "error", "cancelled"}
    /\ history # NoEntry => history.status \in {"ok", "blocked", "error"}

\* Whatever the steps in between rewrite, only a permitted tool is called, and
\* every statement that leaves the gateway satisfies the policy as it leaves,
\* after the guard allowed the call (middleware.py:338-346, 363-383, 504-600).
OnlyClearedIsSent ==
    sent # NotSent =>
      /\ server.permitted
      /\ server.guard # "off" => report.call = "allow"
      /\ server.sql => \A k \in DOMAIN query : Enforced(policy, sent[k])

\* With on_error = "block" no statement that was to be hashed leaves without
\* the data_key in it and its "mask" columns still named: a failing model, a
\* rejected rewrite or a session that ends meanwhile never lets the plain
\* statement through (middleware.py:441-452, rewriter/service.py:157-176).
FailClosedHashes ==
    sent # NotSent /\ server.sql /\ server.onError = "block" =>
      \A k \in ToHash : sent[k].key = "secret" /\ Targets(k) \subseteq Referenced(sent[k])

\* Reports never carry the data_key, in whatever order rewriting, reporting
\* and substitution go (reporting.py:15-20).
ReportKeepsKeySecret ==
    /\ \A s \in report.executed : s.key # "secret"
    /\ history # NoEntry => history.executed \subseteq report.executed

\* What the report calls executed was sent, up to the data_key.
ReportedWasSent ==
    \A s \in report.executed :
      sent # NotSent /\ \E k \in DOMAIN query : sent[k] \in {s, Substituted(s)}

\* A result the gateway can read has no field named like a "drop" column, no
\* raw field named like a "mask" column unless the call was hashed in the
\* query, and no hash is masked once more.
ResultFollowsRules ==
    server.sql /\ result.json =>
      \A f \in result.fields :
        /\ f.out \in Columns => policy.action[f.out] # "drop"
        /\ f.out \in Columns /\ f.value = "raw" /\ policy.action[f.out] = "mask" =>
             hashed # {}
        /\ f.value # "mangled"

\* A verdict is final: no later step turns a call or result the guard blocks
\* into a success, and with results inspected none succeeds without its word.
GuardDecides ==
    /\ "block" \in {report.call, report.result} => status \in {"blocked", "cancelled"}
    /\ status = "ok" /\ server.guard = "results" => report.result = "allow"

\* The chain implements what GatewayCall promises.
Gateway == INSTANCE GatewayCall
             WITH recorded <- IF history = NoEntry THEN "none" ELSE history.status
ImplementsGateway == Gateway!Spec

------------------------------------------------------------------------------
\* What the documentation says and the code does not always do.

\* "The `executed_sql` field holds the statement actually sent downstream"
\* (README.md:200): every statement sent by PiiHashRewrite is in the report.
ExecutedIsSent ==
    sent # NotSent /\ server.sql =>
      \A k \in DOMAIN query : \E s \in report.executed : sent[k] \in {s, Substituted(s)}

\* "`allow` forwards the prepared query and falls back to result-side masking"
\* (mcp-servers/README.md:56-57), for each argument that is not rewritten.
FallbackMasks ==
    server.sql /\ result.json =>
      \A f \in result.fields :
        f.arg \in ToHash \ Rewritten /\ f.out \in Targets(f.arg) => f.value # "raw"

\* "The gateway also removed these columns from the query before it ran, so
\* the result cannot contain them" (middleware.py:901-902).
DroppedIsAbsent ==
    sent # NotSent /\ server.sql =>
      \A k \in DOMAIN query : Selected(sent[k]) \cap report.dropped = {}
===============================================================================
