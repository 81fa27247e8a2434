---------------------------- MODULE ToolCall_proof ----------------------------
(***************************************************************************)
(* Proofs about ToolCall, for any policies, queries and arguments and      *)
(* every setting of the server.                                            *)
(***************************************************************************)
EXTENDS ToolCall, FiniteSetTheorems, WellFoundedInduction, TLAPS

Admitted ==
    /\ server.permitted
    /\ server.sql => \A k \in DOMAIN query : Enforced(policy, query[k])

Cleared == server.guard # "off" => report.call = "allow"

\* The call has passed the checks before the place where it is.
PhaseInv ==
    /\ pc \in {"admit", "reviewCall", "prepare", "resolveSession", "rewrite", "assemble"} =>
         /\ status = "none" /\ sent = NotSent
         /\ report.executed = {} /\ report.result = "none"
    /\ pc \in {"admit", "reviewCall"} => report.call = "none"
    /\ pc \in {"admit", "reviewCall", "prepare", "resolveSession"} =>
         \A k \in Args : answer[k] = NoAnswer
    /\ pc \in {"reviewCall", "prepare", "resolveSession", "rewrite", "assemble"} => Admitted
    /\ pc \in {"prepare", "resolveSession", "rewrite", "assemble", "upstream", "reviewResult"} =>
         Cleared
    /\ pc \in {"resolveSession", "rewrite", "assemble"} => server.sql /\ Failing = {}
    /\ pc \in {"rewrite", "assemble"} /\ server.onError = "block" =>
         \A k \in ToHash : answer[k] # Skipped
    /\ pc = "assemble" => Unanswered = {}
    /\ pc \in {"upstream", "reviewResult"} =>
         sent # NotSent /\ status = "none" /\ report.result = "none"
    /\ pc \in {"persist", "record"} => status \in {"ok", "blocked", "error"}
    /\ status = "ok" => sent # NotSent
    /\ pc # "done" => history = NoEntry

\* An argument has a rewrite only when it is valid and enforced.
AnswerInv ==
    \A k \in Args :
      /\ answer[k] \in Statement \cup {NoAnswer, Skipped}
      /\ k \in Rewritten =>
           /\ ValidRewrite(PreparedArg(k), answer[k], Targets(k))
           /\ Enforced(policy, answer[k])

Static ==
    /\ server \in Server /\ policy \in Policy
    /\ DOMAIN query \subseteq Args
    /\ \A k \in DOMAIN query : query[k] \in Queries
    /\ answer = [k \in Args |-> answer[k]]
    /\ query = [k \in DOMAIN query |-> query[k]]

IInv ==
    /\ Static /\ TypeOK /\ PhaseInv /\ AnswerInv
    /\ OnlyClearedIsSent /\ FailClosedHashes /\ ReportKeepsKeySecret /\ ReportedWasSent
    /\ GuardDecides

------------------------------------------------------------------------------
\* What the transformations do to a statement.

LEMMA DropTyped ==
    ASSUME NEW s \in Statement, NEW names
    PROVE  /\ DropColumns(s, names) \in Statement
           /\ DropColumns(s, names).key = s.key
BY DEF DropColumns, Statement

LEMMA DropNothing ==
    ASSUME NEW s \in Statement
    PROVE  DropColumns(s, {}) = s
<1>1. {i \in s.items : i.out \notin {}} = s.items
  OBVIOUS
<1>2. DropColumns(s, {}) = [s EXCEPT !.items = s.items]
  BY <1>1 DEF DropColumns
<1> QED BY <1>2 DEF Statement

LEMMA ExpandTyped ==
    ASSUME NEW p \in Policy, NEW s \in Statement
    PROVE  ExpandStars(p, s) \in Statement /\ ExpandStars(p, s).key = s.key
<1> DEFINE new == {Plain(c) : c \in UNION {p.declared[t] : t \in s.stars}}
           expanded == [s EXCEPT !.stars = {}, !.items = s.items \cup new]
<1>1. UNION {p.declared[t] : t \in s.stars} \subseteq Columns
  BY DEF Policy, Statement
<1>2. new \subseteq Item
  <2>1. \A c \in Columns : Plain(c) \in Item
    BY DEF Plain, Item
  <2> QED BY <1>1, <2>1
<1>3. expanded \in Statement /\ expanded.key = s.key
  <2> HIDE DEF new
  <2> QED BY <1>2 DEF Statement
<1>4. ExpandStars(p, s) \in {s, expanded}
  BY DEF ExpandStars
<1> HIDE DEF expanded
<1> QED BY <1>3, <1>4

LEMMA PreparedTyped ==
    ASSUME NEW p \in Policy, NEW s \in Statement
    PROVE  Prepared(p, s) \in Statement /\ Prepared(p, s).key = s.key
<1>1. ExpandStars(p, s) \in Statement /\ ExpandStars(p, s).key = s.key
  BY ExpandTyped
<1> QED BY <1>1, DropTyped DEF Prepared

\* A statement that passes the policy and is prepared without failure passes
\* it again: _prepare_sql enforces the policy after each of its changes.
LEMMA PreparedEnforced ==
    ASSUME NEW p \in Policy, NEW s \in Statement,
           Enforced(p, s), PrepareFailure(p, s) = "none"
    PROVE  Enforced(p, Prepared(p, s))
<1> DEFINE expanded == ExpandStars(p, s)
           names == Projected(p, expanded, "drop")
<1>1. expanded \in Statement
  BY ExpandTyped
<1>2. Enforced(p, expanded)
  BY DEF PrepareFailure
<1>3. CASE names = {}
  <2>1. Prepared(p, s) = expanded
    BY <1>1, <1>3, DropNothing DEF Prepared
  <2> QED BY <1>2, <2>1
<1>4. CASE names # {}
  BY <1>4 DEF PrepareFailure
<1> QED BY <1>3, <1>4

LEMMA RewritesTyped ==
    ASSUME NEW s \in Statement, NEW r \in Rewrites(s)
    PROVE  r \in Statement
<1>1. PICK f \in [s.items -> [col: Columns, hashed: BOOLEAN]], refs \in SUBSET Columns,
           legal \in BOOLEAN, key \in {"none", "placeholder"} :
             r = RewriteAs(s, f, refs, legal, key)
  BY DEF Rewrites
<1> DEFINE items == {[col |-> f[i].col, out |-> i.out, hashed |-> f[i].hashed] : i \in s.items}
<1>2. items \subseteq Item
  BY DEF Statement, Item
<1>3. key \in {"none", "placeholder", "secret"}
  OBVIOUS
<1>4. r = [s EXCEPT !.refs = refs, !.legal = legal, !.key = key, !.items = items]
  BY <1>1 DEF RewriteAs
<1> HIDE DEF items
<1> QED BY <1>2, <1>3, <1>4 DEF Statement

\* The substitution of the data_key changes nothing else.
LEMMA SubstitutedIs ==
    ASSUME NEW r \in Statement
    PROVE  /\ Substituted(r) \in Statement
           /\ \A p : Enforced(p, Substituted(r)) <=> Enforced(p, r)
           /\ Selected(Substituted(r)) = Selected(r)
           /\ Referenced(Substituted(r)) = Referenced(r)
           /\ OutputNames(Substituted(r)) = OutputNames(r) /\ Substituted(r).stars = r.stars
           /\ r.key = "placeholder" => Substituted(r).key = "secret"
<1> DEFINE t == Substituted(r)
<1>1. /\ t \in Statement /\ t.legal = r.legal /\ t.tables = r.tables /\ t.stars = r.stars
      /\ t.items = r.items /\ t.refs = r.refs /\ (r.key = "placeholder" => t.key = "secret")
  BY DEF Substituted, Statement
<1> HIDE DEF t
<1>2. /\ Selected(t) = Selected(r) /\ Referenced(t) = Referenced(r)
      /\ OutputNames(t) = OutputNames(r)
  BY <1>1 DEF Selected, Referenced, OutputNames
<1>3. \A p : StarPermitted(p, t) <=> StarPermitted(p, r)
  BY <1>1 DEF StarPermitted
<1>4. \A p : Enforced(p, t) <=> Enforced(p, r)
  BY <1>1, <1>2, <1>3 DEF Enforced
<1> QED BY <1>1, <1>2, <1>4 DEF t

------------------------------------------------------------------------------
\* What is derived from the call stays as it is while the call does.
LEMMA Frame ==
    ASSUME UNCHANGED <<server, policy, query>>
    PROVE  /\ ToHash' = ToHash /\ Failing' = Failing /\ (Admitted' <=> Admitted)
           /\ \A k : Targets(k)' = Targets(k) /\ PreparedArg(k)' = PreparedArg(k)
BY DEF ToHash, Failing, Admitted, Targets, PreparedArg

LEMMA QueryTyped ==
    ASSUME Static, NEW k \in DOMAIN query
    PROVE  /\ query[k] \in Statement /\ query[k].key # "secret"
           /\ PreparedArg(k) \in Statement /\ PreparedArg(k).key # "secret"
           /\ WithPrepared[k] \in Statement /\ WithPrepared[k] \in {query[k], PreparedArg(k)}
           /\ k \in Args
<1>1. query[k] \in Statement /\ query[k].key # "secret" /\ policy \in Policy /\ k \in Args
  BY ToolCallAssumption DEF Static
<1>2. PreparedArg(k) \in Statement /\ PreparedArg(k).key # "secret"
  BY <1>1, PreparedTyped DEF PreparedArg
<1> QED BY <1>1, <1>2 DEF WithPrepared

LEMMA PreparedPasses ==
    ASSUME Static, Admitted, server.sql, Failing = {}, NEW k \in DOMAIN query
    PROVE  Enforced(policy, PreparedArg(k)) /\ Enforced(policy, WithPrepared[k])
<1>1. Enforced(policy, query[k]) /\ PrepareFailure(policy, query[k]) = "none"
  BY DEF Admitted, Failing
<1>2. policy \in Policy /\ query[k] \in Statement
  BY QueryTyped DEF Static
<1>3. Enforced(policy, PreparedArg(k))
  BY <1>1, <1>2, PreparedEnforced DEF PreparedArg
<1> QED BY <1>1, <1>3 DEF WithPrepared

LEMMA PrepareReportTyped ==
    ASSUME IInv
    PROVE  /\ PrepareReport \in Report
           /\ PrepareReport.executed = report.executed
           /\ PrepareReport.call = report.call /\ PrepareReport.result = report.result
<1>1. report \in Report
  BY DEF IInv, TypeOK
<1> DEFINE dropped == UNION {Projected(policy, ExpandStars(policy, query[k]), "drop") :
                               k \in Reached \ Failing}
           expanded == \E k \in Reached : /\ ExpandStars(policy, query[k]) # query[k]
                                         /\ Enforced(policy, ExpandStars(policy, query[k]))
<1>2. dropped \subseteq Columns
  BY DEF Projected, ColumnsByAction
<1>3. expanded \in BOOLEAN
  OBVIOUS
<1>4. PrepareReport = [report EXCEPT !.expanded = expanded, !.dropped = dropped]
  BY DEF PrepareReport
<1> HIDE DEF dropped, expanded
<1> QED BY <1>1, <1>2, <1>3, <1>4 DEF Report

\* The call is handed on: the one step that sends.
LEMMA ForwardKeeps ==
    ASSUME IInv, pc \in {"prepare", "resolveSession", "assemble"},
           NEW m \in [DOMAIN query -> Statement], Forward(m),
           server.sql => \A k \in DOMAIN query : Enforced(policy, m[k]),
           server.sql /\ server.onError = "block" =>
             \A k \in ToHash : m[k].key = "secret" /\ Targets(k) \subseteq Referenced(m[k]),
           report' \in Report, report'.call = report.call, report'.result = report.result,
           \A s \in report'.executed :
             s.key # "secret" /\ \E k \in DOMAIN query : m[k] \in {s, Substituted(s)},
           hashed' \subseteq Columns,
           UNCHANGED <<server, policy, query, session, answer, result, status, history>>
    PROVE  IInv'
<1> USE DEF IInv
<1>1. /\ sent' = m /\ pc' = "upstream" /\ DOMAIN query \subseteq Args
      /\ server' = server /\ policy' = policy /\ query' = query /\ status' = status
      /\ answer' = answer /\ result' = result /\ session' = session /\ history' = history
  BY DEF Forward, Static
<1>2. m # NotSent /\ DOMAIN m = DOMAIN query /\ \A k \in DOMAIN query : m[k] \in Statement
  BY <1>1, ToolCallAssumption
<1>3. /\ ToHash' = ToHash /\ \A k : Targets(k)' = Targets(k) /\ PreparedArg(k)' = PreparedArg(k)
  BY <1>1, Frame
<1>4. status = "none" /\ history = NoEntry /\ Admitted /\ Cleared /\ report.result = "none"
  BY DEF PhaseInv
<1>5. Static' BY <1>1 DEF Static
<1>6. TypeOK' BY <1>1, <1>2, <1>4 DEF TypeOK, Waiting
<1>7. PhaseInv' BY <1>1, <1>2, <1>4 DEF PhaseInv, Cleared
<1>8. AnswerInv' BY <1>1, <1>3 DEF AnswerInv, Rewritten
<1>9. OnlyClearedIsSent' BY <1>1, <1>2, <1>4 DEF OnlyClearedIsSent, Admitted, Cleared
<1>10. FailClosedHashes' BY <1>1, <1>3 DEF FailClosedHashes
<1>11. ReportKeepsKeySecret' BY <1>1, <1>4 DEF ReportKeepsKeySecret
<1>12. ReportedWasSent' BY <1>1, <1>2 DEF ReportedWasSent
<1>13. GuardDecides' BY <1>1, <1>4 DEF GuardDecides
<1> QED BY <1>5, <1>6, <1>7, <1>8, <1>9, <1>10, <1>11, <1>12, <1>13

\* Any other step of a call under way: it may extend the report and move on,
\* or end.
LEMMA OtherKeeps ==
    ASSUME IInv, PhaseInv', TypeOK', AnswerInv', GuardDecides', pc # "done",
           answer' = [k \in Args |-> answer'[k]],
           report'.executed = report.executed,
           sent # NotSent => report'.call = report.call,
           history' = NoEntry \/ history'.executed = report'.executed,
           UNCHANGED <<server, policy, query, sent>>
    PROVE  IInv'
<1> USE DEF IInv
<1>1. /\ ToHash' = ToHash /\ \A k : Targets(k)' = Targets(k)
      /\ server' = server /\ policy' = policy /\ query' = query /\ sent' = sent
  BY Frame
<1>2. Static' BY <1>1 DEF Static
<1>3. OnlyClearedIsSent' BY <1>1 DEF OnlyClearedIsSent
<1>4. FailClosedHashes' BY <1>1 DEF FailClosedHashes
<1>5. ReportKeepsKeySecret' BY <1>1 DEF ReportKeepsKeySecret
<1>6. ReportedWasSent' BY <1>1 DEF ReportedWasSent
<1> QED BY <1>2, <1>3, <1>4, <1>5, <1>6

------------------------------------------------------------------------------
\* Every step keeps the invariant.

LEMMA AdmitKeeps ==
    ASSUME IInv, Admit PROVE IInv'
<1> USE DEF IInv, Admit
<1>1. /\ server' = server /\ policy' = policy /\ query' = query /\ sent' = sent
      /\ answer' = answer
  OBVIOUS
<1>2. /\ ToHash' = ToHash /\ Failing' = Failing /\ (Admitted' <=> Admitted)
      /\ \A k : Targets(k)' = Targets(k) /\ PreparedArg(k)' = PreparedArg(k)
  BY <1>1, Frame
<1>3. TypeOK' BY <1>1 DEF TypeOK, End, Waiting, Report, Static
<1>4. PhaseInv' BY <1>1, <1>2 DEF Admitted, PhaseInv, End, Cleared, Unanswered, Server, Static, Line, Waiting
<1>5. AnswerInv' BY <1>1, <1>2 DEF AnswerInv, Rewritten
<1>6. GuardDecides' BY <1>1 DEF GuardDecides, PhaseInv, End, Server, Static
<1> QED BY <1>1, <1>3, <1>4, <1>5, <1>6, OtherKeeps DEF PhaseInv, Static, Line, End

LEMMA ReviewCallKeeps ==
    ASSUME IInv, NEW verdict \in {"allow", "block"}, ReviewCall(verdict) PROVE IInv'
<1> USE DEF IInv, ReviewCall
<1>1. /\ server' = server /\ policy' = policy /\ query' = query /\ sent' = sent
      /\ answer' = answer
  OBVIOUS
<1>2. /\ ToHash' = ToHash /\ Failing' = Failing /\ (Admitted' <=> Admitted)
      /\ \A k : Targets(k)' = Targets(k) /\ PreparedArg(k)' = PreparedArg(k)
  BY <1>1, Frame
<1>3. TypeOK' BY <1>1 DEF TypeOK, End, Waiting, Report, Static
<1>4. PhaseInv' BY <1>1, <1>2 DEF PhaseInv, End, Cleared, Unanswered, Server, Static, Line, Waiting
<1>5. AnswerInv' BY <1>1, <1>2 DEF AnswerInv, Rewritten
<1>6. GuardDecides' BY <1>1 DEF GuardDecides, PhaseInv, End, Server, Static
<1> QED BY <1>1, <1>3, <1>4, <1>5, <1>6, OtherKeeps DEF PhaseInv, Static, Line, End

LEMMA ReviewResultKeeps ==
    ASSUME IInv, NEW verdict \in {"allow", "block"}, ReviewResult(verdict) PROVE IInv'
<1> USE DEF IInv, ReviewResult
<1>1. /\ server' = server /\ policy' = policy /\ query' = query /\ sent' = sent
      /\ answer' = answer
  OBVIOUS
<1>2. /\ ToHash' = ToHash /\ Failing' = Failing /\ (Admitted' <=> Admitted)
      /\ \A k : Targets(k)' = Targets(k) /\ PreparedArg(k)' = PreparedArg(k)
  BY <1>1, Frame
<1>3. TypeOK' BY <1>1 DEF TypeOK, End, Waiting, Report, Static
<1>4. PhaseInv' BY <1>1, <1>2 DEF PhaseInv, End, Cleared, Unanswered, Server, Static, Line, Waiting
<1>5. AnswerInv' BY <1>1, <1>2 DEF AnswerInv, Rewritten
<1>6. GuardDecides' BY <1>1 DEF GuardDecides, PhaseInv, End, Server, Static
<1> QED BY <1>1, <1>3, <1>4, <1>5, <1>6, OtherKeeps DEF PhaseInv, Static, Line, End

LEMMA FailsKeeps ==
    ASSUME IInv, Fails PROVE IInv'
<1> USE DEF IInv, Fails
<1>1. /\ server' = server /\ policy' = policy /\ query' = query /\ sent' = sent
      /\ answer' = answer
  OBVIOUS
<1>2. /\ ToHash' = ToHash /\ Failing' = Failing /\ (Admitted' <=> Admitted)
      /\ \A k : Targets(k)' = Targets(k) /\ PreparedArg(k)' = PreparedArg(k)
  BY <1>1, Frame
<1>3. TypeOK' BY <1>1 DEF TypeOK, End, Waiting, Report, Static
<1>4. PhaseInv' BY <1>1, <1>2 DEF PhaseInv, End, Cleared, Unanswered, Server, Static, Line, Waiting
<1>5. AnswerInv' BY <1>1, <1>2 DEF AnswerInv, Rewritten
<1>6. GuardDecides' BY <1>1 DEF GuardDecides, PhaseInv, End, Server, Static
<1> QED BY <1>1, <1>3, <1>4, <1>5, <1>6, OtherKeeps DEF PhaseInv, Static, Line, End

LEMMA PersistKeeps ==
    ASSUME IInv, Persist PROVE IInv'
<1> USE DEF IInv, Persist
<1>1. /\ server' = server /\ policy' = policy /\ query' = query /\ sent' = sent
      /\ answer' = answer
  OBVIOUS
<1>2. /\ ToHash' = ToHash /\ Failing' = Failing /\ (Admitted' <=> Admitted)
      /\ \A k : Targets(k)' = Targets(k) /\ PreparedArg(k)' = PreparedArg(k)
  BY <1>1, Frame
<1>3. TypeOK' BY <1>1 DEF TypeOK, End, Waiting, Report, Static
<1>4. PhaseInv' BY <1>1, <1>2 DEF PhaseInv, End, Cleared, Unanswered, Server, Static, Line, Waiting
<1>5. AnswerInv' BY <1>1, <1>2 DEF AnswerInv, Rewritten
<1>6. GuardDecides' BY <1>1 DEF GuardDecides, PhaseInv, End, Server, Static
<1> QED BY <1>1, <1>3, <1>4, <1>5, <1>6, OtherKeeps DEF PhaseInv, Static, Line, End

LEMMA RecordKeeps ==
    ASSUME IInv, NEW written \in BOOLEAN, Record(written) PROVE IInv'
<1> USE DEF IInv, Record
<1>1. /\ server' = server /\ policy' = policy /\ query' = query /\ sent' = sent
      /\ answer' = answer
  OBVIOUS
<1>2. /\ ToHash' = ToHash /\ Failing' = Failing /\ (Admitted' <=> Admitted)
      /\ \A k : Targets(k)' = Targets(k) /\ PreparedArg(k)' = PreparedArg(k)
  BY <1>1, Frame
<1>3. TypeOK'
  <2>1. history' # NoEntry => history'.status \in {"ok", "blocked", "error"}
    BY DEF PhaseInv, Waiting, Line
  <2> QED BY <1>1, <2>1 DEF TypeOK, Waiting
<1>4. PhaseInv' BY <1>1, <1>2 DEF PhaseInv, End, Cleared, Unanswered, Server, Static, Line, Waiting
<1>5. AnswerInv' BY <1>1, <1>2 DEF AnswerInv, Rewritten
<1>6. GuardDecides' BY <1>1 DEF GuardDecides, PhaseInv, End, Server, Static
<1>7. report' = report /\ pc # "done" /\ (history' = NoEntry \/ history'.executed = report'.executed)
  BY DEF PhaseInv, Waiting, Line
<1> QED BY <1>1, <1>3, <1>4, <1>5, <1>6, <1>7, OtherKeeps DEF Static

LEMMA CancelKeeps ==
    ASSUME IInv, Cancel PROVE IInv'
<1> USE DEF IInv, Cancel
<1>1. /\ server' = server /\ policy' = policy /\ query' = query /\ sent' = sent
      /\ answer' = answer
  OBVIOUS
<1>2. /\ ToHash' = ToHash /\ Failing' = Failing /\ (Admitted' <=> Admitted)
      /\ \A k : Targets(k)' = Targets(k) /\ PreparedArg(k)' = PreparedArg(k)
  BY <1>1, Frame
<1>3. TypeOK'
  <2>1. history' # NoEntry => history'.status \in {"ok", "blocked", "error"}
    BY DEF PhaseInv, Waiting, Line
  <2> QED BY <1>1, <2>1 DEF TypeOK, Waiting
<1>4. PhaseInv' BY <1>1, <1>2 DEF PhaseInv, End, Cleared, Unanswered, Server, Static, Line, Waiting
<1>5. AnswerInv' BY <1>1, <1>2 DEF AnswerInv, Rewritten
<1>6. GuardDecides' BY <1>1 DEF GuardDecides, PhaseInv, End, Server, Static
<1>7. report' = report /\ pc # "done" /\ (history' = NoEntry \/ history'.executed = report'.executed)
  BY DEF PhaseInv, Waiting, Line
<1> QED BY <1>1, <1>3, <1>4, <1>5, <1>6, <1>7, OtherKeeps DEF Static

LEMMA CloseSessionKeeps ==
    ASSUME IInv, CloseSession PROVE IInv'
<1> USE DEF IInv, CloseSession
<1>1. /\ server' = server /\ policy' = policy /\ query' = query /\ sent' = sent
      /\ answer' = answer
  OBVIOUS
<1>2. /\ ToHash' = ToHash /\ Failing' = Failing /\ (Admitted' <=> Admitted)
      /\ \A k : Targets(k)' = Targets(k) /\ PreparedArg(k)' = PreparedArg(k)
  BY <1>1, Frame
<1>3. TypeOK' BY <1>1 DEF TypeOK, End, Waiting, Report, Static
<1>4. PhaseInv' BY <1>1, <1>2 DEF PhaseInv, End, Cleared, Unanswered, Server, Static, Line, Waiting
<1>5. AnswerInv' BY <1>1, <1>2 DEF AnswerInv, Rewritten
<1>6. GuardDecides' BY <1>1 DEF GuardDecides, PhaseInv, End, Server, Static
<1> QED BY <1>1, <1>3, <1>4, <1>5, <1>6, OtherKeeps DEF PhaseInv, Static, Line, End

LEMMA PassThroughKeeps ==
    ASSUME IInv, PassThrough PROVE IInv'
<1> USE DEF IInv, PassThrough
<1>1. query \in [DOMAIN query -> Statement]
  <2>1. \A k \in DOMAIN query : query[k] \in Statement
    BY QueryTyped
  <2> QED BY <2>1 DEF Static
<1>2. report.executed = {} /\ report \in Report /\ hashed \subseteq Columns
  BY DEF PhaseInv, TypeOK
<1> QED BY <1>1, <1>2, ForwardKeeps

LEMMA PrepareRejectsKeeps ==
    ASSUME IInv, PrepareRejects PROVE IInv'
<1> USE DEF IInv, PrepareRejects
<1>1. /\ server' = server /\ policy' = policy /\ query' = query /\ sent' = sent
      /\ answer' = answer /\ pc' = "persist" /\ status' \in {"blocked", "error"}
      /\ hashed' = hashed /\ history' = history /\ result' = result /\ session' = session
  BY DEF PrepareFailure, End, Failing
<1>2. /\ ToHash' = ToHash /\ Failing' = Failing /\ (Admitted' <=> Admitted)
      /\ \A k : Targets(k)' = Targets(k) /\ PreparedArg(k)' = PreparedArg(k)
  BY <1>1, Frame
<1>3. /\ report' \in Report /\ report'.executed = report.executed
      /\ report'.call = report.call /\ report'.result = report.result
  BY PrepareReportTyped
<1>4. TypeOK' BY <1>1, <1>3 DEF TypeOK, Waiting
<1>5. PhaseInv' BY <1>1, <1>3 DEF PhaseInv, Cleared
<1>6. AnswerInv' BY <1>1, <1>2 DEF AnswerInv, Rewritten
<1>7. GuardDecides' BY <1>1, <1>3 DEF GuardDecides, PhaseInv
<1> QED BY <1>1, <1>3, <1>4, <1>5, <1>6, <1>7, OtherKeeps DEF PhaseInv, Static

LEMMA PrepareKeeps ==
    ASSUME IInv, Prepare PROVE IInv'
<1> USE DEF IInv
<1>1. /\ pc = "prepare" /\ server.sql /\ Failing = {} /\ Admitted
      /\ server' = server /\ policy' = policy /\ query' = query /\ answer' = answer
      /\ hashed' = hashed /\ history' = history /\ result' = result /\ session' = session
      /\ status' = status /\ hashed \subseteq Columns
  BY DEF Prepare, PhaseInv, TypeOK
<1>2. CASE ToReplace = {}
  <2> DEFINE executed == {query[k] : k \in DOMAIN query}
  <2>1. \A k \in DOMAIN query : query[k] \in Statement /\ query[k].key # "secret"
    BY QueryTyped
  <2>2. query \in [DOMAIN query -> Statement]
    BY <2>1 DEF Static
  <2>3. \A k \in DOMAIN query : Enforced(policy, query[k])
    BY <1>1 DEF Admitted
  <2>4. ToHash = {}
    BY <1>2 DEF ToReplace
  <2>5. report' = [PrepareReport EXCEPT !.executed = executed] /\ Forward(query)
    BY <1>2 DEF Prepare
  <2>6. executed \in SUBSET Statement /\ \A s \in executed : s.key # "secret" /\ \E k \in DOMAIN query : query[k] = s
    BY <2>1
  <2> HIDE DEF executed
  <2>7. /\ report' \in Report /\ report'.executed = executed
        /\ report'.call = report.call /\ report'.result = report.result
    BY <2>5, <2>6, PrepareReportTyped DEF Report
  <2> QED BY <1>1, <2>2, <2>3, <2>4, <2>5, <2>6, <2>7, ForwardKeeps
<1>3. CASE ToReplace # {}
  <2>1. report' = PrepareReport /\ pc' \in {"assemble", "resolveSession"} /\ sent' = sent
        /\ (pc' = "assemble" => ToHash = {})
    BY <1>3 DEF Prepare
  <2>2. /\ ToHash' = ToHash /\ Failing' = Failing /\ (Admitted' <=> Admitted)
        /\ \A k : Targets(k)' = Targets(k) /\ PreparedArg(k)' = PreparedArg(k)
    BY <1>1, Frame
  <2>3. /\ report' \in Report /\ report'.executed = report.executed
        /\ report'.call = report.call /\ report'.result = report.result
    BY <2>1, PrepareReportTyped
  <2>4. TypeOK' BY <1>1, <2>1, <2>3 DEF TypeOK, Waiting
  <2>5. PhaseInv' BY <1>1, <2>1, <2>2, <2>3 DEF PhaseInv, Cleared, Unanswered
  <2>6. AnswerInv' BY <1>1, <2>2 DEF AnswerInv, Rewritten
  <2>7. GuardDecides' BY <1>1, <2>1, <2>3 DEF GuardDecides, PhaseInv
  <2> QED BY <1>1, <2>1, <2>3, <2>4, <2>5, <2>6, <2>7, OtherKeeps DEF PhaseInv, Static
<1> QED BY <1>2, <1>3

LEMMA ResolveSessionKeeps ==
    ASSUME IInv, ResolveSession PROVE IInv'
<1> USE DEF IInv
<1>1. /\ server' = server /\ policy' = policy /\ query' = query /\ answer' = answer
      /\ hashed' = hashed /\ history' = history /\ result' = result /\ session' = session
      /\ report' = report /\ pc = "resolveSession"
      /\ ToHash \subseteq Args
  BY DEF ResolveSession, ToHash, Static
<1>2. CASE server.onError = "allow" /\ Forward(WithPrepared) /\ status' = status
  <2>1. WithPrepared \in [DOMAIN query -> Statement]
    <3>1. \A k \in DOMAIN query : WithPrepared[k] \in Statement
      BY QueryTyped
    <3> QED BY <3>1 DEF WithPrepared
  <2>2. \A k \in DOMAIN query : server.sql => Enforced(policy, WithPrepared[k])
    BY <1>1, PreparedPasses DEF PhaseInv
  <2>3. report.executed = {} /\ report \in Report /\ hashed \subseteq Columns
    BY <1>1 DEF PhaseInv, TypeOK
  <2> QED BY <1>1, <1>2, <2>1, <2>2, <2>3, ForwardKeeps
<1>3. CASE /\ sent' = sent
           /\ \/ pc' = "rewrite" /\ status' = status
              \/ pc' = "persist" /\ status' = "blocked"
  <2>1. /\ ToHash' = ToHash /\ Failing' = Failing /\ (Admitted' <=> Admitted)
        /\ \A k : Targets(k)' = Targets(k) /\ PreparedArg(k)' = PreparedArg(k)
    BY <1>1, Frame
  <2>2. TypeOK' BY <1>1, <1>3 DEF TypeOK, Waiting
  <2>3. PhaseInv' BY <1>1, <1>3, <2>1, ToolCallAssumption DEF PhaseInv, Cleared, End
  <2>4. AnswerInv' BY <1>1, <2>1 DEF AnswerInv, Rewritten
  <2>5. GuardDecides' BY <1>1, <1>3 DEF GuardDecides, PhaseInv, End
  <2> QED BY <1>1, <1>3, <2>2, <2>3, <2>4, <2>5, OtherKeeps DEF PhaseInv, Static
<1> QED BY <1>2, <1>3 DEF ResolveSession, End

\* A rewrite answered for, or skipped where on_error allows it.
LEMMA AnswerKeeps ==
    ASSUME IInv, NEW k \in Args, pc = "rewrite", NextToHash(k),
           NEW a \in Statement \cup {Skipped}, Answer(k, a),
           a = Skipped => server.onError = "allow",
           a # Skipped => /\ ValidRewrite(PreparedArg(k), a, Targets(k))
                          /\ Enforced(policy, a),
           UNCHANGED <<server, policy, query, session, sent, hashed, report, result, status,
                       history>>
    PROVE  IInv'
<1> USE DEF IInv
<1>1. /\ server' = server /\ policy' = policy /\ query' = query /\ sent' = sent
      /\ status' = status /\ history' = history /\ report' = report /\ result' = result
      /\ hashed' = hashed /\ session' = session
  OBVIOUS
<1>2. /\ ToHash' = ToHash /\ Failing' = Failing /\ (Admitted' <=> Admitted)
      /\ \A i : Targets(i)' = Targets(i) /\ PreparedArg(i)' = PreparedArg(i)
  BY <1>1, Frame
<1>3. /\ answer'[k] = a /\ \A i \in Args \ {k} : answer'[i] = answer[i]
      /\ answer' = [i \in Args |-> answer'[i]]
  BY DEF Answer, Static
<1>4. k \in ToHash /\ ToHash \subseteq Args /\ a # NoAnswer
  BY ToolCallAssumption DEF NextToHash, Unanswered, ToHash, Static
<1>5. pc' \in {"rewrite", "assemble"} /\ (pc' = "assemble" => Unanswered' = {})
  BY <1>2, <1>3, <1>4 DEF Answer, Unanswered
<1>6. TypeOK' BY <1>1, <1>3, <1>5 DEF TypeOK, Waiting
<1>7. PhaseInv' BY <1>1, <1>2, <1>3, <1>4, <1>5 DEF PhaseInv, Cleared
<1>8. AnswerInv'
  <2>1. ASSUME NEW i \in Args PROVE answer'[i] \in Statement \cup {NoAnswer, Skipped}
    BY <1>3 DEF AnswerInv
  <2>2. ASSUME NEW i \in Args, i \in Rewritten'
        PROVE  /\ ValidRewrite(PreparedArg(i), answer'[i], Targets(i))
               /\ Enforced(policy, answer'[i])
    BY <1>2, <1>3, <2>2 DEF AnswerInv, Rewritten
  <2> QED BY <1>1, <1>2, <2>1, <2>2 DEF AnswerInv
<1>9. GuardDecides' BY <1>1 DEF GuardDecides
<1> QED BY <1>1, <1>3, <1>6, <1>7, <1>8, <1>9, OtherKeeps DEF PhaseInv

LEMMA RewriteAcceptedKeeps ==
    ASSUME IInv, NEW k \in Args, RewriteAccepted(k) PROVE IInv'
<1>1. PICK r \in Rewrites(PreparedArg(k)) :
        ValidRewrite(PreparedArg(k), r, Targets(k)) /\ Enforced(policy, r) /\ Answer(k, r)
  BY DEF RewriteAccepted
<1>2. k \in DOMAIN query /\ Static
  BY DEF RewriteAccepted, NextToHash, Unanswered, ToHash, IInv
<1>3. r \in Statement
  BY <1>2, QueryTyped, RewritesTyped
<1>4. r # Skipped
  BY <1>3, ToolCallAssumption
<1> QED BY <1>1, <1>3, <1>4, AnswerKeeps DEF RewriteAccepted

LEMMA RewriteFailsKeeps ==
    ASSUME IInv, NEW k \in Args, RewriteFails(k) PROVE IInv'
<1>1. CASE server.onError = "allow" /\ Answer(k, Skipped) /\ status' = status
  BY <1>1, AnswerKeeps DEF RewriteFails
<1>2. CASE status' = "blocked" /\ pc' = "persist" /\ answer' = answer
  <2> USE DEF IInv
  <2>1. /\ server' = server /\ policy' = policy /\ query' = query /\ sent' = sent
        /\ report' = report /\ history' = history /\ pc = "rewrite"
        /\ result' = result /\ hashed' = hashed /\ session' = session
    BY DEF RewriteFails
  <2>2. /\ ToHash' = ToHash /\ \A i : Targets(i)' = Targets(i) /\ PreparedArg(i)' = PreparedArg(i)
    BY <2>1, Frame
  <2>3. TypeOK' BY <1>2, <2>1 DEF TypeOK, Waiting
  <2>4. PhaseInv' BY <1>2, <2>1 DEF PhaseInv, Cleared
  <2>5. AnswerInv' BY <1>2, <2>1, <2>2 DEF AnswerInv, Rewritten
  <2>6. GuardDecides' BY <1>2, <2>1 DEF GuardDecides, PhaseInv
  <2> QED BY <1>2, <2>1, <2>3, <2>4, <2>5, <2>6, OtherKeeps DEF PhaseInv, Static
<1> QED BY <1>1, <1>2 DEF RewriteFails, End

LEMMA AssembleKeeps ==
    ASSUME IInv, Assemble PROVE IInv'
<1> DEFINE m == [k \in DOMAIN query |-> IF k \in Rewritten THEN Substituted(answer[k])
                                        ELSE WithPrepared[k]]
           executed == {IF k \in Rewritten THEN answer[k] ELSE PreparedArg(k) : k \in ToReplace}
           columns == UNION {Targets(k) : k \in Rewritten}
<1>1. /\ pc = "assemble" /\ server.sql /\ Failing = {} /\ Admitted /\ Static
      /\ Unanswered = {} /\ report \in Report /\ report.executed = {}
      /\ server.onError = "block" => \A k \in ToHash : answer[k] # Skipped
  BY DEF Assemble, IInv, PhaseInv, TypeOK
<1>2. /\ Forward(m) /\ hashed' = columns
      /\ report' = [report EXCEPT !.executed = executed, !.hashed = columns]
      /\ UNCHANGED <<server, policy, query, session, answer, result, status, history>>
  BY DEF Assemble
<1>3. /\ Rewritten \subseteq ToHash /\ ToHash \subseteq ToReplace
      /\ ToReplace \subseteq DOMAIN query /\ DOMAIN query \subseteq Args
  BY <1>1 DEF Rewritten, ToHash, ToReplace, Static
<1>4. ASSUME NEW k \in Rewritten
      PROVE  /\ answer[k] \in Statement /\ answer[k].key = "placeholder"
             /\ Enforced(policy, answer[k]) /\ Targets(k) \subseteq Referenced(answer[k])
             /\ m[k] = Substituted(answer[k]) /\ m[k] \in Statement /\ Enforced(policy, m[k])
             /\ m[k].key = "secret" /\ Targets(k) \subseteq Referenced(m[k])
  <2>1. /\ answer[k] \in Statement /\ Enforced(policy, answer[k])
        /\ ValidRewrite(PreparedArg(k), answer[k], Targets(k))
    BY <1>3 DEF IInv, AnswerInv, Rewritten
  <2>2. answer[k].key = "placeholder" /\ Targets(k) \subseteq Referenced(answer[k])
    BY <2>1 DEF ValidRewrite
  <2>3. m[k] = Substituted(answer[k])
    BY <1>3
  <2> HIDE DEF m
  <2> QED BY <2>1, <2>2, <2>3, SubstitutedIs
<1>5. ASSUME NEW k \in DOMAIN query, k \notin Rewritten
      PROVE  /\ m[k] = WithPrepared[k] /\ m[k] \in Statement /\ Enforced(policy, m[k])
             /\ k \in ToReplace => m[k] = PreparedArg(k)
             /\ PreparedArg(k) \in Statement /\ PreparedArg(k).key # "secret"
  <2>1. m[k] = WithPrepared[k]
    BY <1>5
  <2> HIDE DEF m
  <2>2. k \in ToReplace => WithPrepared[k] = PreparedArg(k)
    BY DEF WithPrepared
  <2> QED BY <1>1, <2>1, <2>2, QueryTyped, PreparedPasses
<1>6. m \in [DOMAIN query -> Statement]
  BY <1>4, <1>5
<1>7. \A k \in DOMAIN query : Enforced(policy, m[k])
  BY <1>4, <1>5
<1>8. server.onError = "block" => ToHash \subseteq Rewritten
  BY <1>1 DEF Rewritten, Unanswered
<1>9. executed \subseteq Statement
  BY <1>3, <1>4, <1>5
<1>10. ASSUME NEW s \in executed
       PROVE  s.key # "secret" /\ \E k \in DOMAIN query : m[k] \in {s, Substituted(s)}
  <2>1. PICK k \in ToReplace : s = IF k \in Rewritten THEN answer[k] ELSE PreparedArg(k)
    OBVIOUS
  <2>2. k \in DOMAIN query
    BY <1>3
  <2> HIDE DEF m, executed
  <2> QED BY <1>4, <1>5, <2>1, <2>2
<1>11. columns \subseteq Columns
  BY DEF Targets, Projected, ColumnsByAction
<1> HIDE DEF m, executed, columns
<1>12. /\ report' \in Report /\ report'.executed = executed
       /\ report'.call = report.call /\ report'.result = report.result
  BY <1>1, <1>2, <1>9, <1>11 DEF Report
<1> QED BY <1>1, <1>2, <1>4, <1>6, <1>7, <1>8, <1>10, <1>11, <1>12, ForwardKeeps

\* Fields are fields, masked or not, and only columns are masked and removed.
LEMMA ReturnedTyped ==
    ASSUME IInv, pc = "upstream", NEW columns \in SUBSET Columns
    PROVE  Returned(columns) \subseteq Field
<1>1. /\ DOMAIN sent \subseteq Args
      /\ \A k \in DOMAIN sent : sent[k] \in Statement
  BY DEF IInv, TypeOK, PhaseInv
<1>2. ASSUME NEW k \in DOMAIN sent PROVE FieldsOf(k, sent[k]) \subseteq Field
  <2>1. sent[k].items \subseteq Item /\ k \in Args
    BY <1>1 DEF Statement
  <2>2. \A i \in Item : [arg |-> k, col |-> i.col, out |-> i.out,
                        value |-> IF i.hashed THEN "hashed" ELSE "raw"] \in Field
    BY <2>1 DEF Item, Field
  <2>3. \A c \in Columns : [arg |-> k, col |-> c, out |-> c, value |-> "raw"] \in Field
    BY <2>1 DEF Field
  <2> QED BY <2>1, <2>2, <2>3 DEF FieldsOf
<1>3. \A c \in Columns : [arg |-> 0, col |-> c, out |-> c, value |-> "raw"] \in Field
  BY DEF Field
<1> QED BY <1>2, <1>3 DEF Returned

LEMMA UpstreamAnswersKeeps ==
    ASSUME IInv, NEW json \in BOOLEAN, UpstreamAnswers(json) PROVE IInv'
<1> USE DEF IInv
<1>1. /\ server' = server /\ policy' = policy /\ query' = query /\ sent' = sent
      /\ answer' = answer /\ history' = history /\ hashed' = hashed /\ session' = session
      /\ pc = "upstream" /\ report \in Report /\ server.guard \in {"off", "calls", "results"}
      /\ \/ pc' = "reviewResult" /\ status' = status
         \/ pc' = "persist" /\ status' = "ok" /\ server.guard # "results"
  BY DEF UpstreamAnswers, TypeOK, End, Server
<1>2. PICK columns \in SUBSET Columns :
        LET returned == Returned(columns)
            removed == {f \in returned : RemovedField(f)}
            masked == {f \in returned : MaskedField(f)} IN
        \/ /\ result' = [json |-> TRUE,
                         fields |-> (returned \ (removed \cup masked))
                                    \cup {Mask(f) : f \in masked}]
           /\ report' = [report EXCEPT !.masked = {f.out : f \in masked},
                                       !.removed = {f.out : f \in removed}]
        \/ result' = [json |-> json, fields |-> returned] /\ report' = report
  BY DEF UpstreamAnswers
<1> DEFINE returned == Returned(columns)
           removed == {f \in returned : RemovedField(f)}
           masked == {f \in returned : MaskedField(f)}
<1>3. returned \subseteq Field
  BY <1>1, ReturnedTyped
<1>4. {Mask(f) : f \in masked} \subseteq Field
  <2>1. \A f \in Field : Mask(f) \in Field
    BY DEF Mask, Field
  <2> QED BY <1>3, <2>1
<1>5. {f.out : f \in masked} \subseteq Columns /\ {f.out : f \in removed} \subseteq Columns
  BY DEF MaskedField, RemovedField
<1>6. result'.fields \subseteq Field
  BY <1>2, <1>3, <1>4
<1>7. /\ report' \in Report /\ report'.executed = report.executed
      /\ report'.call = report.call /\ report'.result = report.result
  <2> DEFINE m == {f.out : f \in masked}
             r == {f.out : f \in removed}
  <2>1. report' = report \/ report' = [report EXCEPT !.masked = m, !.removed = r]
    BY <1>2
  <2>2. m \subseteq Columns /\ r \subseteq Columns
    BY <1>5
  <2> HIDE DEF m, r
  <2> QED BY <1>1, <2>1, <2>2 DEF Report
<1>8. /\ ToHash' = ToHash /\ (Admitted' <=> Admitted)
      /\ \A k : Targets(k)' = Targets(k) /\ PreparedArg(k)' = PreparedArg(k)
  BY <1>1, Frame
<1>9. TypeOK' BY <1>1, <1>6, <1>7 DEF TypeOK, Waiting, PhaseInv
<1>10. PhaseInv' BY <1>1, <1>7 DEF PhaseInv, Cleared
<1>11. AnswerInv' BY <1>1, <1>8 DEF AnswerInv, Rewritten
<1>12. GuardDecides' BY <1>1, <1>7 DEF GuardDecides, PhaseInv
<1> QED BY <1>1, <1>7, <1>9, <1>10, <1>11, <1>12, OtherKeeps DEF PhaseInv, Static

LEMMA InitIInv == ASSUME Init PROVE IInv
<1>1. /\ server \in Server /\ policy \in Policy /\ DOMAIN query \subseteq Args
      /\ query = [k \in DOMAIN query |-> query[k]]
      /\ \A k \in DOMAIN query : query[k] \in Queries
  BY ToolCallAssumption DEF Init
<1>2. Static
  BY <1>1 DEF Static, Init
<1>3. \A k \in Args : answer[k] = NoAnswer
  BY DEF Init
<1>4. TypeOK
  BY <1>1, <1>3 DEF Init, TypeOK, Waiting, Report, EmptyReport
<1>5. PhaseInv
  BY <1>3 DEF Init, PhaseInv, EmptyReport
<1>6. AnswerInv
  BY <1>1, <1>3 DEF AnswerInv, Rewritten, ToHash
<1> QED BY <1>2, <1>4, <1>5, <1>6
        DEF IInv, Init, EmptyReport, OnlyClearedIsSent, FailClosedHashes, ReportKeepsKeySecret,
            ReportedWasSent, GuardDecides

LEMMA StepKeeps == ASSUME IInv, [Next]_vars PROVE IInv'
<1>1. CASE Admit BY <1>1, AdmitKeeps
<1>2. ASSUME NEW v \in {"allow", "block"}, ReviewCall(v) PROVE IInv' BY <1>2, ReviewCallKeeps
<1>3. ASSUME NEW v \in {"allow", "block"}, ReviewResult(v) PROVE IInv' BY <1>3, ReviewResultKeeps
<1>4. CASE PassThrough BY <1>4, PassThroughKeeps
<1>5. CASE PrepareRejects BY <1>5, PrepareRejectsKeeps
<1>6. CASE Prepare BY <1>6, PrepareKeeps
<1>7. CASE ResolveSession BY <1>7, ResolveSessionKeeps
<1>8. ASSUME NEW k \in Args, RewriteAccepted(k) PROVE IInv' BY <1>8, RewriteAcceptedKeeps
<1>9. ASSUME NEW k \in Args, RewriteFails(k) PROVE IInv' BY <1>9, RewriteFailsKeeps
<1>10. CASE Assemble BY <1>10, AssembleKeeps
<1>11. ASSUME NEW json \in BOOLEAN, UpstreamAnswers(json) PROVE IInv'
  BY <1>11, UpstreamAnswersKeeps
<1>12. CASE Fails BY <1>12, FailsKeeps
<1>13. CASE Persist BY <1>13, PersistKeeps
<1>14. ASSUME NEW written \in BOOLEAN, Record(written) PROVE IInv' BY <1>14, RecordKeeps
<1>15. CASE Cancel BY <1>15, CancelKeeps
<1>16. CASE CloseSession BY <1>16, CloseSessionKeeps
<1>17. CASE UNCHANGED vars
  BY <1>17 DEF vars, IInv, Static, TypeOK, PhaseInv, AnswerInv, OnlyClearedIsSent,
               FailClosedHashes, ReportKeepsKeySecret, ReportedWasSent, GuardDecides,
               Cleared, Admitted, Failing, ToHash, Targets, PreparedArg, Unanswered, Rewritten
<1> QED BY <1>1, <1>2, <1>3, <1>4, <1>5, <1>6, <1>7, <1>8, <1>9, <1>10, <1>11, <1>12, <1>13,
           <1>14, <1>15, <1>16, <1>17 DEF Next

THEOREM Invariance == Spec => []IInv
<1>1. Init => IInv BY InitIInv
<1>2. IInv /\ [Next]_vars => IInv' BY StepKeeps
<1> QED BY <1>1, <1>2, PTL DEF Spec

\* Types of the request's state, its report and its history.
THEOREM TypeCorrect == Spec => []TypeOK
<1>1. IInv => TypeOK BY DEF IInv
<1> QED BY <1>1, Invariance, PTL

\* Only permitted tools are called, and only with statements the policy
\* accepts as they are sent, whatever the language model answers.
THEOREM ClearanceSafety == Spec => []OnlyClearedIsSent
<1>1. IInv => OnlyClearedIsSent BY DEF IInv
<1> QED BY <1>1, Invariance, PTL

\* Under on_error = "block" every statement with columns to hash leaves
\* rewritten, whatever fails on the way.
THEOREM HashingSafety == Spec => []FailClosedHashes
<1>1. IInv => FailClosedHashes BY DEF IInv
<1> QED BY <1>1, Invariance, PTL

\* No report and no line of history holds the data_key.
THEOREM SecretSafety == Spec => []ReportKeepsKeySecret
<1>1. IInv => ReportKeepsKeySecret BY DEF IInv
<1> QED BY <1>1, Invariance, PTL

\* Nothing is reported executed that was not sent.
THEOREM ReportSafety == Spec => []ReportedWasSent
<1>1. IInv => ReportedWasSent BY DEF IInv
<1> QED BY <1>1, Invariance, PTL

\* No call succeeds against the guard's verdict.
THEOREM GuardSafety == Spec => []GuardDecides
<1>1. IInv => GuardDecides BY DEF IInv
<1> QED BY <1>1, Invariance, PTL

------------------------------------------------------------------------------
\* What the rules of the policy make of a result.

Early == {"admit", "reviewCall", "prepare", "resolveSession", "rewrite", "assemble"}

\* As long as no column is known to be hashed, what is sent hashes nothing, so
\* that masking meets no hash.
ResultInv ==
    /\ pc \in Early => hashed = {}
    /\ pc \in Early \cup {"upstream"} => ~result.json
    /\ pc = "upstream" /\ hashed = {} => \A k \in DOMAIN query : \A i \in sent[k].items : ~i.hashed
    /\ ResultFollowsRules

\* Nothing is hashed by the preparation.
LEMMA PreparedUnhashed ==
    ASSUME Static, NEW k \in DOMAIN query
    PROVE  \A i \in query[k].items \cup PreparedArg(k).items \cup WithPrepared[k].items : ~i.hashed
<1>1. query[k] \in Statement /\ \A i \in query[k].items : ~i.hashed
  BY ToolCallAssumption DEF Static
<1> DEFINE s == query[k]
           new == {Plain(c) : c \in UNION {policy.declared[t] : t \in s.stars}}
           expanded == [s EXCEPT !.stars = {}, !.items = s.items \cup new]
<1>2. \A i \in new : ~i.hashed
  BY DEF Plain
<1>3. expanded.items = s.items \cup new
  <2> HIDE DEF new
  <2> QED BY <1>1 DEF Statement
<1>4. ExpandStars(policy, s) \in {s, expanded}
  BY DEF ExpandStars
<1>5. ExpandStars(policy, s) \in Statement
  BY <1>1, ExpandTyped DEF Static, ToolCallAssumption
<1>6. \A i \in ExpandStars(policy, s).items : ~i.hashed
  <2> HIDE DEF expanded, new
  <2> QED BY <1>1, <1>2, <1>3, <1>4
<1>7. PreparedArg(k).items \subseteq ExpandStars(policy, s).items
  BY <1>5 DEF PreparedArg, Prepared, DropColumns, Statement
<1>8. WithPrepared[k] \in {s, PreparedArg(k)}
  BY DEF WithPrepared
<1> HIDE DEF s
<1> QED BY <1>1, <1>6, <1>7, <1>8 DEF s

\* A step that leaves the call, what was sent and the result alone.
LEMMA QuietKeeps ==
    ASSUME ResultInv, UNCHANGED <<server, policy, query, sent, hashed, result>>,
           pc' \in Early => pc \in Early, pc' = "upstream" => pc = "upstream"
    PROVE  ResultInv'
BY DEF ResultInv, ResultFollowsRules

\* Until something is sent there is no result.
LEMMA ForwardFollows ==
    ASSUME ResultInv, pc \in Early, NEW m, Forward(m), UNCHANGED <<server, query, result>>,
           hashed' = {} => \A k \in DOMAIN query : \A i \in m[k].items : ~i.hashed
    PROVE  ResultInv'
BY DEF ResultInv, ResultFollowsRules, Forward, Early

\* If any argument was rewritten its columns are known to be hashed.
LEMMA AssembleFollows ==
    ASSUME IInv, ResultInv, Assemble PROVE ResultInv'
<1> DEFINE m == [k \in DOMAIN query |-> IF k \in Rewritten THEN Substituted(answer[k])
                                        ELSE WithPrepared[k]]
<1>1. /\ pc = "assemble" /\ Forward(m) /\ hashed' = UNION {Targets(k) : k \in Rewritten}
      /\ UNCHANGED <<server, query, result>>
  BY DEF Assemble
<1>2. \A k \in Rewritten : Targets(k) # {}
  BY DEF Rewritten, ToHash
<1>3. hashed' = {} => Rewritten = {}
  BY <1>1, <1>2
<1>4. ASSUME Rewritten = {}, NEW k \in DOMAIN query PROVE \A i \in m[k].items : ~i.hashed
  <2>1. m[k] = WithPrepared[k]
    BY <1>4
  <2> HIDE DEF m
  <2> QED BY <2>1, PreparedUnhashed DEF IInv
<1> HIDE DEF m
<1> QED BY <1>1, <1>3, <1>4, ForwardFollows DEF Early

\* Without hashed columns every value comes as it is in the database.
LEMMA ReturnedRaw ==
    ASSUME IInv, ResultInv, pc = "upstream", hashed = {}, NEW columns,
           NEW f \in Returned(columns)
    PROVE  f.value = "raw"
<1>1. DOMAIN sent = DOMAIN query
  BY DEF IInv, PhaseInv, TypeOK
<1>2. ASSUME NEW k \in DOMAIN sent, NEW g \in FieldsOf(k, sent[k]) PROVE g.value = "raw"
  <2>1. \A i \in sent[k].items : ~i.hashed
    BY <1>1 DEF ResultInv
  <2> QED BY <2>1 DEF FieldsOf
<1> QED BY <1>2 DEF Returned

\* The removed fields are gone, and what is masked was raw.
LEMMA UpstreamFollows ==
    ASSUME IInv, ResultInv, NEW json \in BOOLEAN, UpstreamAnswers(json) PROVE ResultInv'
<1>1. /\ pc = "upstream" /\ pc' \in {"reviewResult", "persist"} /\ hashed' = hashed
      /\ server' = server /\ policy' = policy /\ query' = query
  BY DEF UpstreamAnswers, End
<1>2. SUFFICES ASSUME server.sql, result'.json PROVE ResultFollowsRules'
  BY <1>1 DEF ResultInv, Early, ResultFollowsRules
<1>3. PICK columns \in SUBSET Columns :
        LET returned == Returned(columns)
            removed == {f \in returned : RemovedField(f)}
            masked == {f \in returned : MaskedField(f)} IN
        result'.fields = (returned \ (removed \cup masked)) \cup {Mask(f) : f \in masked}
  BY <1>2 DEF UpstreamAnswers
<1> DEFINE returned == Returned(columns)
<1>4. returned \subseteq Field
  BY <1>1, ReturnedTyped
<1>5. ASSUME NEW f \in returned, ~RemovedField(f), ~MaskedField(f)
      PROVE  /\ f.out \in Columns => policy.action[f.out] # "drop"
             /\ f.out \in Columns /\ policy.action[f.out] = "mask" => hashed # {}
             /\ f.value # "mangled"
  <2>1. f.value # "mangled"
    <3>1. ASSUME NEW k, NEW s, NEW g \in FieldsOf(k, s) PROVE g.value # "mangled"
      BY DEF FieldsOf
    <3> QED BY <3>1 DEF Returned
  <2> QED BY <1>5, <2>1 DEF RemovedField, MaskedField
<1>6. ASSUME NEW f \in returned, MaskedField(f)
      PROVE  /\ Mask(f).out = f.out /\ policy.action[f.out] = "mask" /\ Mask(f).value = "masked"
  <2>1. f.value = "raw" /\ f \in Field
    BY <1>1, <1>4, <1>6, ReturnedRaw DEF MaskedField
  <2>2. Mask(f) = [f EXCEPT !.value = "masked"]
    BY <2>1 DEF Mask
  <2> QED BY <1>6, <2>1, <2>2 DEF MaskedField, Field
<1> HIDE DEF returned
<1>7. ASSUME NEW g \in result'.fields
      PROVE  /\ g.out \in Columns => policy.action[g.out] # "drop"
             /\ g.out \in Columns /\ g.value = "raw" /\ policy.action[g.out] = "mask" => hashed # {}
             /\ g.value # "mangled"
  <2>1. \/ g \in returned /\ ~RemovedField(g) /\ ~MaskedField(g)
        \/ \E f \in returned : MaskedField(f) /\ g = Mask(f)
    BY <1>3 DEF returned
  <2> QED BY <1>5, <1>6, <2>1
<1> QED BY <1>1, <1>7 DEF ResultFollowsRules

LEMMA StepFollows ==
    ASSUME IInv, ResultInv, [Next]_vars PROVE ResultInv'
<1> USE DEF Early
<1>1. CASE Admit BY <1>1, QuietKeeps DEF Admit, End
<1>2. ASSUME NEW verdict \in {"allow", "block"}, ReviewCall(verdict) \/ ReviewResult(verdict)
      PROVE  ResultInv'
  BY <1>2, QuietKeeps DEF ReviewCall, ReviewResult, End
<1>3. CASE PassThrough
  <2>1. \A k \in DOMAIN query : \A i \in query[k].items : ~i.hashed
    BY PreparedUnhashed DEF IInv
  <2> QED BY <1>3, <2>1, ForwardFollows DEF PassThrough
<1>4. CASE PrepareRejects BY <1>4, QuietKeeps DEF PrepareRejects, End
<1>5. CASE Prepare
  <2>1. \A k \in DOMAIN query : \A i \in query[k].items : ~i.hashed
    BY PreparedUnhashed DEF IInv
  <2>2. CASE Forward(query) BY <1>5, <2>1, <2>2, ForwardFollows DEF Prepare
  <2>3. CASE sent' = sent /\ pc' \in Early BY <1>5, <2>3, QuietKeeps DEF Prepare
  <2> QED BY <1>5, <2>2, <2>3 DEF Prepare
<1>6. CASE ResolveSession
  <2>1. \A k \in DOMAIN query : \A i \in WithPrepared[k].items : ~i.hashed
    BY PreparedUnhashed DEF IInv
  <2>2. CASE Forward(WithPrepared) BY <1>6, <2>1, <2>2, ForwardFollows DEF ResolveSession
  <2>3. CASE sent' = sent /\ pc' \in {"rewrite", "persist"}
    BY <1>6, <2>3, QuietKeeps DEF ResolveSession
  <2> QED BY <1>6, <2>2, <2>3 DEF ResolveSession, End
<1>7. ASSUME NEW k \in Args, RewriteAccepted(k) \/ RewriteFails(k) PROVE ResultInv'
  BY <1>7, QuietKeeps DEF RewriteAccepted, RewriteFails, Answer, End
<1>8. CASE Assemble BY <1>8, AssembleFollows
<1>9. ASSUME NEW json \in BOOLEAN, UpstreamAnswers(json) PROVE ResultInv'
  BY <1>9, UpstreamFollows
<1>10. CASE Fails BY <1>10, QuietKeeps DEF Fails, End
<1>11. CASE Persist BY <1>11, QuietKeeps DEF Persist
<1>12. ASSUME NEW written \in BOOLEAN, Record(written) PROVE ResultInv'
  BY <1>12, QuietKeeps DEF Record
<1>13. CASE Cancel \/ CloseSession \/ UNCHANGED vars
  BY <1>13, QuietKeeps DEF Cancel, CloseSession, vars
<1> QED BY <1>1, <1>2, <1>3, <1>4, <1>5, <1>6, <1>7, <1>8, <1>9, <1>10, <1>11, <1>12, <1>13 DEF Next

\* What the client is given follows the rules of the policy, however the call
\* was rewritten.
THEOREM ResultSafety == Spec => []ResultFollowsRules
<1>1. Init => ResultInv
  BY DEF Init, ResultInv, ResultFollowsRules
<1>2. IInv /\ ResultInv /\ [Next]_vars => ResultInv'
  BY StepFollows
<1>3. ResultInv => ResultFollowsRules
  BY DEF ResultInv
<1> QED BY <1>1, <1>2, <1>3, Invariance, PTL DEF Spec

------------------------------------------------------------------------------
LEMMA SamePolicy == \A p, s : Gateway!Enforced(p, s) <=> Enforced(p, s)
BY DEF Enforced, Selected, Referenced, OutputNames, ColumnsByAction, StarPermitted,
       Gateway!Enforced, Gateway!Selected, Gateway!Referenced, Gateway!OutputNames, Gateway!ColumnsByAction,
       Gateway!StarPermitted

\* Every step of the chain is a step of GatewayCall or leaves it alone.
LEMMA StepImplements ==
    ASSUME IInv, IInv', [Next]_vars
    PROVE  [Gateway!Next]_(Gateway!vars)
<1> DEFINE G == [Gateway!Next]_(Gateway!vars)
<1> USE DEF IInv
<1>1. ASSUME UNCHANGED <<server, policy, sent, status, history>> PROVE G
  BY <1>1 DEF Gateway!vars
<1>2. ASSUME NEW m, Forward(m), sent = NotSent, sent' # NotSent, status = "none",
             OnlyClearedIsSent', DOMAIN sent' = DOMAIN query',
             UNCHANGED <<server, policy, query, status, history>>
      PROVE  G
  <2>1. server.permitted /\ (server.sql => \A k \in DOMAIN sent' : Enforced(policy, sent'[k]))
    BY <1>2 DEF OnlyClearedIsSent
  <2>2. server.sql => \A k \in DOMAIN sent' : Gateway!Enforced(policy, sent'[k])
    BY <2>1, SamePolicy
  <2>3. Gateway!Send
    BY <1>2, <2>1, <2>2 DEF Gateway!Send
  <2> QED BY <2>3 DEF Gateway!Next
<1>3. ASSUME status = "none", status' \in {"blocked", "error", "cancelled"},
             UNCHANGED <<server, policy, sent, history>>
      PROVE  G
  BY <1>3 DEF Gateway!Next, Gateway!Fail
<1>4. ASSUME status = "none", status' = "ok", sent # NotSent,
             UNCHANGED <<server, policy, sent, history>>
      PROVE  G
  BY <1>4 DEF Gateway!Next, Gateway!Succeed
<1>5. CASE UNCHANGED vars BY <1>1, <1>5 DEF vars
<1>6. CASE Admit \/ Fails \/ PrepareRejects
  BY <1>1, <1>3, <1>6 DEF Admit, Fails, PrepareRejects, PrepareFailure, Failing, End, PhaseInv
<1>7. ASSUME NEW v \in {"allow", "block"}, ReviewCall(v) \/ ReviewResult(v) PROVE G
  BY <1>1, <1>3, <1>4, <1>7 DEF ReviewCall, ReviewResult, End, PhaseInv
<1>8. CASE PassThrough \/ Assemble \/ Prepare \/ ResolveSession
  <2>1. status = "none" /\ sent = NotSent
    BY <1>8 DEF PassThrough, Assemble, Prepare, ResolveSession, PhaseInv
  <2>2. ASSUME NEW m, Forward(m), UNCHANGED <<server, policy, query, status, history>> PROVE G
    <3>1. sent' # NotSent /\ DOMAIN sent' = DOMAIN query'
      BY <2>2 DEF Forward, PhaseInv, TypeOK
    <3> QED BY <1>2, <2>1, <2>2, <3>1
  <2>3. CASE PassThrough BY <2>2, <2>3 DEF PassThrough
  <2>4. CASE Assemble BY <2>2, <2>4 DEF Assemble
  <2>5. CASE Prepare BY <1>1, <2>2, <2>5 DEF Prepare
  <2>6. CASE ResolveSession BY <1>1, <1>3, <2>1, <2>2, <2>6 DEF ResolveSession, End
  <2> QED BY <1>8, <2>3, <2>4, <2>5, <2>6
<1>9. ASSUME NEW k \in Args, RewriteAccepted(k) \/ RewriteFails(k) PROVE G
  BY <1>1, <1>3, <1>9 DEF RewriteAccepted, RewriteFails, End, PhaseInv
<1>10. ASSUME NEW json \in BOOLEAN, UpstreamAnswers(json) PROVE G
  <2>1. /\ pc = "upstream" /\ (status' = status \/ status' = "ok")
        /\ UNCHANGED <<server, policy, sent, history>>
    BY <1>10 DEF UpstreamAnswers, End
  <2> QED BY <1>1, <1>4, <2>1 DEF PhaseInv
<1>11. CASE Persist \/ CloseSession
  BY <1>1, <1>11 DEF Persist, CloseSession
<1>12. ASSUME NEW written \in BOOLEAN, Record(written) PROVE G
  <2>1. CASE history' = history BY <1>1, <1>12, <2>1 DEF Record
  <2>2. CASE history' = Line
    <3>1. /\ history = NoEntry /\ status \in {"ok", "blocked", "error"}
          /\ UNCHANGED <<server, policy, sent, status>>
      BY <1>12 DEF Record, PhaseInv
    <3>2. history' = NoEntry \/ (history' # NoEntry /\ history'.status = status)
      BY <2>2 DEF Line
    <3> QED BY <1>1, <3>1, <3>2 DEF Gateway!Next, Gateway!Record
  <2> QED BY <1>12, <2>1, <2>2 DEF Record
<1>13. CASE Cancel
  <2>1. /\ pc \in Waiting /\ history = NoEntry /\ status' = "cancelled"
        /\ UNCHANGED <<server, policy, sent>>
        /\ history' = NoEntry \/ (history' # NoEntry /\ history'.status = status /\ pc = "record")
    BY <1>13 DEF Cancel, PhaseInv, Waiting, Line
  <2>2. CASE pc \in {"persist", "record"}
    <3>1. status \in {"ok", "blocked", "error"}
      BY <2>2 DEF PhaseInv
    <3> QED BY <2>1, <3>1 DEF Gateway!Next, Gateway!CancelLate
  <2>3. CASE pc \notin {"persist", "record"}
    <3>1. status = "none" /\ history' = history
      BY <2>1, <2>3 DEF PhaseInv, Waiting
    <3> QED BY <1>3, <2>1, <3>1
  <2> QED BY <2>2, <2>3
<1> QED BY <1>5, <1>6, <1>7, <1>8, <1>9, <1>10, <1>11, <1>12, <1>13 DEF Next

\* The chain implements the abstract gateway: a call is sent at most once and
\* cleared, and its line of history tells how it ended.
THEOREM Refinement == Spec => ImplementsGateway
<1>1. Init => Gateway!Init BY DEF Init, Gateway!Init
<1>2. IInv /\ IInv' /\ [Next]_vars => [Gateway!Next]_(Gateway!vars) BY StepImplements
<1> QED BY <1>1, <1>2, Invariance, PTL DEF Spec, ImplementsGateway, Gateway!Spec

------------------------------------------------------------------------------
(***************************************************************************)
(* What of the client's projections reaches the server: the part of        *)
(* DroppedIsAbsent that the code does guarantee.                           *)
(***************************************************************************)
Asked(k) == OutputNames(ExpandStars(policy, query[k]))
Dropped(k) == Projected(policy, ExpandStars(policy, query[k]), "drop")

\* m outputs for each argument what the client asked for, less what is dropped,
\* when every star of it could be expanded.
OutputsLess(m) ==
    \A k \in DOMAIN query :
      PreparedArg(k).stars = {} =>
        m[k].stars = {} /\ OutputNames(m[k]) = Asked(k) \ Dropped(k)

OutputsAreKept == sent # NotSent /\ server.sql => OutputsLess(sent)

LEMMA DropNames ==
    ASSUME NEW s \in Statement, NEW names
    PROVE  /\ OutputNames(DropColumns(s, names)) = OutputNames(s) \ names
           /\ DropColumns(s, names).stars = s.stars
<1> DEFINE items == {i \in s.items : i.out \notin names}
<1>1. DropColumns(s, names) = [s EXCEPT !.items = items]
  BY DEF DropColumns
<1>2. DropColumns(s, names).items = items /\ DropColumns(s, names).stars = s.stars
  <2> HIDE DEF items
  <2> QED BY <1>1 DEF Statement
<1> QED BY <1>2 DEF OutputNames

LEMMA PreparedNames ==
    ASSUME IInv, NEW k \in DOMAIN query
    PROVE  OutputNames(PreparedArg(k)) = Asked(k) \ Dropped(k)
<1>1. ExpandStars(policy, query[k]) \in Statement
  BY ExpandTyped, ToolCallAssumption DEF IInv, Static
<1> QED BY <1>1, DropNames DEF PreparedArg, Prepared, Asked, Dropped

\* The preparation alone outputs the right names ...
LEMMA PreparedOutputs ==
    ASSUME IInv
    PROVE  OutputsLess(WithPrepared) /\ (ToReplace = {} => OutputsLess(query))
<1>1. ASSUME NEW k \in DOMAIN query PROVE WithPrepared[k] = PreparedArg(k)
  BY DEF WithPrepared, ToReplace
<1>2. ASSUME NEW k \in DOMAIN query, ToReplace = {} PROVE query[k] = PreparedArg(k)
  BY <1>2 DEF ToReplace
<1> QED BY <1>1, <1>2, PreparedNames DEF OutputsLess

\* ... and a rewrite that was accepted keeps them.
LEMMA AssembledOutputs ==
    ASSUME IInv, Assemble PROVE OutputsLess(sent')
<1> DEFINE m == [k \in DOMAIN query |-> IF k \in Rewritten THEN Substituted(answer[k])
                                        ELSE WithPrepared[k]]
<1>1. sent' = m
  BY DEF Assemble, Forward
<1>2. ASSUME NEW k \in DOMAIN query, PreparedArg(k).stars = {}
      PROVE  m[k].stars = {} /\ OutputNames(m[k]) = Asked(k) \ Dropped(k)
  <2>1. CASE k \in Rewritten
    <3>1. m[k] = Substituted(answer[k])
      BY <2>1
    <3> HIDE DEF m
    <3>2. answer[k] \in Statement /\ ValidRewrite(PreparedArg(k), answer[k], Targets(k))
      BY <2>1 DEF IInv, Static, AnswerInv, Rewritten
    <3>3. answer[k].stars = {} /\ OutputNames(answer[k]) = OutputNames(PreparedArg(k))
      BY <1>2, <3>2 DEF ValidRewrite
    <3> QED BY <3>1, <3>2, <3>3, SubstitutedIs, PreparedNames
  <2>2. CASE k \notin Rewritten
    <3>1. m[k] = WithPrepared[k]
      BY <2>2
    <3> HIDE DEF m
    <3> QED BY <1>2, <3>1, PreparedOutputs DEF OutputsLess
  <2> QED BY <2>1, <2>2
<1> HIDE DEF m
<1> QED BY <1>1, <1>2 DEF OutputsLess

\* Statements leave in three places only.
LEMMA SentOutputs ==
    ASSUME IInv, [Next]_vars
    PROVE  /\ UNCHANGED <<server, policy, query>>
           /\ sent' = sent \/ ~server.sql \/ OutputsLess(sent')
<1>1. UNCHANGED <<server, policy, query>>
  BY DEF Next, vars, Admit, ReviewCall, ReviewResult, PassThrough, PrepareRejects, Prepare,
         ResolveSession, RewriteAccepted, RewriteFails, Assemble, UpstreamAnswers, Fails,
         Persist, Record, Cancel, CloseSession
<1>2. CASE Assemble
  BY <1>1, <1>2, AssembledOutputs
<1>3. CASE PassThrough
  BY <1>3 DEF PassThrough
<1>4. CASE Prepare
  BY <1>4, PreparedOutputs DEF Prepare, Forward
<1>5. CASE ResolveSession
  BY <1>5, PreparedOutputs DEF ResolveSession, Forward
<1>6. CASE ~(Assemble \/ PassThrough \/ Prepare \/ ResolveSession)
  BY <1>6 DEF Next, vars, Admit, ReviewCall, ReviewResult, PrepareRejects, RewriteAccepted,
              RewriteFails, UpstreamAnswers, Fails, Persist, Record, Cancel, CloseSession
<1> QED BY <1>1, <1>2, <1>3, <1>4, <1>5, <1>6

\* A statement whose stars are expanded reaches the server with exactly the
\* output names the client asked for, less the columns that were dropped: no
\* rewrite, retry or fallback brings a dropped name back or loses another
\* (middleware.py:504-600, rewriter/service.py:149-186).  DroppedIsAbsent asks
\* more, that the dropped column is not read under another name either.
THEOREM OutputSafety == Spec => []OutputsAreKept
<1>1. Init => OutputsAreKept
  BY DEF Init, OutputsAreKept
<1>2. ASSUME IInv, OutputsAreKept, [Next]_vars PROVE OutputsAreKept'
  <2>1. UNCHANGED <<server, policy, query>>
    BY <1>2, SentOutputs
  <2>2. sent' = sent \/ ~server.sql \/ OutputsLess(sent')
    BY <1>2, SentOutputs
  <2> QED BY <1>2, <2>1, <2>2
          DEF OutputsAreKept, OutputsLess, PreparedArg, Asked, Dropped
<1> QED BY <1>1, <1>2, Invariance, PTL DEF Spec

------------------------------------------------------------------------------
(***************************************************************************)
(* How long a call can go on, and that it always can until it is done.     *)
(***************************************************************************)
\* The steps between a place in the chain and the end of the call.
Rank(place) ==
    CASE place = "admit"          -> 10
      [] place = "reviewCall"     -> 9
      [] place = "prepare"        -> 8
      [] place = "resolveSession" -> 7
      [] place = "rewrite"        -> 6
      [] place = "assemble"       -> 5
      [] place = "upstream"       -> 4
      [] place = "reviewResult"   -> 3
      [] place = "persist"        -> 2
      [] place = "record"         -> 1
      [] OTHER                    -> 0

\* The steps a call has left at most, those of the others who end its session
\* included: one for each place, rewrite and end of a session.
StepsOfCall ==
    Rank(pc) + Cardinality(Unanswered) + (IF session = "open" THEN 1 ELSE 0)

\* No place keeps a call without a way on: of the arguments that cannot be
\* prepared one is reached first, and a call that asks for rewrites has one to
\* ask for next.
CanGoOn ==
    /\ pc = "prepare" /\ Failing # {} => Failing \cap Reached # {}
    /\ pc = "rewrite" => \E k \in Args : NextToHash(k)

LEMMA RankIsNat == \A place : Rank(place) \in 0..10
BY DEF Rank

LEMMA UnansweredFinite ==
    ASSUME IInv
    PROVE  /\ ToHash \subseteq Args /\ Unanswered \subseteq Args
           /\ IsFiniteSet(Unanswered) /\ Cardinality(Unanswered) \in Nat
<1>1. ToHash \subseteq Args /\ Unanswered \subseteq Args
  BY DEF IInv, Static, ToHash, Unanswered
<1> QED BY <1>1, ToolCallAssumption, FS_Subset, FS_CardinalityType

\* A step from place to place answers nothing or one argument.
LEMMA RankDrops ==
    ASSUME IInv, Rank(pc') < Rank(pc), session' = session,
           UNCHANGED <<policy, query, answer>>
    PROVE  StepsOfCall' < StepsOfCall
<1>1. Unanswered' = Unanswered
  BY DEF Unanswered, ToHash, Targets, PreparedArg
<1>2. Rank(pc) \in 0..10 /\ Rank(pc') \in 0..10 /\ Cardinality(Unanswered) \in Nat
  BY RankIsNat, UnansweredFinite
<1> DEFINE open == IF session = "open" THEN 1 ELSE 0
<1>3. open \in {0, 1}
  OBVIOUS
<1>4. /\ StepsOfCall = Rank(pc) + Cardinality(Unanswered) + open
      /\ StepsOfCall' = Rank(pc') + Cardinality(Unanswered) + open
  BY <1>1 DEF StepsOfCall
<1> HIDE DEF open
<1> QED BY <1>2, <1>3, <1>4

LEMMA AnswerDrops ==
    ASSUME IInv, NEW k \in Args, pc = "rewrite", NextToHash(k),
           NEW a \in Statement \cup {Skipped}, Answer(k, a), session' = session,
           UNCHANGED <<policy, query>>
    PROVE  StepsOfCall' < StepsOfCall
<1>1. a # NoAnswer
  BY ToolCallAssumption
<1>2. k \in Unanswered /\ k \in ToHash /\ answer = [i \in Args |-> answer[i]]
  BY DEF NextToHash, Unanswered, IInv, Static
<1>3. ToHash' = ToHash
  BY DEF ToHash, Targets, PreparedArg
<1>4. \A i \in Args : answer'[i] = IF i = k THEN a ELSE answer[i]
  BY <1>2 DEF Answer
<1>5. Unanswered' = Unanswered \ {k}
  BY <1>1, <1>2, <1>3, <1>4, UnansweredFinite DEF Unanswered
<1>6. Cardinality(Unanswered') = Cardinality(Unanswered) - 1
  BY <1>2, <1>5, UnansweredFinite, FS_RemoveElement
<1>7. Rank(pc) = 6 /\ Rank(pc') \in {5, 6}
  BY DEF Answer, Rank
<1> DEFINE open == IF session = "open" THEN 1 ELSE 0
<1>8. open \in {0, 1} /\ Cardinality(Unanswered) \in Nat
  BY UnansweredFinite
<1>9. /\ StepsOfCall = Rank(pc) + Cardinality(Unanswered) + open
      /\ StepsOfCall' = Rank(pc') + Cardinality(Unanswered') + open
  BY DEF StepsOfCall
<1> HIDE DEF open
<1> QED BY <1>6, <1>7, <1>8, <1>9

LEMMA CallStepDrops == ASSUME IInv, Next PROVE StepsOfCall' < StepsOfCall
<1>1. CASE Admit
  BY <1>1, RankDrops DEF Admit, End, Rank
<1>2. ASSUME NEW verdict \in {"allow", "block"}, ReviewCall(verdict)
      PROVE  StepsOfCall' < StepsOfCall
  BY <1>2, RankDrops DEF ReviewCall, End, Rank
<1>3. ASSUME NEW verdict \in {"allow", "block"}, ReviewResult(verdict)
      PROVE  StepsOfCall' < StepsOfCall
  BY <1>3, RankDrops DEF ReviewResult, End, Rank
<1>4. CASE PassThrough
  BY <1>4, RankDrops DEF PassThrough, Forward, Rank
<1>5. CASE PrepareRejects
  BY <1>5, RankDrops DEF PrepareRejects, End, Rank
<1>6. CASE Prepare
  BY <1>6, RankDrops DEF Prepare, Forward, Rank
<1>7. CASE ResolveSession
  BY <1>7, RankDrops DEF ResolveSession, Forward, End, Rank
<1>8. ASSUME NEW k \in Args, RewriteAccepted(k) PROVE StepsOfCall' < StepsOfCall
  <2>1. PreparedArg(k) \in Statement
    BY <1>8, PreparedTyped, ToolCallAssumption
       DEF RewriteAccepted, NextToHash, Unanswered, ToHash, IInv, Static, PreparedArg
  <2>2. \A r \in Rewrites(PreparedArg(k)) : r \in Statement
    BY <2>1, RewritesTyped
  <2> QED BY <1>8, <2>2, AnswerDrops DEF RewriteAccepted
<1>9. ASSUME NEW k \in Args, RewriteFails(k) PROVE StepsOfCall' < StepsOfCall
  <2>1. CASE Answer(k, Skipped)
    BY <1>9, <2>1, AnswerDrops DEF RewriteFails
  <2>2. CASE End("blocked") /\ UNCHANGED answer
    BY <1>9, <2>2, RankDrops DEF RewriteFails, End, Rank
  <2> QED BY <1>9, <2>1, <2>2 DEF RewriteFails
<1>10. CASE Assemble
  BY <1>10, RankDrops DEF Assemble, Forward, Rank
<1>11. ASSUME NEW json \in BOOLEAN, UpstreamAnswers(json) PROVE StepsOfCall' < StepsOfCall
  <2>1. /\ pc = "upstream" /\ pc' \in {"reviewResult", "persist"} /\ session' = session
        /\ UNCHANGED <<policy, query, answer>>
    BY <1>11 DEF UpstreamAnswers, End
  <2> QED BY <2>1, RankDrops DEF Rank
<1>12. CASE Fails
  BY <1>12, RankDrops DEF Fails, End, Rank
<1>13. CASE Persist
  BY <1>13, RankDrops DEF Persist, Rank
<1>14. ASSUME NEW written \in BOOLEAN, Record(written) PROVE StepsOfCall' < StepsOfCall
  BY <1>14, RankDrops DEF Record, Rank
<1>15. CASE Cancel
  BY <1>15, RankDrops DEF Cancel, Waiting, Rank
<1>16. CASE CloseSession
  <2>1. Unanswered' = Unanswered /\ pc' = pc /\ session = "open" /\ session' = "closed"
    BY <1>16 DEF CloseSession, Unanswered, ToHash, Targets, PreparedArg
  <2>2. /\ StepsOfCall = Rank(pc) + Cardinality(Unanswered) + 1
        /\ StepsOfCall' = Rank(pc) + Cardinality(Unanswered) + 0
    BY <2>1 DEF StepsOfCall
  <2> QED BY <2>2, RankIsNat, UnansweredFinite
<1> QED BY <1>1, <1>2, <1>3, <1>4, <1>5, <1>6, <1>7, <1>8, <1>9, <1>10, <1>11, <1>12, <1>13,
           <1>14, <1>15, <1>16 DEF Next

\* However the model, the server, the database and the other requests behave, a
\* call goes through the chain once and takes no more steps than there are
\* awaits and arguments: no failure or rewrite sends it back.
THEOREM CallsComeToAnEnd == Spec => [][StepsOfCall' < StepsOfCall]_vars
<1>1. IInv /\ [Next]_vars => [StepsOfCall' < StepsOfCall]_vars
  BY CallStepDrops
<1> QED BY <1>1, Invariance, PTL DEF Spec

LEMMA LeastNatural ==
    ASSUME NEW S, S \subseteq Nat, S # {}
    PROVE  \E x \in S : \A y \in S : x <= y
<1> DEFINE R == OpToRel(<, Nat)
<1>1. \E x \in S : \A y \in S : ~(<<y, x>> \in R)
  <2> HIDE DEF R
  <2>1. IsWellFoundedOn(R, Nat) BY NatLessThanWellFounded DEF R
  <2> QED BY <2>1, WFMin
<1>2. PICK x \in S : \A y \in S : ~(<<y, x>> \in R) BY <1>1
<1>3. ASSUME NEW y \in S PROVE x <= y
  <2>1. x \in Nat /\ y \in Nat OBVIOUS
  <2>2. ~(y < x)
    <3>1. SUFFICES ASSUME y < x PROVE <<y, x>> \in R BY <1>2
    <3> QED BY <2>1, <3>1 DEF OpToRel
  <2> QED BY <2>1, <2>2
<1> QED BY <1>3

\* Who asks for rewrites has one left to ask for.
RewriteInv ==
    /\ pc = "resolveSession" => ToHash # {}
    /\ pc = "rewrite" => Unanswered # {}

LEMMA RewriteStep == ASSUME IInv, RewriteInv, [Next]_vars PROVE RewriteInv'
<1>1. ToHash' = ToHash
  BY SentOutputs DEF ToHash, Targets, PreparedArg
<1>2. CASE Prepare
  BY <1>1, <1>2 DEF Prepare, Forward, RewriteInv
<1>3. CASE ResolveSession
  <2>1. ToHash # {} /\ ToHash \subseteq Args /\ \A k \in Args : answer[k] = NoAnswer
    BY <1>3, UnansweredFinite DEF RewriteInv, ResolveSession, IInv, PhaseInv
  <2>2. answer' = answer /\ pc' # "resolveSession"
    BY <1>3 DEF ResolveSession, Forward, End
  <2>3. Unanswered' # {}
    BY <1>1, <2>1, <2>2 DEF Unanswered
  <2> QED BY <2>2, <2>3 DEF RewriteInv
<1>4. ASSUME NEW k \in Args, NEW a, NextToHash(k), Answer(k, a), pc = "rewrite"
      PROVE  RewriteInv'
  <2>1. CASE Unanswered = {k}
    BY <1>4, <2>1 DEF Answer, RewriteInv
  <2>2. CASE Unanswered # {k}
    <3>1. PICK i \in Unanswered : i # k
      BY <1>4, <2>2 DEF NextToHash
    <3>2. i \in Args /\ answer = [l \in Args |-> answer[l]]
      BY UnansweredFinite DEF IInv, Static
    <3>3. answer'[i] = answer[i]
      BY <1>4, <3>1, <3>2 DEF Answer
    <3>4. i \in Unanswered'
      BY <1>1, <3>1, <3>3 DEF Unanswered
    <3> QED BY <1>4, <2>2, <3>4 DEF Answer, RewriteInv
  <2> QED BY <2>1, <2>2
<1>5. ASSUME NEW k \in Args, RewriteAccepted(k) PROVE RewriteInv'
  BY <1>4, <1>5 DEF RewriteAccepted
<1>6. ASSUME NEW k \in Args, RewriteFails(k) PROVE RewriteInv'
  <2>1. CASE Answer(k, Skipped)
    BY <1>4, <1>6, <2>1 DEF RewriteFails
  <2> QED BY <1>6, <2>1 DEF RewriteFails, End, RewriteInv
<1>7. ASSUME pc' = pc, UNCHANGED answer PROVE RewriteInv'
  BY <1>1, <1>7 DEF RewriteInv, Unanswered
<1>8. CASE CloseSession \/ UNCHANGED vars
  BY <1>7, <1>8 DEF CloseSession, vars
<1>9. ASSUME pc' \notin {"resolveSession", "rewrite"} PROVE RewriteInv'
  BY <1>9 DEF RewriteInv
<1>10. CASE ~(\/ Prepare \/ ResolveSession \/ CloseSession \/ UNCHANGED vars
              \/ \E k \in Args : RewriteAccepted(k) \/ RewriteFails(k))
  BY <1>9, <1>10 DEF Next, Admit, ReviewCall, ReviewResult, PassThrough, PrepareRejects,
                     Assemble, UpstreamAnswers, Fails, Persist, Record, Cancel, Forward, End
<1> QED BY <1>2, <1>3, <1>5, <1>6, <1>8, <1>10

\* Until it is done a call always has a step that its guards allow, whatever
\* the arguments: the order in which they are prepared and rewritten never
\* leaves it waiting for one that does not come.
THEOREM CallsNeverStick == Spec => []CanGoOn
<1>1. Init => RewriteInv
  BY DEF Init, RewriteInv
<1>2. IInv /\ RewriteInv /\ [Next]_vars => RewriteInv'
  BY RewriteStep
<1>3. ASSUME IInv, RewriteInv PROVE CanGoOn
  <2>1. Args \subseteq Nat /\ DOMAIN query \subseteq Args
    BY <1>3, ToolCallAssumption DEF IInv, Static
  <2>2. ASSUME Failing # {} PROVE Failing \cap Reached # {}
    <3>1. Failing \subseteq DOMAIN query /\ Failing \subseteq Nat
      BY <2>1 DEF Failing
    <3>2. PICK k \in Failing : \A j \in Failing : k <= j
      BY <2>2, <3>1, LeastNatural
    <3> QED BY <3>1, <3>2 DEF Reached
  <2>3. ASSUME pc = "rewrite" PROVE \E k \in Args : NextToHash(k)
    <3>1. Unanswered # {} /\ Unanswered \subseteq Args /\ Unanswered \subseteq Nat
      BY <1>3, <2>1, <2>3, UnansweredFinite DEF RewriteInv
    <3>2. PICK k \in Unanswered : \A j \in Unanswered : k <= j
      BY <3>1, LeastNatural
    <3> QED BY <3>1, <3>2 DEF NextToHash
  <2> QED BY <2>2, <2>3 DEF CanGoOn
<1> QED BY <1>1, <1>2, <1>3, Invariance, PTL DEF Spec

------------------------------------------------------------------------------
(***************************************************************************)
(* How far two statements of the documentation hold that the code violates *)
(* (ExecutedIsSent, FallbackMasks): each fails in the one way that the     *)
(* run's counterexample shows and in no other.                             *)
(***************************************************************************)
\* Once anything is reported, everything that was replaced is, or everything
\* when nothing was: only a call forwarded without its session and an argument
\* left alone beside a replaced one are missing.
ReplacedAreReported ==
    sent # NotSent /\ server.sql /\ report.executed # {} =>
      \A k \in DOMAIN query :
        k \in ToReplace \/ ToReplace = {} =>
          \E s \in report.executed : sent[k] \in {s, Substituted(s)}

\* The fallback fails only beside an argument that was rewritten.
FallbackMasksAlone ==
    Rewritten = {} => FallbackMasks

\* What is sent, reported and hashed is decided in one step.
LEMMA AssembleReports ==
    ASSUME IInv, Assemble PROVE ReplacedAreReported'
<1> DEFINE m == [k \in DOMAIN query |-> IF k \in Rewritten THEN Substituted(answer[k])
                                        ELSE WithPrepared[k]]
           executed == {IF k \in Rewritten THEN answer[k] ELSE PreparedArg(k) : k \in ToReplace}
           columns == UNION {Targets(k) : k \in Rewritten}
<1>1. /\ sent' = m /\ UNCHANGED <<server, policy, query>>
      /\ report' = [report EXCEPT !.executed = executed, !.hashed = columns]
      /\ report \in Report
  BY DEF Assemble, Forward, IInv, TypeOK
<1>2. ASSUME NEW k \in DOMAIN query, k \in ToReplace
      PROVE  \E s \in executed : m[k] \in {s, Substituted(s)}
  <2>1. CASE k \in Rewritten
    <3>1. answer[k] \in executed /\ m[k] = Substituted(answer[k])
      BY <1>2, <2>1
    <3> QED BY <3>1
  <2>2. CASE k \notin Rewritten
    <3>1. PreparedArg(k) \in executed /\ m[k] = PreparedArg(k)
      BY <1>2, <2>2 DEF WithPrepared
    <3> QED BY <3>1
  <2> QED BY <2>1, <2>2
<1>3. ToReplace = {} => executed = {}
  OBVIOUS
<1> HIDE DEF m, executed, columns
<1>4. report'.executed = executed
  BY <1>1 DEF Report
<1>5. ToReplace' = ToReplace
  BY <1>1 DEF ToReplace, ToHash, Targets, PreparedArg
<1> QED BY <1>1, <1>2, <1>3, <1>4, <1>5 DEF ReplacedAreReported

LEMMA ReportedStep ==
    ASSUME IInv, ReplacedAreReported, [Next]_vars PROVE ReplacedAreReported'
<1>1. UNCHANGED <<server, policy, query>> /\ ToReplace' = ToReplace
  BY SentOutputs DEF ToReplace, ToHash, Targets, PreparedArg
<1>2. ASSUME sent' = sent, report'.executed = report.executed PROVE ReplacedAreReported'
  BY <1>1, <1>2 DEF ReplacedAreReported
<1>3. ASSUME report'.executed = {} PROVE ReplacedAreReported'
  BY <1>3 DEF ReplacedAreReported
<1>4. report \in Report
  BY DEF IInv, TypeOK
<1>5. CASE Prepare
  <2>1. CASE /\ ToReplace = {} /\ sent' = query
             /\ report' = [PrepareReport EXCEPT !.executed = {query[k] : k \in DOMAIN query}]
    <3> DEFINE all == {query[k] : k \in DOMAIN query}
    <3>1. PrepareReport \in Report
      BY PrepareReportTyped DEF IInv
    <3>2. report'.executed = all
      <4> HIDE DEF all
      <4> QED BY <2>1, <3>1 DEF Report, all
    <3>3. \A k \in DOMAIN query : query[k] \in all
      OBVIOUS
    <3> HIDE DEF all
    <3> QED BY <1>1, <2>1, <3>2, <3>3 DEF ReplacedAreReported
  <2>2. CASE report' = PrepareReport /\ sent' = sent
    BY <1>2, <1>4, <2>2 DEF PrepareReport, Report
  <2> QED BY <1>5, <2>1, <2>2 DEF Prepare, Forward
<1>6. CASE PrepareRejects
  BY <1>2, <1>4, <1>6 DEF PrepareRejects, PrepareReport, Report
<1>7. CASE PassThrough \/ ResolveSession
  <2>1. report' = report /\ report.executed = {}
    BY <1>7 DEF PassThrough, ResolveSession, IInv, PhaseInv
  <2> QED BY <1>3, <2>1
<1>8. CASE Assemble
  BY <1>8, AssembleReports
<1>9. ASSUME NEW v \in {"allow", "block"}, ReviewCall(v) \/ ReviewResult(v)
      PROVE  ReplacedAreReported'
  BY <1>2, <1>4, <1>9 DEF ReviewCall, ReviewResult, Report
<1>10. ASSUME NEW json \in BOOLEAN, UpstreamAnswers(json) PROVE ReplacedAreReported'
  <2>1. sent' = sent
    BY <1>10 DEF UpstreamAnswers
  <2>2. \A masked, removed :
          [report EXCEPT !.masked = masked, !.removed = removed].executed = report.executed
    BY <1>4 DEF Report
  <2>3. report'.executed = report.executed
    BY <1>10, <2>2 DEF UpstreamAnswers
  <2> QED BY <1>2, <2>1, <2>3
<1>11. CASE ~(\/ Prepare \/ PrepareRejects \/ PassThrough \/ ResolveSession \/ Assemble
              \/ \E v \in {"allow", "block"} : ReviewCall(v) \/ ReviewResult(v)
              \/ \E json \in BOOLEAN : UpstreamAnswers(json))
  BY <1>2, <1>11 DEF Next, vars, Admit, RewriteAccepted, RewriteFails, Fails, Persist, Record,
                     Cancel, CloseSession
<1> QED BY <1>5, <1>6, <1>7, <1>8, <1>9, <1>10, <1>11

\* The report of a call that reports anything is complete for what the gateway
\* changed (middleware.py:433-435, 453-488).
THEOREM ReportCompleteness == Spec => []ReplacedAreReported
<1>1. Init => ReplacedAreReported
  BY DEF Init, ReplacedAreReported
<1>2. IInv /\ ReplacedAreReported /\ [Next]_vars => ReplacedAreReported'
  BY ReportedStep
<1> QED BY <1>1, <1>2, Invariance, PTL DEF Spec

\* Columns are known to be hashed only when a statement was rewritten.
HashedInv == hashed # {} => Rewritten # {}

LEMMA HashedStep == ASSUME IInv, ResultInv, HashedInv, [Next]_vars PROVE HashedInv'
<1>1. ToHash' = ToHash
  BY SentOutputs DEF ToHash, Targets, PreparedArg
<1>2. ASSUME UNCHANGED <<answer, hashed>> PROVE HashedInv'
  BY <1>1, <1>2 DEF HashedInv, Rewritten
<1>3. CASE Assemble
  BY <1>1, <1>3 DEF Assemble, HashedInv, Rewritten
<1>4. ASSUME NEW k \in Args, RewriteAccepted(k) \/ RewriteFails(k) PROVE HashedInv'
  BY <1>4 DEF RewriteAccepted, RewriteFails, ResultInv, Early, HashedInv
<1>5. CASE ~(Assemble \/ \E k \in Args : RewriteAccepted(k) \/ RewriteFails(k))
  BY <1>2, <1>5 DEF Next, vars, Admit, ReviewCall, ReviewResult, PassThrough, PrepareRejects,
                    Prepare, ResolveSession, UpstreamAnswers, Fails, Persist, Record, Cancel,
                    CloseSession
<1> QED BY <1>3, <1>4, <1>5

\* As long as no argument of the call is rewritten, the columns that could not
\* be hashed in the query are masked in the result (middleware.py:653-660).
THEOREM FallbackSafety == Spec => []FallbackMasksAlone
<1>1. Init => ResultInv /\ HashedInv
  BY DEF Init, ResultInv, ResultFollowsRules, HashedInv
<1>2. IInv /\ ResultInv /\ HashedInv /\ [Next]_vars => ResultInv' /\ HashedInv'
  BY StepFollows, HashedStep
<1>3. ASSUME ResultInv, HashedInv PROVE FallbackMasksAlone
  <2>1. SUFFICES ASSUME Rewritten = {}, server.sql, result.json,
                        NEW f \in result.fields, f.arg \in ToHash \ Rewritten,
                        f.out \in Targets(f.arg)
                 PROVE  f.value # "raw"
    BY DEF FallbackMasksAlone, FallbackMasks
  <2>2. f.out \in Columns /\ policy.action[f.out] = "mask"
    BY <2>1 DEF Targets, Projected, ColumnsByAction
  <2> QED BY <1>3, <2>1, <2>2 DEF HashedInv, ResultInv, ResultFollowsRules
<1> QED BY <1>1, <1>2, <1>3, Invariance, PTL DEF Spec
===============================================================================
