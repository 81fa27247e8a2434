------------------------------ MODULE LlmServices ------------------------------
(***************************************************************************)
(* The two services that ask the local model about tool calls, with the    *)
(* client they share (one instance of each, app/core/container.py):        *)
(*   - GuardService, which gives a verdict on a call or a result and       *)
(*     caches it (app/services/guard/guard_service.py);                    *)
(*   - PiiQueryRewriter, which has a statement rewritten and retries an    *)
(*     answer it rejects once (app/services/rewriter/service.py);          *)
(*   - OpenAICompatibleLlmClient, whose semaphore bounds the requests to   *)
(*     the model and which repeats a POST that could not connect           *)
(*     (app/llm/openai_compatible.py).                                     *)
(*                                                                         *)
(* A job is one call of review_call, review_result or rewrite.  A subject  *)
(* stands for the prompt text, which determines the cache key.  Whether a  *)
(* rewrite is accepted is left to chance here; the checks that decide it   *)
(* are those of ToolCall.  The clock is bounded by MaxTime.                *)
(***************************************************************************)
EXTENDS Naturals, FiniteSets

CONSTANTS Subjects,        \* texts that are reviewed or statements rewritten
          Jobs,            \* job slots, each reused by later jobs
          NoSubject,
          MaxConcurrency,  \* max_concurrency of the client
          CacheTtl,        \* cache_ttl_seconds of the guard
          MaxTime          \* bound on the clock

ASSUME LlmAssumption ==
    /\ NoSubject \notin Subjects
    /\ IsFiniteSet(Jobs)
    /\ MaxConcurrency \in Nat \ {0}
    /\ CacheTtl \in Nat
    /\ MaxTime \in Nat

VARIABLES onError,  \* the setting guard.on_error
          screen,   \* what the checks before the model say of each subject
          cache,    \* the guard's verdicts by subject
          permits,  \* the client's semaphore
          now,      \* the clock
          job       \* job[j]: what slot j is doing

vars == <<onError, screen, cache, permits, now, job>>

Verdicts == {"allow", "block"}

\* A cached tuple, with a history of who decided it about what.
Entry == [subject: Subjects, verdict: Verdicts, source: {"model", "error"}, at: 0..MaxTime]
NoEntry == [subject |-> NoSubject, verdict |-> "none", source |-> "none", at |-> 0]

Outcomes == {"none", "allow", "block", "rewritten", "skipped", "unavailable", "raised",
             "cancelled"}

\* round: the rewriter's attempts; post: the client's, of one completion;
\* basis and servedAt: history of the verdict a review was answered with.
Job == [op: {"none", "review", "rewrite"}, pc: {"idle", "waiting", "posting", "done"},
        subject: Subjects \cup {NoSubject}, round: 0..2, post: 0..2,
        outcome: Outcomes, basis: Entry \cup {NoEntry}, servedAt: 0..MaxTime]

NoJob == [op |-> "none", pc |-> "idle", subject |-> NoSubject, round |-> 0, post |-> 0,
          outcome |-> "none", basis |-> NoEntry, servedAt |-> 0]

Posting == {j \in Jobs : job[j].pc = "posting"}

Init ==
    /\ onError \in Verdicts
    /\ screen \in [Subjects -> {"allow", "block", "ask"}]
    /\ cache = [s \in Subjects |-> NoEntry]
    /\ permits = MaxConcurrency
    /\ now = 0
    /\ job = [j \in Jobs |-> NoJob]

------------------------------------------------------------------------------
\* Variant: an entry never expires.
FreshForever(s) == cache[s] # NoEntry

\* _get_cached: the entry is there and its age is at most the TTL.
Fresh(s) == cache[s] # NoEntry /\ now - cache[s].at <= CacheTtl

\* A job that the client has to be asked for.
Asking(op, s, round) == [NoJob EXCEPT !.op = op, !.pc = "waiting", !.subject = s, !.round = round]

\* review_call, review_result and _classify up to the client: the prefilters
\* and the shortcut for protected results decide first, then the cache.  An
\* entry that has expired is deleted.
Review(j, s) ==
    /\ job[j].pc = "idle"
    /\ LET answered == [NoJob EXCEPT !.op = "review", !.pc = "done", !.subject = s,
                                     !.servedAt = now] IN
       \/ /\ screen[s] # "ask"
          /\ job' = [job EXCEPT ![j] = [answered EXCEPT !.outcome = screen[s]]]
          /\ UNCHANGED cache
       \/ /\ screen[s] = "ask" /\ Fresh(s)
          /\ job' = [job EXCEPT ![j] = [answered EXCEPT !.outcome = cache[s].verdict,
                                                        !.basis = cache[s]]]
          /\ UNCHANGED cache
       \/ /\ screen[s] = "ask" /\ ~Fresh(s)
          /\ job' = [job EXCEPT ![j] = Asking("review", s, 1)]
          /\ cache' = [cache EXCEPT ![s] = NoEntry]
    /\ UNCHANGED <<onError, screen, permits, now>>

\* rewrite up to the client, for a statement with columns to hash.
Rewrite(j, s) ==
    /\ job[j].pc = "idle"
    /\ job' = [job EXCEPT ![j] = Asking("rewrite", s, 1)]
    /\ UNCHANGED <<onError, screen, cache, permits, now>>

\* complete gets a permit and posts.
Acquire(j) ==
    /\ job[j].pc = "waiting" /\ permits > 0
    /\ permits' = permits - 1
    /\ job' = [job EXCEPT ![j].pc = "posting", ![j].post = 1]
    /\ UNCHANGED <<onError, screen, cache, now>>

\* The completion is over, one way or another: the permit is given back.
Release == permits' = permits + 1

\* _classify decides on v and caches it; the review is answered.
Decide(j, v, source) ==
    LET s == job[j].subject
        entry == [subject |-> s, verdict |-> v, source |-> source, at |-> now] IN
    /\ cache' = [cache EXCEPT ![s] = entry]
    /\ job' = [job EXCEPT ![j].pc = "done", ![j].outcome = v, ![j].basis = entry,
                          ![j].servedAt = now]

\* Variant: the guard fails closed whatever the setting.
FailClosed(j) ==
    IF job[j].op = "review"
    THEN Decide(j, "block", "error")
    ELSE /\ job' = [job EXCEPT ![j].pc = "done",
                      ![j].outcome = IF onError = "allow" THEN "skipped" ELSE "unavailable"]
         /\ UNCHANGED cache

\* _error_verdict of the guard, _handle_failure of the rewriter.
Fail(j) ==
    IF job[j].op = "review"
    THEN Decide(j, onError, "error")
    ELSE /\ job' = [job EXCEPT ![j].pc = "done",
                      ![j].outcome = IF onError = "allow" THEN "skipped" ELSE "unavailable"]
         /\ UNCHANGED cache

\* Nothing but the end of the job is left of it.
Abandon(j, outcome) ==
    /\ job' = [job EXCEPT ![j].pc = "done", ![j].outcome = outcome]
    /\ UNCHANGED cache

\* Variant: one POST too many.
CannotConnectAgain(j) ==
    /\ job[j].pc = "posting"
    /\ IF job[j].post <= 2
       THEN /\ job' = [job EXCEPT ![j].post = job[j].post + 1]
            /\ UNCHANGED <<cache, permits>>
       ELSE Fail(j) /\ Release
    /\ UNCHANGED <<onError, screen, now>>

\* The POST could not connect: it is repeated once, under the same permit.
CannotConnect(j) ==
    /\ job[j].pc = "posting"
    /\ IF job[j].post < 2
       THEN /\ job' = [job EXCEPT ![j].post = job[j].post + 1]
            /\ UNCHANGED <<cache, permits>>
       ELSE Fail(j) /\ Release
    /\ UNCHANGED <<onError, screen, now>>

\* Variant: the permit is given back only after an answer.
UnavailableLeaks(j) ==
    /\ job[j].pc = "posting"
    /\ Fail(j)
    /\ UNCHANGED <<onError, screen, permits, now>>

\* The POST times out or the answer is an HTTP error or no completion at all.
Unavailable(j) ==
    /\ job[j].pc = "posting"
    /\ Fail(j) /\ Release
    /\ UNCHANGED <<onError, screen, now>>

\* Any other transport error (a connection that breaks) is not translated
\* into LlmUnavailableError: it passes through client and service.
Breaks(j) ==
    /\ job[j].pc = "posting"
    /\ Abandon(j, "raised") /\ Release
    /\ UNCHANGED <<onError, screen, now>>

\* The model gives a verdict in the schema asked for.
GivesVerdict(j, v) ==
    /\ job[j].pc = "posting" /\ job[j].op = "review"
    /\ Decide(j, v, "model") /\ Release
    /\ UNCHANGED <<onError, screen, now>>

\* The model's rewrite passes the rewriter's validation.
GivesRewrite(j) ==
    /\ job[j].pc = "posting" /\ job[j].op = "rewrite"
    /\ Abandon(j, "rewritten") /\ Release
    /\ UNCHANGED <<onError, screen, now>>

\* The answer is not in the schema, or a rewrite is rejected: the guard fails,
\* the rewriter asks once more, for which it needs a permit again.
GivesGarbage(j) ==
    /\ job[j].pc = "posting"
    /\ IF job[j].op = "rewrite" /\ job[j].round < 2
       THEN /\ job' = [job EXCEPT ![j] = Asking("rewrite", job[j].subject, 2)]
            /\ UNCHANGED cache
       ELSE Fail(j)
    /\ Release
    /\ UNCHANGED <<onError, screen, now>>

\* Variant: a cancelled completion keeps its permit.
CancelJobLeaks(j) ==
    /\ job[j].pc \in {"waiting", "posting"}
    /\ Abandon(j, "cancelled")
    /\ UNCHANGED <<onError, screen, permits, now>>

\* The caller is cancelled (a pipeline task's timeout, a client that went).
CancelJob(j) ==
    /\ job[j].pc \in {"waiting", "posting"}
    /\ Abandon(j, "cancelled")
    /\ permits' = IF job[j].pc = "posting" THEN permits + 1 ELSE permits
    /\ UNCHANGED <<onError, screen, now>>

\* The caller goes on; the slot takes another job.
Return(j) ==
    /\ job[j].pc = "done"
    /\ job' = [job EXCEPT ![j] = NoJob]
    /\ UNCHANGED <<onError, screen, cache, permits, now>>

Tick ==
    /\ now < MaxTime
    /\ now' = now + 1
    /\ UNCHANGED <<onError, screen, cache, permits, job>>

\* What becomes of a POST.
Answered(j) ==
    \/ CannotConnect(j)
    \/ Unavailable(j)
    \/ Breaks(j)
    \/ \E v \in Verdicts : GivesVerdict(j, v)
    \/ GivesRewrite(j)
    \/ GivesGarbage(j)

Next ==
    \/ \E j \in Jobs :
         \/ \E s \in Subjects : Review(j, s) \/ Rewrite(j, s)
         \/ Acquire(j)
         \/ Answered(j)
         \/ CancelJob(j)
         \/ Return(j)
    \/ Tick

Spec == Init /\ [][Next]_vars

\* httpx ends every POST with an answer or a timeout, and the semaphore wakes
\* its waiters first in first out, so nobody is passed over for ever.
Fairness == \A j \in Jobs : WF_vars(Answered(j)) /\ SF_vars(Acquire(j))

FairSpec == Spec /\ Fairness

------------------------------------------------------------------------------
\* Variables range over what the services and the client can hold.
TypeOK ==
    /\ onError \in Verdicts
    /\ screen \in [Subjects -> {"allow", "block", "ask"}]
    /\ cache \in [Subjects -> Entry \cup {NoEntry}]
    /\ permits \in 0..MaxConcurrency
    /\ now \in 0..MaxTime
    /\ job \in [Jobs -> Job]

\* Every permit is either free or held by a completion under way, however the
\* completions before it ended (openai_compatible.py:103-104, 123-147).
PermitsConserved == permits + Cardinality(Posting) = MaxConcurrency

\* A verdict that was not given by the checks before the model was decided
\* about this very subject, and at most the TTL before it was served
\* (guard_service.py:97-163).
VerdictIsRecent ==
    \A j \in Jobs :
      job[j].outcome \in Verdicts /\ screen[job[j].subject] = "ask" =>
        /\ job[j].basis.subject = job[j].subject
        /\ job[j].basis.verdict = job[j].outcome
        /\ job[j].servedAt - job[j].basis.at <= CacheTtl

\* With on_error = "block" a subject the model is asked about is allowed only
\* on the model's own word, cached or not: no failure, retry or cancellation
\* turns into an "allow".  With "allow" no failure turns into a "block".
FailuresFollowOnError ==
    \A j \in Jobs :
      job[j].outcome \in Verdicts \ {onError} /\ screen[job[j].subject] = "ask" =>
        job[j].basis.source = "model"

\* What rewrite's docstring says: "Returns None when ... the model fails and
\* on_error is allow.  Raises LlmUnavailableError when the model fails and
\* on_error is block" (rewriter/service.py:49-52).  No other way to fail.
RewriteFollowsOnError ==
    \A j \in Jobs :
      job[j].op = "rewrite" /\ job[j].pc = "done" =>
        job[j].outcome \in {"rewritten", "cancelled",
                            IF onError = "allow" THEN "skipped" ELSE "unavailable"}

\* Every job that waits for the model ends, under any contention for permits.
JobsEnd ==
    \A j \in Jobs : job[j].pc \in {"waiting", "posting"} ~> job[j].pc = "done"
===============================================================================
