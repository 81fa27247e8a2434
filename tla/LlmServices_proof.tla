--------------------------- MODULE LlmServices_proof ---------------------------
(***************************************************************************)
(* Proofs about LlmServices, for any number of jobs and subjects and every *)
(* setting of the semaphore and the cache.                                 *)
(***************************************************************************)
EXTENDS LlmServices, FiniteSetTheorems, TLAPS

\* A cached entry is about the subject it is stored under, and an entry that
\* reports a failure has the verdict of the setting.
CacheInv ==
    \A s \in Subjects :
      cache[s] # NoEntry =>
        /\ cache[s].subject = s
        /\ cache[s].verdict # onError => cache[s].source = "model"
        /\ cache[s].at <= now

\* A job that is under way is about a subject and has no outcome yet; a review
\* under way has found no verdict before the model.
JobInv ==
    \A j \in Jobs :
      /\ job[j].pc \in {"waiting", "posting"} =>
           /\ job[j].subject \in Subjects /\ job[j].outcome = "none"
           /\ job[j].op \in {"review", "rewrite"}
           /\ job[j].round > 0
      /\ job[j].outcome \in Verdicts => job[j].subject \in Subjects

IInv ==
    /\ TypeOK /\ PermitsConserved /\ CacheInv /\ JobInv
    /\ VerdictIsRecent /\ FailuresFollowOnError

LEMMA PostingFinite == IsFiniteSet(Posting) /\ Cardinality(Posting) \in Nat
<1>1. Posting \subseteq Jobs
  BY DEF Posting
<1> QED BY <1>1, LlmAssumption, FS_Subset, FS_CardinalityType

LEMMA NotAnEntry == NoEntry \notin Entry
BY LlmAssumption DEF NoEntry, Entry

------------------------------------------------------------------------------
\* What a step does to the permits: none, one taken by a job that begins to
\* post, or one given back by a job that ends posting.
Kept(j) ==
    /\ permits' = permits
    /\ job[j].pc = "posting" <=> job'[j].pc = "posting"

Taken(j) ==
    /\ permits > 0 /\ permits' = permits - 1
    /\ job[j].pc # "posting" /\ job'[j].pc = "posting"

GivenBack(j) ==
    /\ permits' = permits + 1
    /\ job[j].pc = "posting" /\ job'[j].pc # "posting"

LEMMA PermitStep ==
    ASSUME TypeOK, PermitsConserved, NEW j \in Jobs,
           \A i \in Jobs \ {j} : job'[i] = job[i],
           Kept(j) \/ Taken(j) \/ GivenBack(j)
    PROVE  PermitsConserved' /\ permits' \in 0..MaxConcurrency
<1>1. /\ IsFiniteSet(Posting) /\ Cardinality(Posting) \in Nat
      /\ permits \in Nat /\ MaxConcurrency \in Nat
      /\ permits + Cardinality(Posting) = MaxConcurrency
  BY PostingFinite, LlmAssumption DEF TypeOK, PermitsConserved
<1>2. \A i \in Jobs \ {j} : i \in Posting' <=> i \in Posting
  BY DEF Posting
<1>3. CASE Kept(j)
  <2>1. Posting' = Posting
    BY <1>2, <1>3 DEF Kept, Posting
  <2> QED BY <1>1, <1>3, <2>1 DEF Kept, PermitsConserved
<1>4. CASE Taken(j)
  <2>1. Posting' = Posting \cup {j} /\ j \notin Posting
    BY <1>2, <1>4 DEF Taken, Posting
  <2>2. Cardinality(Posting') = Cardinality(Posting) + 1
    BY <1>1, <2>1, FS_AddElement
  <2> QED BY <1>1, <1>4, <2>2 DEF Taken, PermitsConserved
<1>5. CASE GivenBack(j)
  <2>1. Posting' = Posting \ {j} /\ j \in Posting
    BY <1>2, <1>5 DEF GivenBack, Posting
  <2>2. Cardinality(Posting') = Cardinality(Posting) - 1
    BY <1>1, <2>1, FS_RemoveElement
  <2>3. Cardinality(Posting) > 0
    BY <1>1, <2>1, FS_EmptySet
  <2> QED BY <1>1, <1>5, <2>2, <2>3 DEF GivenBack, PermitsConserved
<1> QED BY <1>3, <1>4, <1>5

\* What a step of a job may leave in its slot.
GoodJob(j, record) ==
    /\ record \in Job
    /\ record.pc \in {"waiting", "posting"} =>
         /\ record.subject \in Subjects /\ record.outcome = "none"
         /\ record.op \in {"review", "rewrite"}
         /\ record.round > 0
    /\ record.outcome \in Verdicts =>
         /\ record.subject \in Subjects
         /\ screen[record.subject] = "ask" =>
              /\ record.basis.subject = record.subject
              /\ record.basis.verdict = record.outcome
              /\ record.servedAt - record.basis.at <= CacheTtl
              /\ record.outcome # onError => record.basis.source = "model"

\* The cache afterwards: unchanged, an entry deleted, or an entry written.
GoodCache ==
    \/ cache' = cache
    \/ \E s \in Subjects : cache' = [cache EXCEPT ![s] = NoEntry]
    \/ \E s \in Subjects, e \in Entry :
         /\ cache' = [cache EXCEPT ![s] = e]
         /\ e.subject = s /\ e.at <= now
         /\ e.verdict # onError => e.source = "model"

LEMMA JobStepKeeps ==
    ASSUME IInv, NEW j \in Jobs, NEW record,
           job' = [job EXCEPT ![j] = record], GoodJob(j, record), GoodCache,
           Kept(j) \/ Taken(j) \/ GivenBack(j),
           UNCHANGED <<onError, screen, now>>
    PROVE  IInv'
<1> USE DEF IInv
<1>1. job \in [Jobs -> Job] /\ record \in Job
  BY DEF TypeOK, GoodJob
<1>2. job'[j] = record /\ \A i \in Jobs \ {j} : job'[i] = job[i]
  BY <1>1
<1>3. PermitsConserved' /\ permits' \in 0..MaxConcurrency
  BY <1>2, PermitStep
<1>4. cache' \in [Subjects -> Entry \cup {NoEntry}] /\ CacheInv'
  <2>1. cache \in [Subjects -> Entry \cup {NoEntry}]
    BY DEF TypeOK
  <2>2. CASE cache' = cache
    BY <2>1, <2>2 DEF CacheInv
  <2>3. ASSUME NEW s \in Subjects, cache' = [cache EXCEPT ![s] = NoEntry]
        PROVE  cache' \in [Subjects -> Entry \cup {NoEntry}] /\ CacheInv'
    BY <2>1, <2>3 DEF CacheInv
  <2>4. ASSUME NEW s \in Subjects, NEW e \in Entry,
               cache' = [cache EXCEPT ![s] = e], e.subject = s, e.at <= now,
               e.verdict # onError => e.source = "model"
        PROVE  cache' \in [Subjects -> Entry \cup {NoEntry}] /\ CacheInv'
    BY <2>1, <2>4 DEF CacheInv
  <2> QED BY <2>2, <2>3, <2>4 DEF GoodCache
<1>5. TypeOK'
  BY <1>1, <1>3, <1>4 DEF TypeOK
<1>6. JobInv'
  BY <1>2 DEF JobInv, GoodJob
<1>7. VerdictIsRecent'
  BY <1>2 DEF VerdictIsRecent, GoodJob
<1>8. FailuresFollowOnError'
  BY <1>2 DEF FailuresFollowOnError, GoodJob
<1> QED BY <1>3, <1>4, <1>5, <1>6, <1>7, <1>8

LEMMA NoJobIsJob == NoJob \in Job
BY LlmAssumption DEF NoJob, Job, Outcomes

\* Records that differ from a job in a few fields are jobs.
LEMMA AskingFields ==
    ASSUME NEW r \in Job, NEW op \in {"none", "review", "rewrite"},
           NEW pc \in {"idle", "waiting", "posting", "done"},
           NEW s \in Subjects, NEW round \in 0..2
    PROVE  [r EXCEPT !.op = op, !.pc = pc, !.subject = s, !.round = round] \in Job
BY DEF Job

LEMMA PostingFields ==
    ASSUME NEW r \in Job
    PROVE  [r EXCEPT !.pc = "posting", !.post = 1] \in Job
<1> DEFINE pcs == {"idle", "waiting", "posting", "done"}
<1>1. ASSUME NEW pc \in pcs, NEW post \in 0..2
      PROVE  [r EXCEPT !.pc = pc, !.post = post] \in Job
  BY DEF Job
<1>2. "posting" \in pcs /\ 1 \in 0..2
  OBVIOUS
<1> HIDE DEF pcs
<1> QED BY <1>1, <1>2, Zenon

LEMMA AskingIsGood ==
    ASSUME NEW j, NEW op \in {"review", "rewrite"}, NEW s \in Subjects, NEW round \in {1, 2}
    PROVE  GoodJob(j, Asking(op, s, round))
<1> DEFINE record == Asking(op, s, round)
<1>1. record = [NoJob EXCEPT !.op = op, !.pc = "waiting", !.subject = s, !.round = round]
  BY DEF Asking
<1>2. record \in Job
  <2>1. NoJob \in Job
    BY NoJobIsJob
  <2>2. "waiting" \in {"idle", "waiting", "posting", "done"} /\ round \in 0..2
    OBVIOUS
  <2> HIDE DEF record
  <2> QED BY <1>1, <2>1, <2>2, AskingFields
<1>3. /\ record.op = op /\ record.subject = s /\ record.round = round
      /\ record.outcome = "none"
  BY <1>1 DEF NoJob
<1> HIDE DEF record
<1>4. GoodJob(j, record)
  BY <1>2, <1>3 DEF GoodJob, Verdicts
<1> QED BY <1>4 DEF record

LEMMA ReviewKeeps ==
    ASSUME IInv, NEW j \in Jobs, NEW s \in Subjects, Review(j, s) PROVE IInv'
<1> USE DEF IInv
<1>1. /\ job[j].pc = "idle" /\ UNCHANGED <<onError, screen, permits, now>>
      /\ job \in [Jobs -> Job] /\ now \in 0..MaxTime
      /\ screen \in [Subjects -> {"allow", "block", "ask"}]
      /\ cache \in [Subjects -> Entry \cup {NoEntry}]
  BY DEF Review, TypeOK
<1> DEFINE answered(outcome, basis) ==
      [op |-> "review", pc |-> "done", subject |-> s, round |-> 0, post |-> 0,
       outcome |-> outcome, basis |-> basis, servedAt |-> now]
<1>2. CASE /\ screen[s] # "ask" /\ cache' = cache
           /\ job' = [job EXCEPT ![j] = answered(screen[s], NoEntry)]
  <2>1. screen[s] \in {"allow", "block"}
    BY <1>1, <1>2
  <2>2. answered(screen[s], NoEntry) \in Job
    BY <1>1, <2>1 DEF Job, Outcomes
  <2>3. GoodJob(j, answered(screen[s], NoEntry))
    BY <1>2, <2>2 DEF GoodJob
  <2>4. Kept(j)
    BY <1>1, <1>2 DEF Kept
  <2> QED BY <1>1, <1>2, <2>3, <2>4, JobStepKeeps DEF GoodCache
<1>3. CASE /\ screen[s] = "ask" /\ Fresh(s) /\ cache' = cache
           /\ job' = [job EXCEPT ![j] = answered(cache[s].verdict, cache[s])]
  <2>1. cache[s] \in Entry /\ now - cache[s].at <= CacheTtl
    BY <1>1, <1>3 DEF Fresh
  <2>2. answered(cache[s].verdict, cache[s]) \in Job
    BY <1>1, <2>1 DEF Job, Outcomes, Entry, Verdicts
  <2>3. cache[s].subject = s /\ (cache[s].verdict # onError => cache[s].source = "model")
    BY <1>3 DEF Fresh, CacheInv
  <2>4. GoodJob(j, answered(cache[s].verdict, cache[s]))
    BY <2>1, <2>2, <2>3 DEF GoodJob
  <2>5. Kept(j)
    BY <1>1, <1>3 DEF Kept
  <2> QED BY <1>1, <1>3, <2>4, <2>5, JobStepKeeps DEF GoodCache
<1>4. CASE /\ cache' = [cache EXCEPT ![s] = NoEntry]
           /\ job' = [job EXCEPT ![j] = Asking("review", s, 1)]
  <2>1. Kept(j)
    BY <1>1, <1>4 DEF Kept, Asking, NoJob
  <2> QED BY <1>1, <1>4, <2>1, AskingIsGood, JobStepKeeps DEF GoodCache
<1> QED BY <1>2, <1>3, <1>4 DEF Review, NoJob

LEMMA RewriteKeeps ==
    ASSUME IInv, NEW j \in Jobs, NEW s \in Subjects, Rewrite(j, s) PROVE IInv'
<1>1. job \in [Jobs -> Job] BY DEF IInv, TypeOK
<1>2. Kept(j)
  BY <1>1 DEF Kept, Rewrite, Asking, NoJob
<1> QED BY <1>2, AskingIsGood, JobStepKeeps DEF Rewrite, GoodCache

\* The fields of a job that waits or posts.
LEMMA Underway ==
    ASSUME IInv, NEW j \in Jobs, job[j].pc \in {"waiting", "posting"}
    PROVE  /\ job \in [Jobs -> Job] /\ job[j] \in Job
           /\ job[j].subject \in Subjects /\ job[j].outcome = "none"
           /\ job[j].op \in {"review", "rewrite"} /\ job[j].round \in {1, 2}
           /\ onError \in Verdicts /\ now \in 0..MaxTime
           /\ cache \in [Subjects -> Entry \cup {NoEntry}]
BY DEF IInv, TypeOK, JobInv, Job

LEMMA AcquireKeeps ==
    ASSUME IInv, NEW j \in Jobs, Acquire(j) PROVE IInv'
<1> DEFINE record == [job[j] EXCEPT !.pc = "posting", !.post = 1]
<1>1. job[j].pc = "waiting" /\ job \in [Jobs -> Job] /\ job[j] \in Job
  BY Underway DEF Acquire
<1>2. job' = [job EXCEPT ![j] = record]
  BY DEF Acquire
<1>3. /\ record \in Job /\ record.pc = "posting" /\ record.op = job[j].op
      /\ record.subject = job[j].subject /\ record.round = job[j].round
      /\ record.outcome = job[j].outcome
  <2>1. \A r \in Job : [r EXCEPT !.pc = "posting", !.post = 1] \in Job
    BY PostingFields
  <2>2. record \in Job
    BY <1>1, <2>1
  <2>3. /\ record.pc = "posting" /\ record.op = job[j].op
        /\ record.subject = job[j].subject /\ record.round = job[j].round
        /\ record.outcome = job[j].outcome
    BY <1>1 DEF Job
  <2> QED BY <2>2, <2>3
<1>4. Taken(j)
  BY <1>1 DEF Taken, Acquire, Job
<1> HIDE DEF record
<1>5. GoodJob(j, record)
  BY <1>1, <1>3, Underway DEF GoodJob, Verdicts
<1> QED BY <1>2, <1>4, <1>5, JobStepKeeps DEF Acquire, GoodCache

\* A job that ends with a verdict now, written to the cache.
LEMMA DecideKeeps ==
    ASSUME IInv, NEW j \in Jobs, job[j].pc = "posting",
           NEW v \in Verdicts, NEW source \in {"model", "error"},
           v # onError => source = "model",
           Decide(j, v, source), Release, UNCHANGED <<onError, screen, now>>
    PROVE  IInv'
<1> DEFINE s == job[j].subject
           entry == [subject |-> s, verdict |-> v, source |-> source, at |-> now]
           record == [job[j] EXCEPT !.pc = "done", !.outcome = v, !.basis = entry,
                                    !.servedAt = now]
<1>1. /\ job \in [Jobs -> Job] /\ job[j] \in Job /\ s \in Subjects /\ now \in 0..MaxTime
      /\ MaxTime \in Nat /\ CacheTtl \in Nat
  BY Underway, LlmAssumption
<1>2. /\ entry \in Entry /\ entry.subject = s /\ entry.at = now
      /\ entry.verdict = v /\ entry.source = source
  BY <1>1 DEF Entry
<1>3. /\ job' = [job EXCEPT ![j] = record]
      /\ cache' = [cache EXCEPT ![s] = entry]
  BY DEF Decide
<1>4. record \in Job
  BY <1>1, <1>2 DEF Job, Verdicts, Outcomes
<1>5. /\ record.pc = "done" /\ record.outcome = v /\ record.basis = entry
      /\ record.servedAt = now /\ record.subject = s
  BY <1>1 DEF Job
<1> HIDE DEF entry
<1>6. GoodJob(j, record)
  BY <1>1, <1>2, <1>4, <1>5 DEF GoodJob
<1>7. GivenBack(j)
  BY <1>1, <1>3, <1>5 DEF GivenBack, Release
<1>8. GoodCache
  <2>1. /\ s \in Subjects /\ entry \in Entry /\ cache' = [cache EXCEPT ![s] = entry]
        /\ entry.subject = s /\ entry.at <= now
        /\ entry.verdict # onError => entry.source = "model"
    BY <1>1, <1>2, <1>3
  <2> HIDE DEF s
  <2> QED BY <2>1 DEF GoodCache
<1> HIDE DEF record
<1> QED BY <1>3, <1>6, <1>7, <1>8, JobStepKeeps

\* A job that ends without a verdict.
LEMMA AbandonKeeps ==
    ASSUME IInv, NEW j \in Jobs, job[j].pc \in {"waiting", "posting"},
           NEW outcome \in Outcomes \ Verdicts,
           job' = [job EXCEPT ![j].pc = "done", ![j].outcome = outcome], cache' = cache,
           permits' = IF job[j].pc = "posting" THEN permits + 1 ELSE permits,
           UNCHANGED <<onError, screen, now>>
    PROVE  IInv'
<1> DEFINE record == [job[j] EXCEPT !.pc = "done", !.outcome = outcome]
<1>1. job \in [Jobs -> Job] /\ job[j] \in Job
  BY Underway
<1>2. job' = [job EXCEPT ![j] = record]
  OBVIOUS
<1>3. record \in Job /\ record.pc = "done" /\ record.outcome = outcome
  BY <1>1 DEF Job
<1>4. GoodJob(j, record)
  BY <1>3 DEF GoodJob
<1>5. job'[j].pc = "done"
  BY <1>1, <1>2, <1>3
<1>6. Kept(j) \/ GivenBack(j)
  BY <1>5 DEF Kept, GivenBack
<1> HIDE DEF record
<1> QED BY <1>2, <1>4, <1>6, JobStepKeeps DEF GoodCache

LEMMA FailKeeps ==
    ASSUME IInv, NEW j \in Jobs, job[j].pc = "posting",
           Fail(j), Release, UNCHANGED <<onError, screen, now>>
    PROVE  IInv'
<1>1. CASE job[j].op = "review"
  <2>1. Decide(j, onError, "error") /\ onError \in Verdicts
    BY <1>1, Underway DEF Fail
  <2> QED BY <2>1, DecideKeeps
<1>2. CASE job[j].op # "review"
  <2> DEFINE outcome == IF onError = "allow" THEN "skipped" ELSE "unavailable"
  <2>1. outcome \in Outcomes \ Verdicts
    BY DEF Outcomes, Verdicts
  <2>2. /\ job' = [job EXCEPT ![j].pc = "done", ![j].outcome = outcome]
        /\ cache' = cache /\ permits' = permits + 1
    BY <1>2 DEF Fail, Release
  <2> HIDE DEF outcome
  <2> QED BY <2>1, <2>2, AbandonKeeps
<1> QED BY <1>1, <1>2

LEMMA AnsweredKeeps ==
    ASSUME IInv, NEW j \in Jobs, Answered(j) PROVE IInv'
<1>1. CASE CannotConnect(j)
  <2>1. CASE /\ job[j].post < 2 /\ UNCHANGED <<cache, permits>>
             /\ job' = [job EXCEPT ![j].post = job[j].post + 1]
    <3> DEFINE record == [job[j] EXCEPT !.post = job[j].post + 1]
    <3>1. job[j].pc = "posting" /\ job \in [Jobs -> Job] /\ job[j] \in Job
      BY <1>1, Underway DEF CannotConnect
    <3>2. job' = [job EXCEPT ![j] = record]
      BY <2>1
    <3>3. job[j].post + 1 \in 0..2
      BY <2>1, <3>1 DEF Job
    <3>4. record \in Job /\ record.pc = "posting"
      BY <3>1, <3>3 DEF Job
    <3>5. GoodJob(j, record)
      BY <3>1, <3>4, Underway DEF GoodJob, Verdicts, Job
    <3>6. Kept(j)
      BY <2>1, <3>1, <3>2, <3>4 DEF Kept
    <3> HIDE DEF record
    <3> QED BY <1>1, <2>1, <3>2, <3>5, <3>6, JobStepKeeps DEF CannotConnect, GoodCache
  <2>2. CASE Fail(j) /\ Release
    BY <1>1, <2>2, FailKeeps DEF CannotConnect
  <2> QED BY <1>1, <2>1, <2>2 DEF CannotConnect
<1>2. CASE Unavailable(j)
  BY <1>2, FailKeeps DEF Unavailable
<1>3. CASE Breaks(j)
  <2>1. "raised" \in Outcomes \ Verdicts
    BY DEF Outcomes, Verdicts
  <2> QED BY <1>3, <2>1, AbandonKeeps DEF Breaks, Abandon, Release
<1>4. ASSUME NEW v \in Verdicts, GivesVerdict(j, v) PROVE IInv'
  BY <1>4, DecideKeeps DEF GivesVerdict
<1>5. CASE GivesRewrite(j)
  <2>1. "rewritten" \in Outcomes \ Verdicts
    BY DEF Outcomes, Verdicts
  <2> QED BY <1>5, <2>1, AbandonKeeps DEF GivesRewrite, Abandon, Release
<1>6. CASE GivesGarbage(j)
  <2>1. CASE /\ job' = [job EXCEPT ![j] = Asking("rewrite", job[j].subject, 2)]
             /\ UNCHANGED cache
    <3>1. job[j].pc = "posting" /\ job \in [Jobs -> Job] /\ job[j].subject \in Subjects
      BY <1>6, Underway DEF GivesGarbage
    <3>2. GoodJob(j, Asking("rewrite", job[j].subject, 2))
      BY <3>1, AskingIsGood
    <3>3. GivenBack(j)
      BY <1>6, <2>1, <3>1 DEF GivenBack, GivesGarbage, Release, Asking, NoJob
    <3> QED BY <1>6, <2>1, <3>2, <3>3, JobStepKeeps DEF GivesGarbage, GoodCache
  <2>2. CASE Fail(j)
    BY <1>6, <2>2, FailKeeps DEF GivesGarbage
  <2> QED BY <1>6, <2>1, <2>2 DEF GivesGarbage
<1> QED BY <1>1, <1>2, <1>3, <1>4, <1>5, <1>6 DEF Answered

LEMMA ReturnKeeps ==
    ASSUME IInv, NEW j \in Jobs, Return(j) PROVE IInv'
<1>1. job \in [Jobs -> Job] BY DEF IInv, TypeOK
<1>2. GoodJob(j, NoJob)
  BY NoJobIsJob DEF GoodJob, NoJob, Verdicts
<1>3. Kept(j)
  BY <1>1 DEF Kept, Return, NoJob
<1> QED BY <1>2, <1>3, JobStepKeeps DEF Return, GoodCache

LEMMA TickKeeps == ASSUME IInv, Tick PROVE IInv'
<1> USE DEF IInv
<1>1. /\ now' = now + 1 /\ now' \in 0..MaxTime /\ now \in Nat
      /\ UNCHANGED <<onError, screen, cache, permits, job>>
  BY LlmAssumption DEF Tick, TypeOK
<1>2. TypeOK'
  BY <1>1 DEF TypeOK
<1>3. PermitsConserved'
  BY <1>1 DEF PermitsConserved, Posting
<1>4. CacheInv'
  <2>1. \A s \in Subjects : cache[s] # NoEntry => cache[s].at \in Nat
    BY LlmAssumption DEF TypeOK, Entry
  <2> QED BY <1>1, <2>1 DEF CacheInv
<1> QED BY <1>1, <1>2, <1>3, <1>4 DEF JobInv, VerdictIsRecent, FailuresFollowOnError

LEMMA InitIInv == ASSUME Init PROVE IInv
<1>1. /\ permits = MaxConcurrency /\ now = 0
      /\ \A s \in Subjects : cache[s] = NoEntry
      /\ \A j \in Jobs : job[j] = NoJob
  BY DEF Init
<1>2. TypeOK
  BY NoJobIsJob, LlmAssumption DEF Init, TypeOK
<1>3. PermitsConserved
  <2>1. Posting = {}
    BY <1>1 DEF Posting, NoJob
  <2> QED BY <1>1, <2>1, FS_EmptySet, LlmAssumption DEF PermitsConserved
<1> QED BY <1>1, <1>2, <1>3
        DEF IInv, CacheInv, JobInv, VerdictIsRecent, FailuresFollowOnError, NoJob, Verdicts

LEMMA StepKeeps == ASSUME IInv, [Next]_vars PROVE IInv'
<1>1. ASSUME NEW j \in Jobs, NEW s \in Subjects, Review(j, s) PROVE IInv' BY <1>1, ReviewKeeps
<1>2. ASSUME NEW j \in Jobs, NEW s \in Subjects, Rewrite(j, s) PROVE IInv' BY <1>2, RewriteKeeps
<1>3. ASSUME NEW j \in Jobs, Acquire(j) PROVE IInv' BY <1>3, AcquireKeeps
<1>4. ASSUME NEW j \in Jobs, Answered(j) PROVE IInv' BY <1>4, AnsweredKeeps
<1>5. ASSUME NEW j \in Jobs, CancelJob(j) PROVE IInv'
  <2>1. "cancelled" \in Outcomes \ Verdicts
    BY DEF Outcomes, Verdicts
  <2> QED BY <1>5, <2>1, AbandonKeeps DEF CancelJob, Abandon
<1>6. ASSUME NEW j \in Jobs, Return(j) PROVE IInv' BY <1>6, ReturnKeeps
<1>7. CASE Tick BY <1>7, TickKeeps
<1>8. CASE UNCHANGED vars
  BY <1>8 DEF vars, IInv, TypeOK, PermitsConserved, Posting, CacheInv, JobInv,
              VerdictIsRecent, FailuresFollowOnError
<1> QED BY <1>1, <1>2, <1>3, <1>4, <1>5, <1>6, <1>7, <1>8 DEF Next

THEOREM Invariance == Spec => []IInv
<1>1. Init => IInv BY InitIInv
<1>2. IInv /\ [Next]_vars => IInv' BY StepKeeps
<1> QED BY <1>1, <1>2, PTL DEF Spec

\* Types, and with them the bounds on the POSTs of a completion and on the
\* rounds of a rewrite.
THEOREM TypeCorrect == Spec => []TypeOK
<1>1. IInv => TypeOK BY DEF IInv
<1> QED BY <1>1, Invariance, PTL

\* No completion loses or doubles a permit of the client.
THEOREM PermitSafety == Spec => []PermitsConserved
<1>1. IInv => PermitsConserved BY DEF IInv
<1> QED BY <1>1, Invariance, PTL

\* No verdict is served for another subject or past the TTL.
THEOREM CacheSafety == Spec => []VerdictIsRecent
<1>1. IInv => VerdictIsRecent BY DEF IInv
<1> QED BY <1>1, Invariance, PTL

\* A failure never decides against the setting.
THEOREM FailureSafety == Spec => []FailuresFollowOnError
<1>1. IInv => FailuresFollowOnError BY DEF IInv
<1> QED BY <1>1, Invariance, PTL

------------------------------------------------------------------------------
(***************************************************************************)
(* How long a job can go on, and who can go on in every state: the part of *)
(* JobsEnd that does not speak of fairness.                                *)
(***************************************************************************)
UnderWay == {"waiting", "posting"}

\* The steps that a job has left at most: to get a permit and to post twice in
\* each of the rounds that it has left.
StepsOfJob(r) ==
    CASE r.pc = "waiting" -> 3 * (3 - r.round)
      [] r.pc = "posting" -> 3 * (3 - r.round) - r.post
      [] OTHER            -> 0

\* From r a job has come to q: it is about the same text and has fewer steps left.
CloserToItsEnd(r, q) ==
    /\ q.op = r.op /\ q.subject = r.subject
    /\ q.pc \in UnderWay \cup {"done"}
    /\ StepsOfJob(q) < StepsOfJob(r)

\* How a rewrite may end: as its docstring says, or with a transport error that
\* the client has not translated.
EndOfRewrite(r) ==
    r.op = "rewrite" /\ r.pc = "done" =>
      r.outcome \in {"rewritten", "cancelled", "raised",
                     IF onError = "allow" THEN "skipped" ELSE "unavailable"}

LEMMA StepsAreLeft ==
    ASSUME IInv, NEW j \in Jobs, job[j].pc \in UnderWay
    PROVE  /\ job[j].round \in {1, 2} /\ job[j].post \in 0..2
           /\ StepsOfJob(job[j]) \in 1..6
<1>1. job[j].round \in {1, 2} /\ job[j].post \in 0..2
  BY Underway DEF UnderWay, Job
<1>2. CASE job[j].pc = "waiting"
  BY <1>1, <1>2 DEF StepsOfJob
<1>3. CASE job[j].pc = "posting"
  BY <1>1, <1>3 DEF StepsOfJob
<1> QED BY <1>1, <1>2, <1>3 DEF UnderWay

\* A job that ends has come closer to its end.
LEMMA EndIsCloser ==
    ASSUME IInv, NEW j \in Jobs, job[j].pc \in UnderWay, NEW q,
           q.op = job[j].op, q.subject = job[j].subject, q.pc = "done"
    PROVE  CloserToItsEnd(job[j], q)
<1>1. StepsOfJob(q) = 0
  BY DEF StepsOfJob
<1> QED BY <1>1, StepsAreLeft DEF CloserToItsEnd

LEMMA FailsCloser ==
    ASSUME IInv, NEW j \in Jobs, job[j].pc = "posting", Fail(j)
    PROVE  /\ CloserToItsEnd(job[j], job'[j]) /\ EndOfRewrite(job'[j])
           /\ \A i \in Jobs \ {j} : job'[i] = job[i]
<1>1. job \in [Jobs -> Job] /\ job[j] \in Job /\ job[j].pc \in UnderWay
  BY Underway DEF UnderWay
<1>2. /\ job'[j].op = job[j].op /\ job'[j].subject = job[j].subject
      /\ job'[j].pc = "done"
      /\ job[j].op # "review" =>
           job'[j].outcome = IF onError = "allow" THEN "skipped" ELSE "unavailable"
      /\ \A i \in Jobs \ {j} : job'[i] = job[i]
  BY <1>1 DEF Fail, Decide, Job
<1>3. EndOfRewrite(job'[j])
  BY <1>2 DEF EndOfRewrite
<1> QED BY <1>1, <1>2, <1>3, EndIsCloser

LEMMA AbandonsCloser ==
    ASSUME IInv, NEW j \in Jobs, job[j].pc \in UnderWay,
           NEW outcome \in {"rewritten", "cancelled", "raised"}, Abandon(j, outcome)
    PROVE  /\ CloserToItsEnd(job[j], job'[j]) /\ EndOfRewrite(job'[j])
           /\ \A i \in Jobs \ {j} : job'[i] = job[i]
<1>1. job \in [Jobs -> Job] /\ job[j] \in Job
  BY Underway DEF UnderWay
<1>2. /\ job'[j].op = job[j].op /\ job'[j].subject = job[j].subject
      /\ job'[j].pc = "done" /\ job'[j].outcome = outcome
      /\ \A i \in Jobs \ {j} : job'[i] = job[i]
  BY <1>1 DEF Abandon, Job
<1>3. EndOfRewrite(job'[j])
  BY <1>2 DEF EndOfRewrite
<1> QED BY <1>2, <1>3, EndIsCloser

LEMMA AnsweredCloser ==
    ASSUME IInv, NEW j \in Jobs, Answered(j)
    PROVE  /\ CloserToItsEnd(job[j], job'[j]) /\ EndOfRewrite(job'[j])
           /\ \A i \in Jobs \ {j} : job'[i] = job[i]
<1>1. job[j].pc = "posting"
  BY DEF Answered, CannotConnect, Unavailable, Breaks, GivesVerdict, GivesRewrite,
         GivesGarbage
<1>2. /\ job[j].pc \in UnderWay /\ job \in [Jobs -> Job] /\ job[j] \in Job
      /\ job[j].round \in {1, 2} /\ job[j].post \in 0..2
  BY <1>1, Underway, StepsAreLeft DEF UnderWay
<1>3. CASE Fail(j)
  BY <1>1, <1>3, FailsCloser
<1>4. CASE /\ job[j].post < 2
           /\ job' = [job EXCEPT ![j].post = job[j].post + 1]
  <2>1. /\ job'[j].op = job[j].op /\ job'[j].subject = job[j].subject
        /\ job'[j].pc = "posting" /\ job'[j].round = job[j].round
        /\ job'[j].post = job[j].post + 1
        /\ \A i \in Jobs \ {j} : job'[i] = job[i]
    BY <1>1, <1>2, <1>4 DEF Job
  <2>2. StepsOfJob(job'[j]) = 3 * (3 - job[j].round) - (job[j].post + 1)
    BY <2>1 DEF StepsOfJob
  <2>3. StepsOfJob(job[j]) = 3 * (3 - job[j].round) - job[j].post
    BY <1>1 DEF StepsOfJob
  <2>4. StepsOfJob(job'[j]) < StepsOfJob(job[j])
    BY <1>2, <2>2, <2>3
  <2> QED BY <2>1, <2>4 DEF CloserToItsEnd, EndOfRewrite, UnderWay
<1>5. CASE /\ job[j].op = "rewrite" /\ job[j].round < 2
           /\ job' = [job EXCEPT ![j] = Asking("rewrite", job[j].subject, 2)]
  <2>1. /\ job'[j].op = job[j].op /\ job'[j].subject = job[j].subject
        /\ job'[j].pc = "waiting" /\ job'[j].round = 2
        /\ \A i \in Jobs \ {j} : job'[i] = job[i]
    BY <1>2, <1>5 DEF Asking, NoJob
  <2>2. StepsOfJob(job'[j]) = 3
    BY <2>1 DEF StepsOfJob
  <2>3. StepsOfJob(job[j]) = 3 * (3 - job[j].round) - job[j].post
    BY <1>1 DEF StepsOfJob
  <2>4. StepsOfJob(job'[j]) < StepsOfJob(job[j])
    BY <1>2, <1>5, <2>2, <2>3
  <2> QED BY <2>1, <2>4 DEF CloserToItsEnd, EndOfRewrite, UnderWay
<1>6. ASSUME NEW v \in Verdicts, GivesVerdict(j, v)
      PROVE  /\ CloserToItsEnd(job[j], job'[j]) /\ EndOfRewrite(job'[j])
             /\ \A i \in Jobs \ {j} : job'[i] = job[i]
  <2>1. /\ job'[j].op = job[j].op /\ job'[j].subject = job[j].subject
        /\ job'[j].pc = "done" /\ job[j].op = "review"
        /\ \A i \in Jobs \ {j} : job'[i] = job[i]
    BY <1>2, <1>6 DEF GivesVerdict, Decide, Job
  <2> QED BY <1>2, <2>1, EndIsCloser DEF EndOfRewrite
<1>7. CASE Breaks(j) \/ GivesRewrite(j)
  <2>1. Abandon(j, "raised") \/ Abandon(j, "rewritten")
    BY <1>7 DEF Breaks, GivesRewrite
  <2> QED BY <1>2, <2>1, AbandonsCloser
<1> QED BY <1>3, <1>4, <1>5, <1>6, <1>7
        DEF Answered, CannotConnect, Unavailable, GivesGarbage

\* What a step does to the slots.
LEMMA SlotsGoOn ==
    ASSUME IInv, [Next]_vars
    PROVE  /\ onError' = onError
           /\ \A j \in Jobs :
                \/ job'[j] = job[j]
                \/ CloserToItsEnd(job[j], job'[j]) /\ EndOfRewrite(job'[j])
                \/ job[j].pc \notin UnderWay /\ EndOfRewrite(job'[j])
<1> USE DEF IInv
<1>1. job \in [Jobs -> Job]
  BY DEF TypeOK
<1>2. ASSUME NEW j \in Jobs, NEW s \in Subjects, Review(j, s)
      PROVE  /\ job[j].pc \notin UnderWay /\ EndOfRewrite(job'[j]) /\ onError' = onError
             /\ \A i \in Jobs \ {j} : job'[i] = job[i]
  <2>1. job[j].pc \notin UnderWay /\ onError' = onError
    BY <1>2 DEF Review, UnderWay
  <2>2. PICK q : job' = [job EXCEPT ![j] = q] /\ q.op = "review"
    <3>1. Asking("review", s, 1).op = "review"
      BY DEF Asking, NoJob
    <3>2. CASE job' = [job EXCEPT ![j] = Asking("review", s, 1)]
      BY <3>1, <3>2
    <3>3. CASE ~(job' = [job EXCEPT ![j] = Asking("review", s, 1)])
      <4> DEFINE answered == [NoJob EXCEPT !.op = "review", !.pc = "done", !.subject = s,
                                           !.servedAt = now]
                 screened == [answered EXCEPT !.outcome = screen[s]]
                 cached   == [answered EXCEPT !.outcome = cache[s].verdict,
                                              !.basis = cache[s]]
      <4>1. screened.op = "review" /\ cached.op = "review"
        BY DEF NoJob
      <4>2. \/ job' = [job EXCEPT ![j] = screened]
            \/ job' = [job EXCEPT ![j] = cached]
        BY <1>2, <3>3 DEF Review
      <4> HIDE DEF screened, cached
      <4> QED BY <4>1, <4>2
    <3> QED BY <3>2, <3>3
  <2>3. job'[j] = q /\ \A i \in Jobs \ {j} : job'[i] = job[i]
    BY <1>1, <2>2
  <2> QED BY <2>1, <2>2, <2>3 DEF EndOfRewrite
<1>3. ASSUME NEW j \in Jobs, NEW s \in Subjects, Rewrite(j, s)
      PROVE  /\ job[j].pc \notin UnderWay /\ EndOfRewrite(job'[j]) /\ onError' = onError
             /\ \A i \in Jobs \ {j} : job'[i] = job[i]
  BY <1>1, <1>3 DEF Rewrite, UnderWay, EndOfRewrite, Asking, NoJob
<1>4. ASSUME NEW j \in Jobs, Acquire(j)
      PROVE  /\ CloserToItsEnd(job[j], job'[j]) /\ EndOfRewrite(job'[j])
             /\ onError' = onError /\ \A i \in Jobs \ {j} : job'[i] = job[i]
  <2>1. /\ job[j].pc = "waiting" /\ job[j] \in Job /\ onError' = onError
        /\ job' = [job EXCEPT ![j].pc = "posting", ![j].post = 1]
    BY <1>1, <1>4 DEF Acquire
  <2>2. /\ job'[j].op = job[j].op /\ job'[j].subject = job[j].subject
        /\ job'[j].pc = "posting" /\ job'[j].round = job[j].round /\ job'[j].post = 1
        /\ \A i \in Jobs \ {j} : job'[i] = job[i]
    BY <1>1, <2>1 DEF Job
  <2>3. job[j].round \in {1, 2}
    BY <2>1, Underway
  <2>4. StepsOfJob(job'[j]) = 3 * (3 - job[j].round) - 1
    BY <2>2 DEF StepsOfJob
  <2>5. StepsOfJob(job[j]) = 3 * (3 - job[j].round)
    BY <2>1 DEF StepsOfJob
  <2>6. StepsOfJob(job'[j]) < StepsOfJob(job[j])
    BY <2>3, <2>4, <2>5
  <2> QED BY <2>1, <2>2, <2>6 DEF CloserToItsEnd, EndOfRewrite, UnderWay
<1>5. ASSUME NEW j \in Jobs, CancelJob(j)
      PROVE  /\ CloserToItsEnd(job[j], job'[j]) /\ EndOfRewrite(job'[j])
             /\ onError' = onError /\ \A i \in Jobs \ {j} : job'[i] = job[i]
  <2>1. job[j].pc \in UnderWay /\ Abandon(j, "cancelled") /\ onError' = onError
    BY <1>5 DEF CancelJob, UnderWay
  <2> QED BY <2>1, AbandonsCloser
<1>6. ASSUME NEW j \in Jobs, Return(j)
      PROVE  /\ job[j].pc \notin UnderWay /\ EndOfRewrite(job'[j]) /\ onError' = onError
             /\ \A i \in Jobs \ {j} : job'[i] = job[i]
  BY <1>1, <1>6 DEF Return, UnderWay, EndOfRewrite, NoJob
<1>7. ASSUME NEW j \in Jobs, Answered(j) PROVE onError' = onError
  BY <1>7 DEF Answered, CannotConnect, Unavailable, Breaks, GivesVerdict, GivesRewrite,
              GivesGarbage
<1>8. CASE Tick \/ UNCHANGED vars
  BY <1>8 DEF Tick, vars
<1> QED BY <1>2, <1>3, <1>4, <1>5, <1>6, <1>7, <1>8, AnsweredCloser DEF Next

\* Whatever the model does, a job asks it about one text only and comes closer
\* to its end with each of its steps: a review posts at most twice, a rewrite at
\* most twice in each of its two rounds, and no failure starts either anew
\* (openai_compatible.py:123-147, rewriter/service.py:66-84).
THEOREM JobsComeToAnEnd ==
    Spec => [][\A j \in Jobs :
                 job[j].pc \in UnderWay =>
                   job'[j] = job[j] \/ CloserToItsEnd(job[j], job'[j])]_vars
<1> DEFINE Nearer ==
      \A j \in Jobs :
        job[j].pc \in UnderWay => job'[j] = job[j] \/ CloserToItsEnd(job[j], job'[j])
<1>1. IInv /\ [Next]_vars => [Nearer]_vars
  BY SlotsGoOn
<1> QED BY <1>1, Invariance, PTL DEF Spec

\* While a job waits for a permit, somebody can go on: a permit is free or a
\* completion under way will give one back.  So the semaphore alone never brings
\* the services to a standstill, whatever they share it for.
WaitingIsNotInVain ==
    (\E j \in Jobs : job[j].pc = "waiting") => permits > 0 \/ Posting # {}

THEOREM NobodyWaitsInVain == Spec => []WaitingIsNotInVain
<1>1. ASSUME IInv PROVE WaitingIsNotInVain
  <2>1. permits + Cardinality(Posting) = MaxConcurrency /\ permits \in 0..MaxConcurrency
    BY <1>1 DEF IInv, PermitsConserved, TypeOK
  <2>2. ASSUME Posting = {} PROVE permits > 0
    <3>1. Cardinality(Posting) = 0
      BY <2>2, FS_EmptySet
    <3> QED BY <2>1, <3>1, LlmAssumption
  <2> QED BY <2>2 DEF WaitingIsNotInVain
<1> QED BY <1>1, Invariance, PTL

\* RewriteFollowsOnError, which a broken connection violates, fails in no other
\* way: every other rewrite that ends does so as its docstring says.
RewritesEnd == \A j \in Jobs : EndOfRewrite(job[j])

THEOREM OnlyBrokenConnectionsRaise == Spec => []RewritesEnd
<1>1. Init => RewritesEnd
  BY DEF Init, RewritesEnd, EndOfRewrite, NoJob
<1>2. ASSUME IInv, RewritesEnd, [Next]_vars PROVE RewritesEnd'
  BY <1>2, SlotsGoOn DEF RewritesEnd, EndOfRewrite
<1> QED BY <1>1, <1>2, Invariance, PTL DEF Spec
===============================================================================
