-------------------------- MODULE SessionStore_proof --------------------------
(***************************************************************************)
(* Machine-checked proofs about SessionStore: type correctness, the data   *)
(* key invariants, the action property and the refinement of               *)
(* SessionLifecycle, for every set of sessions, keys and request slots and *)
(* every TTL.  IInv strengthens them to an inductive invariant: it says    *)
(* what each program counter knows about its request.                      *)
(***************************************************************************)
EXTENDS SessionStore, TLAPS

\* A row that exists has an owner and a data key that no other row has.
RowInv ==
    \A s \in Sids :
        /\ rows[s].state = "absent" => rows[s].dataKey = 0
        /\ rows[s].state # "absent" =>
             /\ rows[s].owner \in Keys
             /\ rows[s].dataKey \in 1..minted
             /\ \A t \in Sids : rows[t].dataKey = rows[s].dataKey => t = s

\* What a request slot holds at each program counter.
PcInv ==
    \A r \in Requests :
        /\ req[r].pc = "idle" => req[r] = NoRequest
        /\ req[r].pc \in {"upsert", "fetch"} =>
             /\ req[r].op = "initialize"
             /\ req[r].sid \in Sids
             /\ req[r].key \in Keys
        /\ req[r].pc = "read" =>
             /\ req[r].session = NoRecord
             /\ req[r].op \in {"data_key", "latest"}
             /\ req[r].key \in Keys
             /\ req[r].op = "data_key" => req[r].sid \in Sids
        /\ req[r].pc \in {"refresh", "running", "expire"} =>
             /\ req[r].op # "initialize"
             /\ req[r].sid \in Sids
        /\ req[r].pc # "done" => req[r].outcome = "none"

\* A request that acts for a session acts with that session's data key.
ActingInv ==
    \A r \in Requests :
        Acting(r) =>
          /\ req[r].sid \in Sids
          /\ rows[req[r].sid].state # "absent"
          /\ req[r].session.dataKey = rows[req[r].sid].dataKey

\* Rows are never deleted, so an idle close finds the row that was read.
ExpireInv ==
    \A r \in Requests : req[r].pc = "expire" => rows[req[r].sid].state # "absent"

IInv == TypeOK /\ RowInv /\ PcInv /\ ActingInv /\ ExpireInv /\ DataKeyOnlyForOwner

------------------------------------------------------------------------------
LEMMA InitEstablishesIInv == Init => IInv
<1> USE DEF Init, NoRequest, NoRow, NoRecord, ToSession
<1>1. Init => TypeOK
  BY SessionAssumption DEF TypeOK, Row, Request, Record, Ops, Pcs, Outcomes
<1>2. Init => RowInv /\ PcInv /\ ActingInv /\ ExpireInv /\ DataKeyOnlyForOwner
  BY DEF RowInv, PcInv, ActingInv, Acting, ExpireInv, DataKeyOnlyForOwner
<1>3. QED  BY <1>1, <1>2 DEF IInv

\* The empty request is a request.
LEMMA NoRequestType == NoRequest \in Request
BY SessionAssumption
   DEF NoRequest, NoRow, NoRecord, ToSession, Request, Record, Ops, Pcs, Outcomes

LEMMA AuthenticateKeepsIInv ==
    ASSUME IInv, NEW r \in Requests, NEW op \in Ops, NEW s \in Sids, NEW k \in Keys,
           Authenticate(r, op, s, k)
    PROVE  IInv'
<1>1. TypeOK'
  <2> DEFINE q == [NoRequest EXCEPT
                     !.op = op, !.key = k,
                     !.stamp = IF op = "initialize" THEN now ELSE 0,
                     !.sid = IF op = "latest" THEN NoSid ELSE s,
                     !.pc = IF k \in revoked THEN "done"
                            ELSE IF op = "initialize" THEN "upsert" ELSE "read",
                     !.outcome = IF k \in revoked THEN "refused" ELSE "none"]
  <2>1. req' = [req EXCEPT ![r] = q] /\ UNCHANGED <<rows, revoked, minted, now>>
    BY DEF Authenticate
  <2>2. q \in Request
    <3>1. /\ (IF op = "initialize" THEN now ELSE 0) \in Nat
          /\ (IF k \in revoked THEN "done"
              ELSE IF op = "initialize" THEN "upsert" ELSE "read") \in Pcs
          /\ (IF k \in revoked THEN "refused" ELSE "none") \in Outcomes
          /\ (IF op = "latest" THEN NoSid ELSE s) \in Sids \cup {NoSid}
      BY SessionAssumption DEF IInv, TypeOK, Pcs, Outcomes
    <3>2. QED  BY <3>1, NoRequestType DEF Request
  <2>3. QED  BY <2>1, <2>2 DEF IInv, TypeOK
<1> USE DEF IInv, Authenticate, NoRequest, NoRow, NoRecord, ToSession
<1>2. RowInv'
  BY SessionAssumption DEF TypeOK, RowInv, PcInv, Row, Request, Record
<1>3. PcInv'
  BY SessionAssumption DEF TypeOK, RowInv, PcInv, Row, Request, Record
<1>4. ActingInv'
  BY SessionAssumption DEF TypeOK, RowInv, PcInv, ActingInv, Acting, Row, Request, Record
<1>5. ExpireInv'
  BY DEF TypeOK, PcInv, ExpireInv, Row, Request
<1>6. DataKeyOnlyForOwner'
  BY SessionAssumption DEF TypeOK, PcInv, DataKeyOnlyForOwner, Row, Request, Record
<1>7. QED  BY <1>1, <1>2, <1>3, <1>4, <1>5, <1>6

LEMMA UpsertKeepsIInv ==
    ASSUME IInv, NEW r \in Requests, Upsert(r)
    PROVE  IInv'
<1> USE DEF IInv, Upsert, NoRequest, NoRow, NoRecord, ToSession
<1>1. TypeOK'
  <2>1. req'[r] \in Request
    <3>1. req[r] \in Request
      BY DEF TypeOK
    <3>2. req'[r] = [req[r] EXCEPT !.pc = "fetch", !.stamp = 0]
      BY DEF TypeOK
    <3>3. QED  BY <3>1, <3>2, SessionAssumption DEF TypeOK, Row, Request, Record, Ops, Pcs, Outcomes
  <2>2. req' = [req EXCEPT ![r] = req'[r]]
    BY DEF TypeOK
  <2>3. rows' \in [Sids -> Row] /\ minted' \in Nat /\ revoked' \subseteq Keys /\ now' \in 0..MaxTime
    BY SessionAssumption DEF TypeOK, PcInv, Row, Request
  <2>4. QED  BY <2>1, <2>2, <2>3 DEF TypeOK
<1>2. RowInv'
  BY SessionAssumption DEF TypeOK, RowInv, PcInv, Row, Request, Record
<1>3. PcInv'
  BY SessionAssumption DEF TypeOK, RowInv, PcInv, Row, Request, Record
<1>4. ActingInv'
  BY SessionAssumption DEF TypeOK, RowInv, PcInv, ActingInv, Acting, Row, Request, Record
<1>5. ExpireInv'
  BY DEF TypeOK, PcInv, ExpireInv, Row, Request
<1>6. DataKeyOnlyForOwner'
  BY SessionAssumption DEF TypeOK, PcInv, DataKeyOnlyForOwner, Row, Request, Record
<1>7. QED  BY <1>1, <1>2, <1>3, <1>4, <1>5, <1>6

LEMMA FetchOpenedKeepsIInv ==
    ASSUME IInv, NEW r \in Requests, FetchOpened(r)
    PROVE  IInv'
<1> USE DEF IInv, FetchOpened, NoRequest, NoRow, NoRecord, ToSession
<1>1. TypeOK'
  BY SessionAssumption DEF TypeOK, PcInv, Row, Request, Record, Ops, Pcs, Outcomes
<1>2. RowInv'
  BY SessionAssumption DEF TypeOK, RowInv, PcInv, Row, Request, Record
<1>3. PcInv'
  BY SessionAssumption DEF TypeOK, RowInv, PcInv, Row, Request, Record
<1>4. ActingInv'
  BY SessionAssumption DEF TypeOK, RowInv, PcInv, ActingInv, Acting, Row, Request, Record
<1>5. ExpireInv'
  BY DEF TypeOK, PcInv, ExpireInv, Row, Request
<1>6. DataKeyOnlyForOwner'
  BY SessionAssumption DEF TypeOK, PcInv, DataKeyOnlyForOwner, Row, Request, Record
<1>7. QED  BY <1>1, <1>2, <1>3, <1>4, <1>5, <1>6

LEMMA TouchReadKeepsIInv ==
    ASSUME IInv, NEW r \in Requests, NEW s \in Sids, TouchRead(r, s)
    PROVE  IInv'
<1>1. TypeOK'
  <2> DEFINE start == [NoRequest EXCEPT !.op = "call", !.sid = s]
             q == IF rows[s].state # "open"
                  THEN [start EXCEPT !.pc = "done", !.outcome = "refused"]
                  ELSE IF IdleExpired(rows[s])
                  THEN [start EXCEPT !.pc = "expire"]
                  ELSE [start EXCEPT !.pc = "refresh", !.stamp = now,
                                     !.session = ToSession(rows[s])]
  <2>1. req' = [req EXCEPT ![r] = q] /\ UNCHANGED <<rows, revoked, minted, now>>
    BY DEF TouchRead
  <2>2. start \in Request
    BY NoRequestType DEF Request, Ops
  <2>3. ToSession(rows[s]) \in Record /\ now \in Nat
    BY SessionAssumption DEF IInv, TypeOK, ToSession, Row, Record
  <2>4. q \in Request
    <3> HIDE DEF start
    <3> QED  BY <2>2, <2>3 DEF Request, Pcs, Outcomes
  <2>5. QED  BY <2>1, <2>4 DEF IInv, TypeOK
<1> USE DEF IInv, TouchRead, IdleExpired, NoRequest, NoRow, NoRecord, ToSession
<1>2. RowInv'
  BY SessionAssumption DEF TypeOK, RowInv, PcInv, Row, Request, Record
<1>3. PcInv'
  BY SessionAssumption DEF TypeOK, RowInv, PcInv, Row, Request, Record
<1>4. ActingInv'
  BY SessionAssumption DEF TypeOK, RowInv, PcInv, ActingInv, Acting, Row, Request, Record
<1>5. ExpireInv'
  BY DEF TypeOK, PcInv, ExpireInv, Row, Request
<1>6. DataKeyOnlyForOwner'
  BY SessionAssumption DEF TypeOK, PcInv, DataKeyOnlyForOwner, Row, Request, Record
<1>7. QED  BY <1>1, <1>2, <1>3, <1>4, <1>5, <1>6

LEMMA TouchRefreshKeepsIInv ==
    ASSUME IInv, NEW r \in Requests, TouchRefresh(r)
    PROVE  IInv'
<1> USE DEF IInv, TouchRefresh, NoRequest, NoRow, NoRecord, ToSession
<1>1. TypeOK'
  <2>1. req'[r] \in Request
    <3>1. req[r] \in Request
      BY DEF TypeOK
    <3>2. req'[r] = [req[r] EXCEPT !.pc = "running", !.stamp = 0]
      BY DEF TypeOK
    <3>3. QED  BY <3>1, <3>2, SessionAssumption DEF TypeOK, Row, Request, Record, Ops, Pcs, Outcomes
  <2>2. req' = [req EXCEPT ![r] = req'[r]]
    BY DEF TypeOK
  <2>3. rows' \in [Sids -> Row] /\ minted' \in Nat /\ revoked' \subseteq Keys /\ now' \in 0..MaxTime
    BY SessionAssumption DEF TypeOK, PcInv, Row, Request
  <2>4. QED  BY <2>1, <2>2, <2>3 DEF TypeOK
<1>2. RowInv'
  BY SessionAssumption DEF TypeOK, RowInv, PcInv, Row, Request, Record
<1>3. PcInv'
  BY SessionAssumption DEF TypeOK, RowInv, PcInv, Row, Request, Record
<1>4. ActingInv'
  BY SessionAssumption DEF TypeOK, RowInv, PcInv, ActingInv, Acting, Row, Request, Record
<1>5. ExpireInv'
  BY DEF TypeOK, PcInv, ExpireInv, Row, Request
<1>6. DataKeyOnlyForOwner'
  BY SessionAssumption DEF TypeOK, PcInv, DataKeyOnlyForOwner, Row, Request, Record
<1>7. QED  BY <1>1, <1>2, <1>3, <1>4, <1>5, <1>6

LEMMA ExpireCommitKeepsIInv ==
    ASSUME IInv, NEW r \in Requests, ExpireCommit(r)
    PROVE  IInv'
<1> USE DEF IInv, ExpireCommit, Answer, NoRequest, NoRow, NoRecord, ToSession
<1>1. TypeOK'
  BY SessionAssumption DEF TypeOK, PcInv, Row, Request, Record, Ops, Pcs, Outcomes
<1>2. RowInv'
  BY SessionAssumption DEF TypeOK, RowInv, PcInv, Row, Request, Record
<1>3. PcInv'
  BY SessionAssumption DEF TypeOK, RowInv, PcInv, Row, Request, Record
<1>4. ActingInv'
  BY SessionAssumption DEF TypeOK, RowInv, PcInv, ActingInv, Acting, Row, Request, Record
<1>5. ExpireInv'
  BY DEF TypeOK, PcInv, ExpireInv, Row, Request
<1>6. DataKeyOnlyForOwner'
  BY SessionAssumption DEF TypeOK, PcInv, DataKeyOnlyForOwner, Row, Request, Record
<1>7. QED  BY <1>1, <1>2, <1>3, <1>4, <1>5, <1>6

LEMMA AuditReadKeepsIInv ==
    ASSUME IInv, NEW r \in Requests, AuditRead(r)
    PROVE  IInv'
<1> USE DEF IInv
<1>1. UNCHANGED <<rows, revoked, minted, now>>
  BY DEF AuditRead
<1>2. \A x \in Requests \ {r} : req'[x] = req[x]
  BY DEF TypeOK, AuditRead, Answer
<1>3. req' \in [Requests -> Request]
  <2>1. req[r] \in Request
    BY DEF TypeOK
  <2>2. \/ req' = [req EXCEPT ![r].pc = "expire"]
        \/ \E o \in {"audited", "unaudited"} :
             req' = [req EXCEPT ![r].pc = "done", ![r].outcome = o]
    BY DEF AuditRead, Answer
  <2>3. QED  BY <2>1, <2>2 DEF TypeOK, Request, Pcs, Outcomes
<1>4. /\ req[r].pc = "running"
      /\ req'[r].op = req[r].op /\ req'[r].sid = req[r].sid
      /\ req'[r].key = req[r].key /\ req'[r].session = req[r].session
      /\ req'[r].outcome # "ok" /\ req'[r].pc \in {"done", "expire"}
      /\ req'[r].pc = "expire" =>
           req'[r].outcome = req[r].outcome /\ rows[req[r].sid].state = "open"
  BY DEF TypeOK, PcInv, Request, AuditRead, Answer
<1>5. TypeOK'
  BY <1>1, <1>2, <1>3 DEF TypeOK
<1>6. RowInv'
  BY <1>1 DEF RowInv
<1>7. PcInv'
  BY <1>1, <1>2, <1>3, <1>4 DEF TypeOK, PcInv
<1>8. ActingInv'
  BY <1>1, <1>2, <1>3, <1>4 DEF TypeOK, RowInv, PcInv, ActingInv, Acting, ToSession
<1>9. ExpireInv'
  BY <1>1, <1>2, <1>3, <1>4 DEF TypeOK, PcInv, ExpireInv
<1>10. DataKeyOnlyForOwner'
  BY <1>1, <1>2, <1>3, <1>4 DEF TypeOK, PcInv, DataKeyOnlyForOwner, ToSession
<1>11. QED  BY <1>5, <1>6, <1>7, <1>8, <1>9, <1>10

LEMMA DataKeyReadKeepsIInv ==
    ASSUME IInv, NEW r \in Requests, DataKeyRead(r)
    PROVE  IInv'
<1> USE DEF IInv
<1>1. UNCHANGED <<rows, revoked, minted, now>>
  BY DEF DataKeyRead
<1>2. \A x \in Requests \ {r} : req'[x] = req[x]
  BY DEF TypeOK, DataKeyRead, Answer
<1>3. req' \in [Requests -> Request]
  <2>1. req[r] \in Request
    BY DEF TypeOK
  <2>2. \/ req' = [req EXCEPT ![r].pc = "expire"]
        \/ \E o \in {"refused", "forbidden"} :
             req' = [req EXCEPT ![r].pc = "done", ![r].outcome = o]
        \/ req' = [req EXCEPT ![r].pc = "done", ![r].outcome = "ok",
                              ![r].session = ToSession(rows[req[r].sid])]
    BY DEF DataKeyRead, Answer
  <2>3. ToSession(rows[req[r].sid]) \in Record
    BY DEF TypeOK, PcInv, DataKeyRead, ToSession, Row, Record
  <2>4. QED  BY <2>1, <2>2, <2>3 DEF TypeOK, Request, Pcs, Outcomes
<1>4. /\ req[r].pc = "read" /\ req[r].op = "data_key" /\ req[r].sid \in Sids
      /\ req'[r].op = req[r].op /\ req'[r].sid = req[r].sid /\ req'[r].key = req[r].key
      /\ req'[r].pc \in {"done", "expire"}
      /\ req'[r].pc = "expire" =>
           req'[r].outcome = req[r].outcome /\ rows[req[r].sid].state = "open"
      /\ \/ req'[r].outcome # "ok" /\ req'[r].session = req[r].session
         \/ /\ rows[req[r].sid].state = "open"
            /\ rows[req[r].sid].owner = req[r].key
            /\ req'[r].session = ToSession(rows[req[r].sid])
  BY DEF TypeOK, PcInv, Request, DataKeyRead, Answer
<1>5. TypeOK'
  BY <1>1, <1>2, <1>3 DEF TypeOK
<1>6. RowInv'
  BY <1>1 DEF RowInv
<1>7. PcInv'
  BY <1>1, <1>2, <1>3, <1>4 DEF TypeOK, PcInv
<1>8. ActingInv'
  BY <1>1, <1>2, <1>3, <1>4 DEF TypeOK, RowInv, PcInv, ActingInv, Acting, ToSession
<1>9. ExpireInv'
  BY <1>1, <1>2, <1>3, <1>4 DEF TypeOK, PcInv, ExpireInv
<1>10. DataKeyOnlyForOwner'
  BY <1>1, <1>2, <1>3, <1>4 DEF TypeOK, PcInv, DataKeyOnlyForOwner, ToSession
<1>11. QED  BY <1>5, <1>6, <1>7, <1>8, <1>9, <1>10

LEMMA LatestReadKeepsIInv ==
    ASSUME IInv, NEW r \in Requests, LatestRead(r)
    PROVE  IInv'
<1> USE DEF IInv
<1>1. UNCHANGED <<rows, revoked, minted, now>>
  BY DEF LatestRead
<1>2. \A x \in Requests \ {r} : req'[x] = req[x]
  BY DEF TypeOK, LatestRead, Answer
<1>3. req' \in [Requests -> Request]
  <2>1. req[r] \in Request
    BY DEF TypeOK
  <2>2. \/ req' = [req EXCEPT ![r].pc = "done", ![r].outcome = "refused"]
        \/ \E s \in Sids : req' = [req EXCEPT ![r].pc = "expire", ![r].sid = s]
        \/ \E s \in Sids : req' = [req EXCEPT ![r].pc = "done", ![r].outcome = "ok",
                              ![r].sid = s, ![r].session = ToSession(rows[s])]
    BY DEF LatestRead, LatestOf, Answer
  <2>3. \A s \in Sids : ToSession(rows[s]) \in Record
    BY DEF TypeOK, ToSession, Row, Record
  <2>4. CASE req' = [req EXCEPT ![r].pc = "done", ![r].outcome = "refused"]
    BY <2>1, <2>4 DEF TypeOK, Request, Pcs, Outcomes
  <2>5. ASSUME NEW s \in Sids, req' = [req EXCEPT ![r].pc = "expire", ![r].sid = s]
        PROVE  req' \in [Requests -> Request]
    BY <2>1, <2>5 DEF TypeOK, Request, Pcs
  <2>6. ASSUME NEW s \in Sids,
               req' = [req EXCEPT ![r].pc = "done", ![r].outcome = "ok",
                                  ![r].sid = s, ![r].session = ToSession(rows[s])]
        PROVE  req' \in [Requests -> Request]
    <3>1. ToSession(rows[s]) \in Record
      BY <2>3
    <3>2. QED  BY <2>1, <2>6, <3>1 DEF TypeOK, Request, Pcs, Outcomes
  <2>7. QED  BY <2>2, <2>4, <2>5, <2>6
<1> DEFINE Effect == /\ req[r].pc = "read" /\ req[r].op = "latest"
                     /\ req'[r].op = req[r].op /\ req'[r].key = req[r].key
                     /\ req'[r].pc \in {"done", "expire"}
                     /\ req'[r].pc = "expire" =>
                          /\ req'[r].sid \in Sids /\ req'[r].outcome = req[r].outcome
                          /\ rows[req'[r].sid].state = "open"
                     /\ \/ req'[r].outcome # "ok" /\ req'[r].session = req[r].session
                        \/ /\ req'[r].sid \in Sids
                           /\ rows[req'[r].sid].state = "open"
                           /\ rows[req'[r].sid].owner = req[r].key
                           /\ req'[r].session = ToSession(rows[req'[r].sid])
<1>4. Effect
  <2>1. req[r] \in Request /\ req[r].pc = "read" /\ req[r].op = "latest"
    BY DEF TypeOK, LatestRead
  <2>2. CASE req' = [req EXCEPT ![r].pc = "done", ![r].outcome = "refused"]
    BY <2>1, <2>2 DEF TypeOK, PcInv, Request
  <2>3. ASSUME NEW s \in LatestOf(req[r].key),
               req' = [req EXCEPT ![r].pc = "expire", ![r].sid = s]
        PROVE  Effect
    BY <2>1, <2>3 DEF TypeOK, PcInv, Request, LatestOf
  <2>4. ASSUME NEW s \in LatestOf(req[r].key),
               req' = [req EXCEPT ![r].pc = "done", ![r].outcome = "ok",
                                  ![r].sid = s, ![r].session = ToSession(rows[s])]
        PROVE  Effect
    BY <2>1, <2>4 DEF TypeOK, PcInv, Request, LatestOf
  <2>5. \/ req' = [req EXCEPT ![r].pc = "done", ![r].outcome = "refused"]
        \/ \E s \in LatestOf(req[r].key) :
             req' = [req EXCEPT ![r].pc = "expire", ![r].sid = s]
        \/ \E s \in LatestOf(req[r].key) :
             req' = [req EXCEPT ![r].pc = "done", ![r].outcome = "ok",
                                ![r].sid = s, ![r].session = ToSession(rows[s])]
    BY DEF LatestRead, Answer
  <2>6. QED  BY <2>2, <2>3, <2>4, <2>5
<1>5. TypeOK'
  BY <1>1, <1>2, <1>3 DEF TypeOK
<1>6. RowInv'
  BY <1>1 DEF RowInv
<1>7. PcInv'
  BY <1>1, <1>2, <1>3, <1>4 DEF TypeOK, PcInv
<1>8. ActingInv'
  BY <1>1, <1>2, <1>3, <1>4 DEF TypeOK, RowInv, PcInv, ActingInv, Acting, ToSession
<1>9. ExpireInv'
  BY <1>1, <1>2, <1>3, <1>4 DEF TypeOK, PcInv, ExpireInv
<1>10. DataKeyOnlyForOwner'
  BY <1>1, <1>2, <1>3, <1>4 DEF TypeOK, PcInv, DataKeyOnlyForOwner, ToSession
<1>11. QED  BY <1>5, <1>6, <1>7, <1>8, <1>9, <1>10

LEMMA ReturnKeepsIInv ==
    ASSUME IInv, NEW r \in Requests, Return(r)
    PROVE  IInv'
<1> USE DEF IInv, Return, NoRequest, NoRow, NoRecord, ToSession
<1>1. TypeOK'
  BY SessionAssumption DEF TypeOK, PcInv, Row, Request, Record, Ops, Pcs, Outcomes
<1>2. RowInv'
  BY SessionAssumption DEF TypeOK, RowInv, PcInv, Row, Request, Record
<1>3. PcInv'
  BY SessionAssumption DEF TypeOK, RowInv, PcInv, Row, Request, Record
<1>4. ActingInv'
  BY SessionAssumption DEF TypeOK, RowInv, PcInv, ActingInv, Acting, Row, Request, Record
<1>5. ExpireInv'
  BY DEF TypeOK, PcInv, ExpireInv, Row, Request
<1>6. DataKeyOnlyForOwner'
  BY SessionAssumption DEF TypeOK, PcInv, DataKeyOnlyForOwner, Row, Request, Record
<1>7. QED  BY <1>1, <1>2, <1>3, <1>4, <1>5, <1>6

LEMMA CloseSessionKeepsIInv ==
    ASSUME IInv, NEW s \in Sids, CloseSession(s)
    PROVE  IInv'
BY DEF IInv, CloseSession, TypeOK, RowInv, PcInv, ActingInv, Acting, ExpireInv, DataKeyOnlyForOwner, Row

\* RevokeKey and Tick touch neither the rows nor the requests.
LEMMA EnvironmentKeepsIInv ==
    ASSUME IInv, \/ \E k \in Keys : RevokeKey(k)
                 \/ Tick
                 \/ UNCHANGED vars
    PROVE  IInv'
<1>1. UNCHANGED <<rows, minted, req>>
  BY DEF RevokeKey, Tick, vars
<1>2. revoked' \subseteq Keys /\ now' \in 0..MaxTime
  BY SessionAssumption DEF RevokeKey, Tick, vars, IInv, TypeOK
<1>3. QED
  BY <1>1, <1>2 DEF IInv, TypeOK, RowInv, PcInv, ActingInv, Acting, ExpireInv, DataKeyOnlyForOwner

LEMMA NextKeepsIInv == IInv /\ [Next]_vars => IInv'
<1> SUFFICES ASSUME IInv, [Next]_vars PROVE IInv'
  OBVIOUS
<1>1. ASSUME NEW r \in Requests, NEW op \in Ops, NEW s \in Sids, NEW k \in Keys,
             Authenticate(r, op, s, k)
      PROVE  IInv'
  BY <1>1, AuthenticateKeepsIInv
<1>2. ASSUME NEW r \in Requests, Upsert(r) PROVE IInv'
  BY <1>2, UpsertKeepsIInv
<1>3. ASSUME NEW r \in Requests, FetchOpened(r) PROVE IInv'
  BY <1>3, FetchOpenedKeepsIInv
<1>4. ASSUME NEW r \in Requests, NEW s \in Sids, TouchRead(r, s) PROVE IInv'
  BY <1>4, TouchReadKeepsIInv
<1>5. ASSUME NEW r \in Requests, TouchRefresh(r) PROVE IInv'
  BY <1>5, TouchRefreshKeepsIInv
<1>6. ASSUME NEW r \in Requests, ExpireCommit(r) PROVE IInv'
  BY <1>6, ExpireCommitKeepsIInv
<1>7. ASSUME NEW r \in Requests, AuditRead(r) PROVE IInv'
  BY <1>7, AuditReadKeepsIInv
<1>8. ASSUME NEW r \in Requests, DataKeyRead(r) PROVE IInv'
  BY <1>8, DataKeyReadKeepsIInv
<1>9. ASSUME NEW r \in Requests, LatestRead(r) PROVE IInv'
  BY <1>9, LatestReadKeepsIInv
<1>10. ASSUME NEW r \in Requests, Return(r) PROVE IInv'
  BY <1>10, ReturnKeepsIInv
<1>11. ASSUME NEW s \in Sids, CloseSession(s) PROVE IInv'
  BY <1>11, CloseSessionKeepsIInv
<1>12. QED
  BY <1>1, <1>2, <1>3, <1>4, <1>5, <1>6, <1>7, <1>8, <1>9, <1>10, <1>11,
     EnvironmentKeepsIInv DEF Next

\* The strengthened invariant holds in every reachable state.
THEOREM Invariance == Spec => []IInv
BY InitEstablishesIInv, NextKeepsIInv, PTL DEF Spec

\* Every variable keeps its type, whatever requests interleave
\* (service.py:102-293).
THEOREM TypeCorrect == Spec => []TypeOK
<1>1. IInv => TypeOK
  BY DEF IInv
<1>2. QED  BY <1>1, Invariance, PTL

\* A request's data key is the key of its session and of no other, for the
\* whole time the request is served (service.py:145-155).
THEOREM DataKeySafety == Spec => []DataKeyIdentifiesSession
<1>1. IInv => DataKeyIdentifiesSession
  BY DEF IInv, RowInv, ActingInv, DataKeyIdentifiesSession
<1>2. QED  BY <1>1, Invariance, PTL

\* The data-key routes answer only the owner (v1/sessions.py:18-64).
THEOREM DisclosureSafety == Spec => []DataKeyOnlyForOwner
<1>1. IInv => DataKeyOnlyForOwner
  BY DEF IInv
<1>2. QED  BY <1>1, Invariance, PTL
------------------------------------------------------------------------------
(* Refinement of SessionLifecycle.  Status, Holder and Grant name the values *)
(* that ImplementsLifecycle substitutes for the abstract variables.          *)

Status == [s \in Sids |-> rows[s].state]
Holder == [s \in Sids |-> rows[s].owner]
NoGrant == [sid |-> NoSid, key |-> NoKey]
GrantOf(r) == IF Acting(r) THEN [sid |-> req[r].sid, key |-> req[r].session.owner]
              ELSE NoGrant
Grant == [r \in Requests |-> GrantOf(r)]

\* A step that neither changes a state nor an owner nor a grant is a stutter.
LEMMA StutterStep ==
    ASSUME UNCHANGED <<Status, Holder, Grant>>
    PROVE  [L!LNext]_(L!lvars)
BY DEF L!lvars, Status, Holder, Grant, GrantOf, NoGrant

\* The request that reads an open row in order to act for it is granted it.
LEMMA GrantStep ==
    ASSUME NEW r \in Requests, NEW s \in Sids,
           rows[s].state = "open", ~Acting(r), UNCHANGED rows,
           Acting(r)', req'[r].sid = s, req'[r].session.owner = rows[s].owner,
           \A x \in Requests \ {r} : req'[x] = req[x]
    PROVE  [L!LNext]_(L!lvars)
<1>1. L!LGrant(r, s)
  <2>1. Grant[r] = NoGrant /\ Status[s] = "open" /\ UNCHANGED <<Status, Holder>>
    BY DEF Grant, GrantOf, Status, Holder
  <2>2. \A x \in Requests : Grant'[x] = IF x = r THEN [sid |-> s, key |-> Holder[s]]
                                       ELSE Grant[x]
    BY DEF Grant, GrantOf, Holder, Acting
  <2>3. Grant' = [Grant EXCEPT ![r] = [sid |-> s, key |-> Holder[s]]]
    BY <2>2 DEF Grant
  <2>4. QED  BY <2>1, <2>3 DEF L!LGrant, L!NoGrant, NoGrant, Grant, GrantOf, Status, Holder
<1>2. QED  BY <1>1 DEF L!LNext

\* A step that opens one row for one key and grants nothing.
LEMMA OpenStep ==
    ASSUME NEW s \in Sids, NEW k \in Keys,
           Status' = [Status EXCEPT ![s] = "open"],
           Holder' = [Holder EXCEPT ![s] = k], UNCHANGED Grant
    PROVE  [L!LNext]_(L!lvars)
<1>1. L!LOpen(s, k)
  BY DEF L!LOpen, Status, Holder, Grant, GrantOf, NoGrant
<1>2. QED  BY <1>1 DEF L!LNext

\* A step that closes one open row and grants nothing.
LEMMA CloseStep ==
    ASSUME TypeOK, NEW s \in Sids, rows[s].state = "open",
           rows' = [rows EXCEPT ![s].state = "closed"], UNCHANGED Grant
    PROVE  [L!LNext]_(L!lvars)
<1>1. Status' = [Status EXCEPT ![s] = "closed"] /\ UNCHANGED Holder
  BY DEF TypeOK, Row, Status, Holder
<1>2. L!LClose(s)
  BY <1>1 DEF L!LClose, Status, Holder, Grant, GrantOf, NoGrant
<1>3. QED  BY <1>2 DEF L!LNext

\* A request that acts for nothing before and after leaves every grant alone.
LEMMA GrantUnchanged ==
    ASSUME NEW r \in Requests, GrantOf(r)' = GrantOf(r),
           \A x \in Requests \ {r} : req'[x] = req[x]
    PROVE  UNCHANGED Grant
BY DEF Grant, GrantOf, Acting

LEMMA StepRefines == IInv /\ [Next]_vars => [L!LNext]_(L!lvars)
<1> SUFFICES ASSUME IInv, [Next]_vars PROVE [L!LNext]_(L!lvars)
  OBVIOUS
<1> USE DEF IInv
<1>1. ASSUME NEW r \in Requests, NEW op \in Ops, NEW s \in Sids, NEW k \in Keys,
             Authenticate(r, op, s, k)
      PROVE  [L!LNext]_(L!lvars)
  <2>1. UNCHANGED Grant
    <3>1. /\ req[r].session = NoRecord /\ req'[r].session = NoRecord
          /\ \A x \in Requests \ {r} : req'[x] = req[x]
      BY <1>1 DEF Authenticate, TypeOK, PcInv, NoRequest
    <3>2. QED  BY <3>1, GrantUnchanged DEF GrantOf, Acting
  <2>2. QED  BY <1>1, <2>1, StutterStep DEF Authenticate, Status, Holder
<1>2. ASSUME NEW r \in Requests, Upsert(r)
      PROVE  [L!LNext]_(L!lvars)
  <2>1. req[r].sid \in Sids /\ req[r].key \in Keys /\ req[r].op = "initialize"
    BY <1>2 DEF Upsert, PcInv
  <2>2. UNCHANGED Grant
    BY <1>2, <2>1, GrantUnchanged DEF Upsert, TypeOK, Request, GrantOf, Acting
  <2>3. /\ Status' = [Status EXCEPT ![req[r].sid] = "open"]
        /\ Holder' = [Holder EXCEPT ![req[r].sid] = req[r].key]
    BY <1>2, <2>1 DEF Upsert, TypeOK, Row, Status, Holder
  <2>4. QED  BY <2>1, <2>2, <2>3, OpenStep
<1>3. ASSUME NEW r \in Requests, FetchOpened(r)
      PROVE  [L!LNext]_(L!lvars)
  <2>1. UNCHANGED Grant
    BY <1>3, GrantUnchanged DEF FetchOpened, TypeOK, Request, PcInv, GrantOf, Acting
  <2>2. QED  BY <1>3, <2>1, StutterStep DEF FetchOpened, Status, Holder
<1>4. ASSUME NEW r \in Requests, NEW s \in Sids, TouchRead(r, s)
      PROVE  [L!LNext]_(L!lvars)
  <2>1. /\ ~Acting(r) /\ UNCHANGED rows
        /\ \A x \in Requests \ {r} : req'[x] = req[x]
    BY <1>4 DEF TouchRead, TypeOK, PcInv, Acting, NoRequest
  <2>2. CASE rows[s].state = "open" /\ ~IdleExpired(rows[s])
    <3>1. req'[r].sid = s /\ req'[r].op = "call" /\ req'[r].session = ToSession(rows[s])
      BY <1>4, <2>2 DEF TouchRead, TypeOK, NoRequest
    <3>2. Acting(r)' /\ req'[r].session.owner = rows[s].owner
      BY <2>2, <3>1, SessionAssumption
         DEF Acting, RowInv, ToSession, NoRecord, NoRow
    <3>3. QED  BY <2>1, <2>2, <3>1, <3>2, GrantStep
  <2>3. CASE ~(rows[s].state = "open" /\ ~IdleExpired(rows[s]))
    <3>1. req'[r].session = NoRecord
      BY <1>4, <2>3 DEF TouchRead, TypeOK, NoRequest
    <3>2. UNCHANGED Grant
      BY <2>1, <3>1, GrantUnchanged DEF GrantOf, Acting
    <3>3. QED  BY <2>1, <3>2, StutterStep DEF Status, Holder
  <2>4. QED  BY <2>2, <2>3
<1>5. ASSUME NEW r \in Requests, TouchRefresh(r)
      PROVE  [L!LNext]_(L!lvars)
  <2>1. UNCHANGED Grant
    BY <1>5, GrantUnchanged DEF TouchRefresh, TypeOK, Request, GrantOf, Acting
  <2>2. UNCHANGED <<Status, Holder>>
    BY <1>5 DEF TouchRefresh, TypeOK, Row, Status, Holder
  <2>3. QED  BY <2>1, <2>2, StutterStep
<1>6. ASSUME NEW r \in Requests, ExpireCommit(r)
      PROVE  [L!LNext]_(L!lvars)
  <2>1. UNCHANGED Grant
    BY <1>6, GrantUnchanged DEF ExpireCommit, Answer, TypeOK, Request, GrantOf, Acting
  <2>2. CASE rows[req[r].sid].state = "open"
    BY <1>6, <2>1, <2>2, CloseStep DEF ExpireCommit, PcInv
  <2>3. CASE rows[req[r].sid].state # "open"
    <3>1. rows[req[r].sid].state = "closed"
      BY <1>6, <2>3 DEF ExpireCommit, PcInv, ExpireInv, TypeOK, Row
    <3>2. UNCHANGED <<Status, Holder>>
      BY <1>6, <2>3, <3>1 DEF ExpireCommit, PcInv, TypeOK, Row, Status, Holder
    <3>3. QED  BY <2>1, <3>2, StutterStep
  <2>4. QED  BY <2>2, <2>3
<1>7. ASSUME NEW r \in Requests, AuditRead(r)
      PROVE  [L!LNext]_(L!lvars)
  <2>1. UNCHANGED Grant
    <3>1. /\ req'[r].op = req[r].op /\ req'[r].sid = req[r].sid
          /\ req'[r].session = req[r].session
          /\ \A x \in Requests \ {r} : req'[x] = req[x]
      BY <1>7 DEF AuditRead, Answer, TypeOK, Request
    <3>2. QED  BY <3>1, GrantUnchanged DEF GrantOf, Acting
  <2>2. QED  BY <1>7, <2>1, StutterStep DEF AuditRead, Status, Holder
<1>8. ASSUME NEW r \in Requests, DataKeyRead(r)
      PROVE  [L!LNext]_(L!lvars)
  <2>1. /\ ~Acting(r) /\ UNCHANGED rows
        /\ \A x \in Requests \ {r} : req'[x] = req[x]
    BY <1>8 DEF DataKeyRead, Answer, TypeOK, PcInv, Acting
  <2>2. \/ req'[r].session = req[r].session /\ req'[r].op = req[r].op
        \/ /\ rows[req[r].sid].state = "open" /\ req'[r].op = "data_key"
           /\ req'[r].sid = req[r].sid
           /\ req'[r].session = ToSession(rows[req[r].sid])
    BY <1>8 DEF DataKeyRead, Answer, TypeOK, Request
  <2>3. CASE req'[r].session = req[r].session /\ req'[r].op = req[r].op
    <3>1. UNCHANGED Grant
      BY <2>1, <2>3, GrantUnchanged DEF GrantOf, Acting
    <3>2. QED  BY <2>1, <3>1, StutterStep DEF Status, Holder
  <2>4. CASE /\ rows[req[r].sid].state = "open" /\ req'[r].op = "data_key"
             /\ req'[r].sid = req[r].sid
             /\ req'[r].session = ToSession(rows[req[r].sid])
    <3>1. req[r].sid \in Sids
      BY <1>8 DEF DataKeyRead, PcInv
    <3>2. Acting(r)' /\ req'[r].session.owner = rows[req[r].sid].owner
      BY <2>4, <3>1, SessionAssumption DEF Acting, RowInv, ToSession, NoRecord, NoRow
    <3>3. QED  BY <2>1, <2>4, <3>1, <3>2, GrantStep
  <2>5. QED  BY <2>2, <2>3, <2>4
<1>9. ASSUME NEW r \in Requests, LatestRead(r)
      PROVE  [L!LNext]_(L!lvars)
  <2>1. /\ ~Acting(r) /\ UNCHANGED rows
        /\ \A x \in Requests \ {r} : req'[x] = req[x]
    BY <1>9 DEF LatestRead, Answer, TypeOK, PcInv, Acting
  <2>2. \/ req'[r].session = req[r].session /\ req'[r].op = req[r].op
        \/ \E s \in Sids :
             /\ rows[s].state = "open" /\ req'[r].op = "latest"
             /\ req'[r].sid = s /\ req'[r].session = ToSession(rows[s])
    <3>1. req[r] \in Request /\ req[r].op = "latest"
      BY <1>9 DEF LatestRead, TypeOK
    <3>2. \/ req' = [req EXCEPT ![r].pc = "done", ![r].outcome = "refused"]
          \/ \E s \in Sids : req' = [req EXCEPT ![r].pc = "expire", ![r].sid = s]
          \/ \E s \in Sids :
               /\ rows[s].state = "open"
               /\ req' = [req EXCEPT ![r].pc = "done", ![r].outcome = "ok",
                                     ![r].sid = s, ![r].session = ToSession(rows[s])]
      BY <1>9 DEF LatestRead, LatestOf, Answer
    <3>3. CASE req' = [req EXCEPT ![r].pc = "done", ![r].outcome = "refused"]
      BY <3>1, <3>3 DEF TypeOK, Request
    <3>4. ASSUME NEW s \in Sids, req' = [req EXCEPT ![r].pc = "expire", ![r].sid = s]
          PROVE  req'[r].session = req[r].session /\ req'[r].op = req[r].op
      BY <3>1, <3>4 DEF TypeOK, Request
    <3>5. ASSUME NEW s \in Sids,
                 req' = [req EXCEPT ![r].pc = "done", ![r].outcome = "ok",
                                    ![r].sid = s, ![r].session = ToSession(rows[s])]
          PROVE  /\ req'[r].op = "latest" /\ req'[r].sid = s
                 /\ req'[r].session = ToSession(rows[s])
      BY <3>1, <3>5 DEF TypeOK, Request
    <3>6. QED  BY <3>2, <3>3, <3>4, <3>5
  <2>3. CASE req'[r].session = req[r].session /\ req'[r].op = req[r].op
    <3>1. UNCHANGED Grant
      <4>1. ~Acting(r)'
        BY <2>1, <2>3 DEF Acting
      <4>2. QED  BY <2>1, <4>1, GrantUnchanged DEF GrantOf
    <3>2. QED  BY <2>1, <3>1, StutterStep DEF Status, Holder
  <2>4. ASSUME NEW s \in Sids,
               rows[s].state = "open", req'[r].op = "latest",
               req'[r].sid = s, req'[r].session = ToSession(rows[s])
        PROVE  [L!LNext]_(L!lvars)
    <3>1. Acting(r)' /\ req'[r].session.owner = rows[s].owner
      BY <2>4, SessionAssumption DEF Acting, RowInv, ToSession, NoRecord, NoRow
    <3>2. QED  BY <2>1, <2>4, <3>1, GrantStep
  <2>5. QED  BY <2>2, <2>3, <2>4
<1>10. ASSUME NEW r \in Requests, Return(r)
      PROVE  [L!LNext]_(L!lvars)
  <2>1. /\ UNCHANGED rows /\ ~Acting(r)'
        /\ \A x \in Requests \ {r} : req'[x] = req[x]
    BY <1>10 DEF Return, TypeOK, Acting, NoRequest
  <2>2. CASE Acting(r)
    <3>1. /\ Grant[r] # NoGrant /\ UNCHANGED <<Status, Holder>>
      BY <2>1, <2>2, SessionAssumption
         DEF Grant, GrantOf, NoGrant, ActingInv, Status, Holder
    <3>2. Grant' = [Grant EXCEPT ![r] = NoGrant]
      <4>1. \A x \in Requests : GrantOf(x)' = IF x = r THEN NoGrant ELSE GrantOf(x)
        BY <2>1 DEF GrantOf, Acting, NoGrant
      <4>2. QED  BY <4>1 DEF Grant
    <3>3. L!LRelease(r)
      BY <3>1, <3>2
         DEF L!LRelease, L!NoGrant, NoGrant, Grant, GrantOf, Status, Holder
    <3>4. QED  BY <3>3 DEF L!LNext
  <2>3. CASE ~Acting(r)
    <3>1. UNCHANGED Grant
      BY <2>1, <2>3, GrantUnchanged DEF GrantOf
    <3>2. QED  BY <2>1, <3>1, StutterStep DEF Status, Holder
  <2>4. QED  BY <2>2, <2>3
<1>11. ASSUME NEW s \in Sids, CloseSession(s)
      PROVE  [L!LNext]_(L!lvars)
  <2>1. UNCHANGED Grant
    BY <1>11 DEF CloseSession, Grant, GrantOf, Acting
  <2>2. QED  BY <1>11, <2>1, CloseStep DEF CloseSession
<1>12. CASE \/ \E k \in Keys : RevokeKey(k)
            \/ Tick
            \/ UNCHANGED vars
  <2>1. UNCHANGED <<rows, req>>
    BY <1>12 DEF RevokeKey, Tick, vars
  <2>2. UNCHANGED <<Status, Holder, Grant>>
    BY <2>1 DEF Status, Holder, Grant, GrantOf, Acting
  <2>3. QED  BY <2>2, StutterStep
<1>13. QED
  BY <1>1, <1>2, <1>3, <1>4, <1>5, <1>6, <1>7, <1>8, <1>9, <1>10, <1>11, <1>12
     DEF Next

\* The store implements the lifecycle: what a request acts for was an open
\* session, bound to the key recorded, at the instant of its read
\* (service.py:120-293).
THEOREM Refinement == Spec => ImplementsLifecycle
<1>1. Init => L!LInit
  BY DEF Init, L!LInit, L!NoGrant, Acting, NoRequest, NoRow
<1>2. QED
  BY <1>1, StepRefines, Invariance, PTL DEF Spec, ImplementsLifecycle, L!LSpec

\* What one step may do to the rows.
BindsOrReopens ==
    \A s \in Sids :
      \/ rows'[s].owner # rows[s].owner
      \/ rows[s].state # "open" /\ rows'[s].state = "open"
      => \E r \in Requests :
           /\ req[r].op = "initialize" /\ req[r].pc = "upsert" /\ req[r].sid = s
           /\ req'[r].pc = "fetch" /\ rows'[s].owner = req[r].key

\* Late UPDATEs of touch and of an idle close never revive or re-bind a row
\* (service.py:120-193, 275-293).
THEOREM BindingSafety == Spec => OnlyInitializeBindsOrReopens
<1>1. ASSUME IInv, [Next]_vars PROVE [BindsOrReopens]_vars
  <2>1. CASE UNCHANGED rows
    BY <2>1 DEF BindsOrReopens
  <2>2. ASSUME NEW r \in Requests, Upsert(r) PROVE BindsOrReopens
    <3>1. /\ req[r].op = "initialize" /\ req[r].pc = "upsert"
          /\ req'[r].pc = "fetch" /\ req[r].sid \in Sids
          /\ rows'[req[r].sid].owner = req[r].key
          /\ \A s \in Sids \ {req[r].sid} : rows'[s] = rows[s]
      BY <1>1, <2>2 DEF Upsert, IInv, PcInv, TypeOK, Request
    <3>2. QED  BY <3>1 DEF BindsOrReopens
  <2>3. ASSUME NEW r \in Requests, TouchRefresh(r) PROVE BindsOrReopens
    BY <2>3 DEF TouchRefresh, IInv, TypeOK, Row, BindsOrReopens
  <2>4. ASSUME NEW r \in Requests, ExpireCommit(r) PROVE BindsOrReopens
    BY <2>4 DEF ExpireCommit, IInv, TypeOK, Row, BindsOrReopens
  <2>5. ASSUME NEW s \in Sids, CloseSession(s) PROVE BindsOrReopens
    BY <2>5 DEF CloseSession, IInv, TypeOK, Row, BindsOrReopens
  <2>6. QED
    BY <1>1, <2>1, <2>2, <2>3, <2>4, <2>5
       DEF Next, vars, Authenticate, FetchOpened, TouchRead, AuditRead, DataKeyRead,
           LatestRead, Return, RevokeKey, Tick
<1>2. QED
  BY <1>1, Invariance, PTL DEF Spec, OnlyInitializeBindsOrReopens, BindsOrReopens

------------------------------------------------------------------------------
(***************************************************************************)
(* How far IdleCloseOnlyIdle holds, which the code violates.               *)
(***************************************************************************)
\* A request turns to an idle close only in the step that reads the row idle.
ReadIdle(r) ==
    req[r].pc # "expire" /\ req'[r].pc = "expire" =>
      /\ IdleTtl > 0 /\ rows' = rows /\ now' = now
      /\ req'[r].sid \in Sids /\ rows[req'[r].sid].state = "open"
      /\ IdleExpired(rows[req'[r].sid])

\* A row that is idle stays so until an initialize or a touch of that session
\* writes last_seen_at.
StaysIdle(s) ==
    IdleExpired(rows[s]) /\ ~IdleExpired(rows[s])' =>
      \E q \in Requests :
        /\ req[q].sid = s
        /\ \/ req[q].pc = "upsert" /\ req'[q].pc = "fetch"
           \/ req[q].pc = "refresh" /\ req'[q].pc = "running"

\* The stale idle close that the run finds needs a second request of the same
\* session, one that writes last_seen_at between the read and the UPDATE of the
\* first: a client that sends one request at a time never loses a session
\* before its TTL, and with a TTL of 0 none is closed for idleness at all
\* (session/service.py:168-216, 336-346).
THEOREM StaleCloseNeedsOverlap ==
    Spec => [][(\A r \in Requests : ReadIdle(r)) /\ (\A s \in Sids : StaysIdle(s))]_vars
<1>1. ASSUME IInv, [Next]_vars, NEW r \in Requests PROVE ReadIdle(r)
  <2> SUFFICES ASSUME req[r].pc # "expire", req'[r].pc = "expire"
               PROVE  /\ IdleTtl > 0 /\ rows' = rows /\ now' = now
                      /\ req'[r].sid \in Sids /\ rows[req'[r].sid].state = "open"
                      /\ IdleExpired(rows[req'[r].sid])
    BY DEF ReadIdle
  <2>1. req \in [Requests -> Request] /\ PcInv
    BY <1>1 DEF IInv, TypeOK
  <2>2. CASE \E s \in Sids : TouchRead(r, s)
    BY <2>1, <2>2 DEF TouchRead, IdleExpired, NoRequest
  <2>3. CASE AuditRead(r)
    BY <2>1, <2>3 DEF AuditRead, Answer, IdleExpired, PcInv, Request
  <2>4. CASE DataKeyRead(r)
    BY <2>1, <2>4 DEF DataKeyRead, Answer, IdleExpired, PcInv, Request
  <2>5. CASE LatestRead(r)
    <3>1. req[r] \in Request
      BY <2>1
    <3>2. ~(req' = [req EXCEPT ![r].pc = "done", ![r].outcome = "refused"])
      BY <2>1, <3>1 DEF Request
    <3>3. \A s, session :
            ~(req' = [req EXCEPT ![r].pc = "done", ![r].outcome = "ok", ![r].sid = s,
                                 ![r].session = session])
      BY <2>1, <3>1 DEF Request
    <3>4. PICK s \in LatestOf(req[r].key) :
            IdleExpired(rows[s]) /\ req' = [req EXCEPT ![r].pc = "expire", ![r].sid = s]
      <4>1. CASE \E s \in LatestOf(req[r].key) :
                   /\ IdleExpired(rows[s])
                   /\ req' = [req EXCEPT ![r].pc = "expire", ![r].sid = s]
        BY <4>1
      <4>2. CASE \E s \in LatestOf(req[r].key) :
                   req' = [req EXCEPT ![r].pc = "done", ![r].outcome = "ok", ![r].sid = s,
                                      ![r].session = ToSession(rows[s])]
        BY <3>3, <4>2
      <4> QED BY <2>5, <3>2, <4>1, <4>2, Zenon DEF LatestRead, Answer
    <3>5. req'[r].sid = s
      BY <2>1, <3>1, <3>4 DEF Request
    <3> QED BY <2>5, <3>4, <3>5 DEF LatestRead, LatestOf, IdleExpired
  <2>6. ASSUME NEW q \in Requests, q # r, req'[r] # req[r] PROVE
               /\ ~Upsert(q) /\ ~FetchOpened(q) /\ ~TouchRefresh(q) /\ ~ExpireCommit(q)
               /\ ~AuditRead(q) /\ ~DataKeyRead(q) /\ ~LatestRead(q) /\ ~Return(q)
               /\ \A s \in Sids : ~TouchRead(q, s)
               /\ \A op \in Ops, s \in Sids, k \in Keys : ~Authenticate(q, op, s, k)
    BY <2>1, <2>6 DEF Authenticate, Upsert, FetchOpened, TouchRead, TouchRefresh, ExpireCommit,
                      AuditRead, DataKeyRead, LatestRead, Return, Answer
  <2>7. /\ ~Upsert(r) /\ ~FetchOpened(r) /\ ~TouchRefresh(r) /\ ~ExpireCommit(r) /\ ~Return(r)
        /\ \A op \in Ops, s \in Sids, k \in Keys : ~Authenticate(r, op, s, k)
    <3>1. req[r] \in Request
      BY <2>1
    <3>2. ~Upsert(r) /\ ~FetchOpened(r) /\ ~TouchRefresh(r)
      BY <2>1, <3>1 DEF Upsert, FetchOpened, TouchRefresh, Request
    <3>3. ~ExpireCommit(r) /\ ~Return(r)
      BY <2>1, <3>1 DEF ExpireCommit, Return, Answer, NoRequest, Request
    <3>4. ASSUME NEW op \in Ops, NEW s \in Sids, NEW k \in Keys, Authenticate(r, op, s, k)
          PROVE  FALSE
      <4>1. PICK pc \in {"done", "upsert", "read"} : req'[r].pc = pc
        BY <2>1, <3>4 DEF Authenticate, NoRequest
      <4> QED BY <4>1
    <3> QED BY <3>2, <3>3, <3>4
  <2>8. req'[r] # req[r]
    OBVIOUS
  <2> QED BY <1>1, <2>2, <2>3, <2>4, <2>5, <2>6, <2>7, <2>8
          DEF Next, vars, CloseSession, RevokeKey, Tick
<1>2. ASSUME IInv, [Next]_vars, NEW s \in Sids PROVE StaysIdle(s)
  <2>1. /\ rows \in [Sids -> Row] /\ now \in Nat /\ IdleTtl \in Nat
        /\ req \in [Requests -> Request] /\ rows[s].lastSeen \in Nat
    BY <1>2, SessionAssumption DEF IInv, TypeOK, Row
  <2>2. now' \in {now, now + 1}
    BY <1>2 DEF Next, vars, Authenticate, Upsert, FetchOpened, TouchRead, TouchRefresh,
                ExpireCommit, AuditRead, DataKeyRead, LatestRead, Return, CloseSession,
                RevokeKey, Tick
  <2>3. ASSUME rows'[s].lastSeen = rows[s].lastSeen PROVE StaysIdle(s)
    BY <2>1, <2>2, <2>3 DEF StaysIdle, IdleExpired
  <2>4. ASSUME NEW q \in Requests, Upsert(q) \/ TouchRefresh(q) PROVE StaysIdle(s)
    <3>1. CASE req[q].sid = s
      <4>1. req[q] \in Request
        BY <2>1
      <4>2. \/ req[q].pc = "upsert" /\ req'[q].pc = "fetch"
            \/ req[q].pc = "refresh" /\ req'[q].pc = "running"
        BY <2>1, <2>4, <4>1 DEF Upsert, TouchRefresh, Request
      <4> QED BY <3>1, <4>2 DEF StaysIdle
    <3>2. CASE req[q].sid # s
      <4>1. rows'[s] = rows[s]
        BY <2>1, <2>4, <3>2 DEF Upsert, TouchRefresh
      <4> QED BY <2>3, <4>1
    <3> QED BY <3>1, <3>2
  <2>5. ASSUME NEW q \in Requests, ExpireCommit(q) PROVE StaysIdle(s)
    BY <2>1, <2>3, <2>5 DEF ExpireCommit, Row
  <2>6. ASSUME NEW x \in Sids, CloseSession(x) PROVE StaysIdle(s)
    BY <2>1, <2>3, <2>6 DEF CloseSession, Row
  <2>7. CASE rows' = rows
    BY <2>3, <2>7
  <2> QED BY <1>2, <2>4, <2>5, <2>6, <2>7
          DEF Next, vars, Authenticate, FetchOpened, TouchRead, AuditRead, DataKeyRead,
              LatestRead, Return, RevokeKey, Tick
<1> DEFINE Steps == (\A r \in Requests : ReadIdle(r)) /\ (\A s \in Sids : StaysIdle(s))
<1>3. IInv /\ [Next]_vars => [Steps]_vars
  BY <1>1, <1>2
<1> QED  BY <1>3, Invariance, PTL DEF Spec
===============================================================================
